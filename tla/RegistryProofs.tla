--------------------------- MODULE RegistryProofs ---------------------------
EXTENDS Registry, FiniteSetTheorems, SequenceTheorems, TLAPS

(***************************************************************************)
(* The inductive invariant.                                                *)
(***************************************************************************)

\* What may be stored in a file.
Fits(f, c) ==
  \/ f = Auth /\ c \in {{}, GARBAGE}
  \/ f = Root /\ c \in SUBSET SPs /\ IsFiniteSet(c)
  \/ \E p \in SPs: f = Sp(p) /\ c \in SUBSET TAs /\ IsFiniteSet(c)
  \/ \E u \in TAs: f = Tabin(u) /\ c = {}
  \/ \E u \in TAs, p \in SPs: f = Tl(u, p) /\ c = {}
  \/ \E u \in TAs, p \in SPs: f = Spid(u) /\ c = {p}

Containers == {Root} \cup {Sp(p): p \in SPs} \cup {Tl(u, p): u \in TAs, p \in SPs}
BlobFiles == {Tabin(u): u \in TAs} \cup {Spid(u): u \in TAs}
Contents == Says \cup Broken
Tasks == ({"open", "fill"} \X Files \X Contents) \cup ({"cleanTl"} \X TAs \X SPs)
           \cup ({"cleanSp"} \X SPs)
           \cup ({"remove"} \X Containers) \cup ({"discard"} \X BlobFiles)
           \cup {<<"rename">>, <<"read">>, <<"refuse">>, <<"cleanRoot">>}
Jobs == [todo: Seq(Tasks), wanted: BOOLEAN]
Clients == [steps: Seq(Seq(Tasks)), regardless: BOOLEAN, undo: Seq(Seq(Tasks)),
            answer: {"none", "ok", "error", "lost"}]

Types ==
  /\ file \in [Files -> Contents] /\ listed \in [Files -> Says]
  /\ job \in Jobs /\ queued \in Seq(Jobs)
  /\ client \in Clients
  /\ up \in BOOLEAN /\ failed \in 0..MaxFailures

\* The jobs of the daemon: number 0 is the one in execution.
Todo(i) == IF i = 0 THEN job.todo ELSE queued[i].todo
Slots == 0..Len(queued)

\* The first task of a command stores f; it renames the token.
Stores1(todo, f) == todo # <<>> /\ todo[1][1] \in {"open", "fill"} /\ todo[1][2] = f
Renames(todo) == todo # <<>> /\ todo[1][1] = "rename"

\* Tasks store what fits; only some tasks come after another one.
Follows(t) == \/ t[1] \in {"cleanSp", "cleanTl", "remove", "discard"}
              \/ t[1] = "open" /\ t[2] \in {Spid(u): u \in TAs}
Sound(todo) ==
  \A i \in DOMAIN todo: /\ todo[i][1] \in {"open", "fill"} => Fits(todo[i][2], todo[i][3])
                        /\ i > 1 => Follows(todo[i])
FilesFit == \A f \in Files: \/ file[f] \in {NONE, EMPTY, TORN}
                            \/ Fits(f, file[f])
                            \/ f = Backup /\ file[f] = {}
TodosSound == \A i \in Slots: Sound(Todo(i))

-----------------------------------------------------------------------------
(* RootPA's command, and how many given up ones may be in the daemon.      *)

Registering == <<Store(Root, {}), ReadAuthToken, DeleteAuthToken>>
Reading == <<ReadAuthToken, DeleteAuthToken>>
Deleting == <<DeleteAuthToken>>
Answered == {"ok", "error", "lost"}
Single == {CleanupRoot} \cup {CleanupTrustlet(u, p): u \in TAs, p \in SPs}
            \cup {StoreTABlob(u, p): u \in TAs, p \in SPs}
            \cup UNION {{Store(f, c): c \in {d \in Says: Fits(f, d)}}: f \in Files}
Script(steps, regardless, undo) ==
  client.steps = steps /\ client.regardless = regardless /\ client.undo = undo
AddsSp(p, d) == Script(<<Store(Sp(p), {}), Store(Root, d)>>, FALSE, <<>>)
AddsTl(u, p, d) == Script(<<Store(Tl(u, p), {}), Store(Sp(p), d)>>, FALSE,
                          <<CleanupTrustlet(u, p)>>)
LinksTl(u, p, d) == Script(<<Store(Sp(p), d)>>, FALSE, <<CleanupTrustlet(u, p)>>)
CutsSp(p, d) == Script(<<CleanupSp(p), Store(Root, d)>>, TRUE, <<>>)
CutsTl(u, p, d) == Script(<<CleanupTrustlet(u, p), Store(Sp(p), d)>>, TRUE, <<>>)
Scripts ==
  \/ client = NoCommand /\ Len(queued) <= 2
  \/ \E c \in Single, r \in BOOLEAN: Script(<<c>>, r, <<>>) /\ Len(queued) <= 1
  \/ Script(Registering, FALSE, <<>>) /\ queued = <<>>
  \/ Script(Reading, FALSE, <<>>) /\ queued = <<>>
  \/ \E a \in Answered: Script(Deleting, FALSE, Recovery(a)) /\ Len(queued) <= 1
  \/ \E a \in Answered: Script(Recovery(a), FALSE, <<>>) /\ Len(queued) <= 2
  \/ \E p \in SPs, d \in SUBSET SPs:
       IsFiniteSet(d) /\ (AddsSp(p, d) \/ CutsSp(p, d)) /\ queued = <<>>
  \/ \E u \in TAs, p \in SPs, d \in SUBSET TAs:
       /\ IsFiniteSet(d) /\ queued = <<>>
       /\ AddsTl(u, p, d) \/ LinksTl(u, p, d) \/ CutsTl(u, p, d)

\* One job is executed at a time, and only the last one may be waited for.
Flow == /\ ~up => ~Busy
        /\ ~Busy => queued = <<>> /\ ~job.wanted
        /\ job.wanted => queued = <<>> /\ Waiting
        /\ \A i \in DOMAIN queued: /\ queued[i].todo # <<>>
                                   /\ queued[i].wanted => i = Len(queued) /\ Waiting
        /\ Waiting => Busy /\ (IF queued = <<>> THEN job ELSE queued[Len(queued)]).wanted
        /\ client.answer \in {"ok", "error"} => ~Busy
        /\ client.answer # "none" => client.steps # <<>>

Typed == Types /\ FilesFit /\ TodosSound /\ Scripts /\ Flow

-----------------------------------------------------------------------------
(* The token.                                                              *)

TokenNeeded == client.steps \in {Registering, Reading}
RenameOnce ==
  /\ TokenNeeded => file[Auth] = {} /\ queued = <<>>
  /\ \A i \in Slots: Renames(Todo(i)) => /\ file[Auth] = {} /\ ~TokenNeeded
                                      /\ Len(Todo(i)) = 1
  /\ \A i \in Slots: Stores1(Todo(i), Auth) => ~TokenNeeded
  /\ \A i, j \in Slots: Renames(Todo(i)) /\ Renames(Todo(j)) => i = j
  /\ \A i, j \in Slots: Stores1(Todo(i), Auth) /\ Renames(Todo(j)) => j < i
BackupIsToken == file[Backup] \in {NONE, {}}
AtWork == /\ client.steps = Reading /\ Busy => job.todo[1][1] = "read"
          /\ client.steps = Deleting /\ Waiting => Renames(Todo(Len(queued)))

\* The second failure is needed to store what is no token.
Garbage(todo) == Stores1(todo, Auth) /\ todo[1][3] = GARBAGE
OneOrTwo == IF client.answer \in {"none", "ok"} /\ up THEN 1 ELSE 2
NoGarbage ==
  /\ file[Auth] = GARBAGE => failed >= 2
  /\ \A i \in Slots: Garbage(Todo(i)) => failed >= 2
  /\ client.steps = Recovery("error") => failed >= 2
  /\ client.undo = Recovery("error") => failed >= OneOrTwo /\ client.steps = Deleting
  /\ client.steps = Reading /\ client.answer = "error" => failed >= IF up THEN 1 ELSE 2
Token == RenameOnce /\ BackupIsToken /\ AtWork /\ NoGarbage

-----------------------------------------------------------------------------
(* The children of a container.                                            *)

Parents == {Root} \cup {Sp(p): p \in SPs}
ChildStored(f, x) == \/ f = Root /\ IsWhole(Sp(x))
                     \/ \E p \in SPs: f = Sp(p) /\ IsWhole(Tl(x, p))
ListedIsStored == \A f \in Parents: IsWhole(f) => listed[f] = file[f]

\* What a command stores in a container is listed already, or is stored.
Linked ==
  /\ \A f \in Parents: Stores1(job.todo, f) =>
       \A x \in job.todo[1][3]: x \in listed[f] \/ ChildStored(f, x)
  /\ \A i \in DOMAIN queued, f \in Parents: Stores1(queued[i].todo, f) =>
       /\ queued[i].todo[1][3] \subseteq listed[f]
       /\ \A j \in Slots: Stores1(Todo(j), f) => i = j

\* A child is being stored before its parent g.
Honest == "unnoticed" \notin Failures \/ failed = 0
StoresChild(f) ==
  /\ Busy => Len(job.todo) = 1 /\ Stores1(job.todo, f) /\ job.todo[1][3] = {}
  /\ client.answer = "ok" /\ Honest => file[f] = {}
\* A child is being removed.
RemovesChild(kinds, fs) ==
  \A i \in DOMAIN job.todo: /\ job.todo[i][1] \in kinds
                            /\ job.todo[i][1] = "remove" => job.todo[i][2] \in fs
AddingSp(p, d) == queued = <<>> /\ StoresChild(Sp(p)) /\ d \subseteq listed[Root] \cup {p}
AddingTl(u, p, d) ==
  queued = <<>> /\ StoresChild(Tl(u, p)) /\ d \subseteq listed[Sp(p)] \cup {u}
CuttingSp(d) ==
  /\ queued = <<>> /\ d \subseteq listed[Root]
  /\ RemovesChild({"cleanSp", "cleanTl", "remove", "discard"}, Containers \ {Root})
CuttingTl(p, d) ==
  /\ queued = <<>> /\ d \subseteq listed[Sp(p)]
  /\ RemovesChild({"cleanTl", "remove", "discard"}, Containers \ Parents)
LinksNext ==
  /\ \A p \in SPs, d \in SUBSET SPs:
       /\ AddsSp(p, d) => AddingSp(p, d)
       /\ CutsSp(p, d) => CuttingSp(d)
  /\ \A u \in TAs, p \in SPs, d \in SUBSET TAs:
       /\ AddsTl(u, p, d) => AddingTl(u, p, d)
       /\ CutsTl(u, p, d) => CuttingTl(p, d)
Children == ListedIsStored /\ LinksNext /\ (Honest => Linked)

-----------------------------------------------------------------------------
(* The tree, as long as nothing has failed.                                *)

Smooth ==
  /\ up /\ queued = <<>> /\ client.answer \in {"none", "ok"}
  /\ Busy => Waiting
  /\ \A a \in Answered: client.steps # Recovery(a)
  /\ Busy => /\ job.todo[1][1] # "refuse"
             /\ job.todo[1][1] = "read" => client.steps = Reading

Fills(f) == Busy /\ job.todo[1][1] = "fill" /\ job.todo[1][2] = f
Has(t) == \E i \in DOMAIN job.todo: job.todo[i] = t
NoneBroken == \A f \in Files: IsWhole(f) \/ file[f] = NONE \/ (file[f] = EMPTY /\ Fills(f))

\* The Trustlets of a provider are stored, but for some.
SubtreeBut(p, U) == IsWhole(Sp(p)) /\ \A u \in file[Sp(p)] \ U: IsWhole(Tl(u, p))
Subtree(p) == SubtreeBut(p, {})
CutsTlOf(u, p) == \E d \in SUBSET TAs: CutsTl(u, p, d)
CutsSpOf(p) == \E d \in SUBSET SPs: CutsSp(p, d)
Missing(p) == {u \in TAs: Fills(Tl(u, p)) \/ CutsTlOf(u, p)}
Cutting(p) == Has(<<"remove", Root>>) \/ CutsSpOf(p)
Changing(p) == Stores1(job.todo, Root) \/ Stores1(job.todo, Sp(p)) \/ Cutting(p)
TreeHolds == \A p \in SPs: RootLists(p) => SubtreeBut(p, Missing(p)) \/ Changing(p)

\* What a task needs is there, and no other task of the command removes it.
Needs(t) == /\ t[1] = "cleanRoot" => IsWhole(Root)
            /\ t[1] = "cleanSp" => Subtree(t[2])
            /\ t[1] = "cleanTl" => IsWhole(Tl(t[2], t[3]))
            /\ t[1] = "remove" => IsWhole(t[2])
Ready == /\ Busy /\ job.todo[1][1] \in {"cleanRoot", "read"} => Len(job.todo) = 1
         /\ \A i \in DOMAIN job.todo: Needs(job.todo[i])
About(t) == CASE t[1] = "cleanSp" -> {Sp(t[2])} \cup {Tl(u, t[2]): u \in TAs}
              [] t[1] = "cleanTl" -> {Tl(t[2], t[3])}
              [] t[1] = "remove" -> {t[2]}
              [] OTHER -> {}
Apart == \A i, j \in DOMAIN job.todo:
           i # j => About(job.todo[i]) \cap About(job.todo[j]) = {}

\* What is removed and still listed will not be listed any more.
Removals == \A p \in SPs: RootLists(p) =>
  /\ Has(<<"cleanSp", p>>) \/ Has(<<"remove", Sp(p)>>) => Cutting(p)
  /\ \A u \in TAs: Has(<<"cleanTl", u, p>>) \/ Has(<<"remove", Tl(u, p)>>) =>
       Cutting(p) \/ CutsTlOf(u, p)

\* The children of what is being stored are there.
StoresWhole ==
  /\ Stores1(job.todo, Root) => \A p \in job.todo[1][3]: Subtree(p)
  /\ \A p \in SPs: Stores1(job.todo, Sp(p)) => \A u \in job.todo[1][3]: IsWhole(Tl(u, p))

\* A .spid file belongs to a Trustlet and has a blob, until it is discarded.
OpensSpid(i, u) == job.todo[i][1] \in {"open", "fill"} /\ job.todo[i][2] = Spid(u)
BlobStores ==
  /\ \A i \in DOMAIN job.todo: job.todo[i][1] \in {"open", "fill"} =>
       \A j \in DOMAIN job.todo: job.todo[j][1] \in {"open", "fill"}
  /\ \A i \in DOMAIN job.todo, u \in TAs: OpensSpid(i, u) =>
       /\ \A p \in job.todo[i][3]: IsWhole(Tl(u, p))
       /\ \/ i = 1 /\ IsWhole(Tabin(u))
          \/ i = 2 /\ job.todo[1][2] = Tabin(u)
Names(u, p) == file[Spid(u)] = {p}
BlobsKept == \A u \in TAs, p \in SPs: Names(u, p) =>
  /\ IsWhole(Tl(u, p)) \/ Fills(Tl(u, p))
  /\ IsWhole(Tabin(u)) \/ Fills(Tabin(u)) \/ Has(<<"discard", Spid(u)>>)
Discards ==
  /\ \A i \in DOMAIN job.todo: job.todo[i][1] = "discard" =>
       \/ i = 1 /\ \E u \in TAs: job.todo[1] = <<"discard", Spid(u)>>
       \/ /\ i \in {1, 2} /\ 2 \in DOMAIN job.todo
          /\ \E u \in TAs: /\ job.todo[1] = <<"discard", Tabin(u)>>
                           /\ job.todo[2] = <<"discard", Spid(u)>>
  /\ \A u \in TAs, p \in SPs: Has(<<"remove", Tl(u, p)>>) =>
       ~Names(u, p) \/ Has(<<"discard", Spid(u)>>)

\* What RootPA sends next is the parent without the child, or with it.
SendsNext ==
  /\ \A p \in SPs, d \in SUBSET SPs:
       /\ AddsSp(p, d) => IsWhole(Root) /\ p \notin file[Root] /\ d = file[Root] \cup {p}
       /\ CutsSp(p, d) => IsWhole(Root) /\ d = file[Root] \ {p}
  /\ \A u \in TAs, p \in SPs, d \in SUBSET TAs:
       /\ AddsTl(u, p, d) => RootLists(p) /\ IsWhole(Sp(p)) /\ d = file[Sp(p)] \cup {u}
       /\ CutsTl(u, p, d) => RootLists(p) /\ IsWhole(Sp(p)) /\ d = file[Sp(p)] \ {u}

Grown == /\ Smooth /\ NoneBroken /\ TreeHolds /\ Ready /\ Apart /\ Removals
         /\ StoresWhole /\ BlobStores /\ BlobsKept /\ Discards /\ SendsNext
Tree == failed = 0 => Grown

IInv == Typed /\ Token /\ Children /\ Tree

-----------------------------------------------------------------------------
(* Names, contents and tasks.                                              *)

LEMMA FileNames ==
  /\ Auth # Backup /\ Auth # Root /\ Backup # Root
  /\ \A p: /\ Sp(p) \notin {Auth, Backup, Root}
           /\ \A q: Sp(p) = Sp(q) => p = q
           /\ \A u, q: Sp(p) # Tl(u, q)
           /\ \A u: Sp(p) # Tabin(u) /\ Sp(p) # Spid(u)
  /\ \A u, p: /\ Tl(u, p) \notin {Auth, Backup, Root}
              /\ \A v, q: Tl(u, p) = Tl(v, q) => u = v /\ p = q
              /\ \A v: Tl(u, p) # Tabin(v) /\ Tl(u, p) # Spid(v)
  /\ \A u: /\ Tabin(u) \notin {Auth, Backup, Root} /\ Spid(u) \notin {Auth, Backup, Root}
           /\ \A v: /\ Tabin(u) # Spid(v)
                    /\ Tabin(u) = Tabin(v) => u = v
                    /\ Spid(u) = Spid(v) => u = v
BY DEF Auth, Backup, Root, Sp, Tl, Tabin, Spid

LEMMA FilesAre ==
  /\ Auth \in Files /\ Backup \in Files /\ Root \in Files
  /\ \A p \in SPs: Sp(p) \in Files
  /\ \A u \in TAs: Tabin(u) \in Files /\ Spid(u) \in Files
  /\ \A u \in TAs, p \in SPs: Tl(u, p) \in Files
  /\ Containers \subseteq Files /\ BlobFiles \subseteq Files /\ Parents \subseteq Containers
  /\ \A f \in Containers \cup BlobFiles: f \notin {Auth, Backup}
  /\ \A f \in BlobFiles: f \notin Containers
  /\ \A f \in Containers: \/ f = Root \/ \E p \in SPs: f = Sp(p)
                          \/ \E u \in TAs, p \in SPs: f = Tl(u, p)
BY FileNames DEF Files, Containers, BlobFiles, Parents

\* The kinds of broken files differ.
LEMMA FewDiffer == \A a, b, c: IsFiniteSet({a, b, c}) /\ Cardinality({a, b, c}) <= 3
<1> SUFFICES ASSUME NEW a, NEW b, NEW c
             PROVE  IsFiniteSet({a, b, c}) /\ Cardinality({a, b, c}) <= 3
  OBVIOUS
<1>1. IsFiniteSet({a}) /\ Cardinality({a}) = 1
  BY FS_Singleton
<1>2. IsFiniteSet({a, b}) /\ Cardinality({a, b}) \in {1, 2}
  <2>1. {a, b} = {a} \cup {b}
    OBVIOUS
  <2> QED
    BY <1>1, <2>1, FS_AddElement
<1>3. {a, b, c} = {a, b} \cup {c}
  OBVIOUS
<1> QED
  BY <1>2, <1>3, FS_AddElement

LEMMA BrokenDiffer ==
  /\ NONE # EMPTY /\ NONE # TORN /\ NONE # GARBAGE
  /\ EMPTY # TORN /\ EMPTY # GARBAGE /\ TORN # GARBAGE
<1>1. ASSUME NEW a, NEW b, NEW c, Broken = {a, b, c}
      PROVE  FALSE
  <2>1. Cardinality(Broken) = Cardinality({a, b, c})
    BY <1>1
  <2>2. Cardinality(Broken) = 4
    BY ContentsAssumption DEF ContentsAssumption
  <2>3. Cardinality({a, b, c}) <= 3
    BY FewDiffer
  <2> QED
    BY <2>1, <2>2, <2>3
<1>2. ASSUME \/ NONE = EMPTY \/ NONE = TORN \/ NONE = GARBAGE
             \/ EMPTY = TORN \/ EMPTY = GARBAGE \/ TORN = GARBAGE
      PROVE  \E a, b, c: Broken = {a, b, c}
  <2>1. CASE NONE = EMPTY \/ NONE = TORN \/ NONE = GARBAGE
    BY <2>1 DEF Broken
  <2>2. CASE EMPTY = TORN \/ EMPTY = GARBAGE
    BY <2>2 DEF Broken
  <2>3. CASE TORN = GARBAGE
    BY <2>3 DEF Broken
  <2> QED
    BY <1>2, <2>1, <2>2, <2>3
<1> QED
  BY <1>1, <1>2

LEMMA SaysWhole ==
  /\ \A c \in Says: Whole(c)
  /\ {} \in Says /\ SUBSET SPs \subseteq Says /\ SUBSET TAs \subseteq Says
  /\ ~Whole(NONE) /\ ~Whole(EMPTY) /\ ~Whole(TORN) /\ ~Whole(GARBAGE)
  /\ \A c \in Contents: Whole(c) => c \in Says
<1>1. \A c \in Broken, s \in Says: c # s
  BY ContentsAssumption DEF ContentsAssumption
<1>2. {} \in Says /\ SUBSET SPs \subseteq Says /\ SUBSET TAs \subseteq Says
  BY DEF Says
<1>3. (\A c \in Says: Whole(c)) /\ \A c \in Contents: Whole(c) => c \in Says
  BY <1>1 DEF Whole, Contents
<1>4. ~Whole(NONE) /\ ~Whole(EMPTY) /\ ~Whole(TORN) /\ ~Whole(GARBAGE)
  BY DEF Whole, Broken
<1> QED
  BY <1>2, <1>3, <1>4

\* What fits a file.
LEMMA FitsWhat ==
  ASSUME NEW f, NEW c, Fits(f, c)
  PROVE  /\ f \in Files /\ c \in Contents
         /\ f = Auth \/ Whole(c)
         /\ c = GARBAGE \/ Whole(c)
         /\ f = Auth => c \in {{}, GARBAGE}
         /\ f = Root => c \in SUBSET SPs /\ IsFiniteSet(c)
         /\ f # Backup
         /\ \A p \in SPs: f = Sp(p) => c \in SUBSET TAs /\ IsFiniteSet(c)
         /\ \A u \in TAs, p \in SPs: f = Tl(u, p) => c = {}
         /\ \A u \in TAs: f = Tabin(u) => c = {}
         /\ \A u \in TAs: f = Spid(u) => \E p \in SPs: c = {p}
<1>1. f \in Files /\ c \in Contents /\ f # Backup
  BY FilesAre, FileNames, SaysWhole DEF Fits, Contents, Broken, Says
<1>2. (f = Auth \/ Whole(c)) /\ (c = GARBAGE \/ Whole(c))
  BY SaysWhole DEF Fits, Says
<1> QED
  BY <1>1, <1>2, FileNames DEF Fits

\* The kind of a task says what it consists of.
LEMMA TaskKinds ==
  ASSUME NEW t \in Tasks
  PROVE  /\ t[1] \in {"open", "fill", "cleanTl", "cleanSp", "remove", "discard", "rename",
                      "read", "refuse", "cleanRoot"}
         /\ t[1] \in {"open", "fill"} => t = <<t[1], t[2], t[3]>> /\ t[2] \in Files
         /\ t[1] = "cleanTl" => t = <<t[1], t[2], t[3]>> /\ t[2] \in TAs /\ t[3] \in SPs
         /\ t[1] = "cleanSp" => t = <<t[1], t[2]>> /\ t[2] \in SPs
         /\ t[1] = "remove" => t = <<t[1], t[2]>> /\ t[2] \in Containers
         /\ t[1] = "discard" => t = <<t[1], t[2]>> /\ t[2] \in BlobFiles
BY DEF Tasks

LEMMA MoreTasks ==
  /\ \A f, c: Fits(f, c) => <<"fill", f, c>> \in Tasks /\ <<"open", f, c>> \in Tasks
  /\ \A p \in SPs: <<"cleanSp", p>> \in Tasks
  /\ \A u \in TAs, p \in SPs: <<"cleanTl", u, p>> \in Tasks
  /\ \A f \in Containers: <<"remove", f>> \in Tasks
  /\ \A f \in BlobFiles: <<"discard", f>> \in Tasks
BY FitsWhat DEF Tasks

\* The commands RootPA sends.
LEMMA Commands ==
  /\ \A f, c: Fits(f, c) => Store(f, c) \in Seq(Tasks)
  /\ \A u \in TAs, p \in SPs: StoreTABlob(u, p) \in Seq(Tasks)
  /\ \A p \in SPs: CleanupSp(p) \in Seq(Tasks)
  /\ \A u \in TAs, p \in SPs: CleanupTrustlet(u, p) \in Seq(Tasks)
  /\ {DeleteAuthToken, ReadAuthToken, CleanupRoot, Refused} \subseteq Seq(Tasks)
<1>1. \A u \in TAs, p \in SPs: Fits(Tabin(u), {}) /\ Fits(Spid(u), {p})
  BY DEF Fits
<1>2. \A t \in Tasks: <<t>> \in Seq(Tasks)
  OBVIOUS
<1>3. \A t, r \in Tasks: <<t, r>> \in Seq(Tasks)
  OBVIOUS
<1>4. {<<"rename">>, <<"read">>, <<"refuse">>, <<"cleanRoot">>} \subseteq Tasks
  BY DEF Tasks
<1>5. \A u \in TAs, p \in SPs: StoreTABlob(u, p) \in Seq(Tasks)
  BY <1>1, <1>3, MoreTasks DEF StoreTABlob
<1>6. \A f, c: Fits(f, c) => Store(f, c) \in Seq(Tasks)
  BY <1>2, MoreTasks DEF Store
<1>7. \A p \in SPs: CleanupSp(p) \in Seq(Tasks)
  BY <1>2, MoreTasks DEF CleanupSp
<1>8. \A u \in TAs, p \in SPs: CleanupTrustlet(u, p) \in Seq(Tasks)
  BY <1>2, MoreTasks DEF CleanupTrustlet
<1> QED
  BY <1>2, <1>4, <1>5, <1>6, <1>7, <1>8 DEF DeleteAuthToken, ReadAuthToken, CleanupRoot, Refused

-----------------------------------------------------------------------------
(* The jobs.                                                               *)

LEMMA ProceedOf ==
  ASSUME NEW todo \in Seq(Tasks), todo # <<>>, NEW more \in Seq(Tasks),
         NEW new, new = more \o Tail(todo)
  PROVE  /\ new \in Seq(Tasks) /\ Len(new) = Len(more) + Len(todo) - 1
         /\ \A i \in DOMAIN more: i \in DOMAIN new /\ new[i] = more[i]
         /\ \A i \in DOMAIN new: \/ i \in DOMAIN more
                                 \/ /\ i - Len(more) + 1 \in DOMAIN todo /\ i - Len(more) + 1 > 1
                                    /\ new[i] = todo[i - Len(more) + 1]
         /\ \A j \in DOMAIN todo: j > 1 =>
              j - 1 + Len(more) \in DOMAIN new /\ new[j - 1 + Len(more)] = todo[j]
<1>1. Tail(todo) \in Seq(Tasks) /\ Len(Tail(todo)) = Len(todo) - 1
      /\ \A i \in 1..Len(todo) - 1: Tail(todo)[i] = todo[i + 1]
  BY HeadTailProperties
<1>2. new \in Seq(Tasks) /\ Len(new) = Len(more) + Len(Tail(todo))
      /\ \A i \in 1..Len(new): new[i] = IF i <= Len(more) THEN more[i]
                                        ELSE Tail(todo)[i - Len(more)]
  BY <1>1, ConcatProperties
<1>3. PICK m, n: m = Len(more) /\ n = Len(todo)
  OBVIOUS
<1>4. /\ m \in Nat /\ n \in Nat /\ n > 0 /\ Len(new) = m + n - 1
      /\ DOMAIN more = 1..m /\ DOMAIN todo = 1..n /\ DOMAIN new = 1..(m + n - 1)
  <2>1. m \in Nat /\ n \in Nat /\ DOMAIN more = 1..m /\ DOMAIN todo = 1..n
    BY <1>3, LenProperties
  <2>2. n # 0
    BY <1>3, EmptySeq
  <2>3. Len(new) = m + n - 1
    BY <1>1, <1>2, <1>3, <2>1
  <2>4. DOMAIN new = 1..Len(new)
    BY <1>2, LenProperties
  <2> QED
    BY <2>1, <2>2, <2>3, <2>4
<1>5. \A i \in 1..(m + n - 1): new[i] = IF i <= m THEN more[i] ELSE todo[i - m + 1]
  <2> SUFFICES ASSUME NEW i \in 1..(m + n - 1)
               PROVE  new[i] = IF i <= m THEN more[i] ELSE todo[i - m + 1]
    OBVIOUS
  <2>1. new[i] = IF i <= m THEN more[i] ELSE Tail(todo)[i - m]
    BY <1>2, <1>3, <1>4
  <2>2. CASE i > m
    <3>1. i - m \in 1..(n - 1)
      BY <1>4, <2>2
    <3>2. Tail(todo)[i - m] = todo[i - m + 1]
      BY <1>1, <1>3, <3>1
    <3> QED
      BY <2>1, <3>2
  <2>3. CASE ~(i > m)
    <3>1. i <= m
      BY <1>4, <2>3
    <3> QED
      BY <2>1, <3>1
  <2> QED
    BY <2>2, <2>3
<1>6. \A i \in DOMAIN more: i \in DOMAIN new /\ new[i] = more[i]
  <2> SUFFICES ASSUME NEW i \in DOMAIN more
               PROVE  i \in DOMAIN new /\ new[i] = more[i]
    OBVIOUS
  <2>1. i \in 1..(m + n - 1) /\ i <= m
    BY <1>4
  <2> QED
    BY <1>4, <1>5, <2>1
<1>7. \A i \in DOMAIN new: \/ i \in DOMAIN more
                           \/ /\ i - m + 1 \in DOMAIN todo /\ i - m + 1 > 1
                              /\ new[i] = todo[i - m + 1]
  <2> SUFFICES ASSUME NEW i \in 1..(m + n - 1), ~(i \in 1..m)
               PROVE  i - m + 1 \in 1..n /\ i - m + 1 > 1 /\ new[i] = todo[i - m + 1]
    BY <1>4
  <2>1. i > m
    BY <1>4
  <2>2. i - m + 1 \in 1..n /\ i - m + 1 > 1
    BY <1>4, <2>1
  <2>3. ~(i <= m)
    BY <1>4, <2>1
  <2> QED
    BY <1>5, <2>2, <2>3
<1>8. \A j \in DOMAIN todo: j > 1 => j - 1 + m \in DOMAIN new /\ new[j - 1 + m] = todo[j]
  <2> SUFFICES ASSUME NEW j \in 1..n, j > 1
               PROVE  j - 1 + m \in 1..(m + n - 1) /\ new[j - 1 + m] = todo[j]
    BY <1>4
  <2>1. j - 1 + m \in 1..(m + n - 1) /\ ~(j - 1 + m <= m) /\ (j - 1 + m) - m + 1 = j
    BY <1>4
  <2> QED
    BY <1>5, <2>1
<1> QED
  BY <1>2, <1>3, <1>4, <1>6, <1>7, <1>8

-----------------------------------------------------------------------------
(* What RootPA does next, by the script it is in.                          *)

Sends(command) ==
  LET new == [todo |-> command, wanted |-> TRUE] IN
  IF ~up THEN UNCHANGED <<job, queued>>
  ELSE IF Busy THEN queued' = Append(queued, new) /\ UNCHANGED job
               ELSE job' = new /\ UNCHANGED queued
Turns(steps, regardless, undo) ==
  /\ client' = [steps |-> steps, regardless |-> regardless, undo |-> undo,
                answer |-> IF up THEN "none" ELSE "lost"]
  /\ Sends(Head(steps))
Dismisses == client' = NoCommand /\ UNCHANGED <<job, queued>>

\* A command begins.
Fresh == client = NoCommand /\ up /\ ~Busy
BeginsSingle(c) ==
  /\ \/ c = Store(Auth, {})
     \/ IsWhole(Root) /\ c \in {Store(Root, file[Root]), CleanupRoot}
     \/ \E p \in SPs: RootLists(p) /\ IsWhole(Sp(p)) /\ c = Store(Sp(p), file[Sp(p)])
     \/ \E u \in TAs, p \in SPs: SpLists(p, u) /\ IsWhole(Tl(u, p)) /\ c = Store(Tl(u, p), {})
     \/ \E u \in TAs, p \in SPs: file[Tl(u, p)] \notin {NONE, EMPTY} /\ c = StoreTABlob(u, p)
  /\ Turns(<<c>>, FALSE, <<>>)
BeginsRegistering == IsWhole(Auth) /\ Turns(Registering, FALSE, <<>>)
BeginsAddSp(p) ==
  /\ IsWhole(Root) /\ ~RootLists(p)
  /\ Turns(<<Store(Sp(p), {}), Store(Root, file[Root] \cup {p})>>, FALSE, <<>>)
BeginsAddTl(u, p) ==
  /\ RootLists(p) /\ IsWhole(Sp(p)) /\ ~SpLists(p, u)
  /\ Turns(<<Store(Tl(u, p), {}), Store(Sp(p), file[Sp(p)] \cup {u})>>, FALSE,
           <<CleanupTrustlet(u, p)>>)
BeginsCutSp(p) ==
  /\ RootLists(p)
  /\ Turns(<<CleanupSp(p), Store(Root, file[Root] \ {p})>>, TRUE, <<>>)
BeginsCutTl(u, p) ==
  /\ SpLists(p, u)
  /\ Turns(<<CleanupTrustlet(u, p), Store(Sp(p), file[Sp(p)] \ {u})>>, TRUE, <<>>)
Beginning ==
  /\ Fresh
  /\ \/ \E c \in Single: BeginsSingle(c)
     \/ BeginsRegistering
     \/ \E p \in SPs: BeginsAddSp(p) \/ BeginsCutSp(p)
     \/ \E u \in TAs, p \in SPs: BeginsAddTl(u, p) \/ BeginsCutTl(u, p)

\* A command goes on.
GoesReading == /\ Script(Registering, FALSE, <<>>) /\ queued = <<>> /\ client.answer = "ok"
               /\ Turns(Reading, FALSE, <<>>)
GoesDeleting == /\ Script(Reading, FALSE, <<>>) /\ queued = <<>>
                /\ Turns(Deleting, FALSE, Recovery(client.answer))
GoesRecovering(a) == /\ Script(Deleting, FALSE, Recovery(a)) /\ Len(queued) <= 1
                     /\ client.answer # "ok"
                     /\ Turns(Recovery(a), FALSE, <<>>)
GoesCleaning(a) == /\ Script(Recovery(a), FALSE, <<>>) /\ client.answer = "ok"
                   /\ Turns(<<CleanupRoot>>, FALSE, <<>>)
GoesAddSp(p, d) == /\ AddsSp(p, d) /\ client.answer = "ok"
                   /\ Turns(<<Store(Root, d)>>, FALSE, <<>>)
GoesAddTl(u, p, d) == /\ AddsTl(u, p, d) /\ client.answer = "ok"
                      /\ Turns(<<Store(Sp(p), d)>>, FALSE, <<CleanupTrustlet(u, p)>>)
GoesUndoing(u, p, d) == /\ LinksTl(u, p, d) /\ client.answer # "ok"
                        /\ Turns(<<CleanupTrustlet(u, p)>>, FALSE, <<>>)
GoesCutSp(p, d) == CutsSp(p, d) /\ Turns(<<Store(Root, d)>>, TRUE, <<>>)
GoesCutTl(u, p, d) == CutsTl(u, p, d) /\ Turns(<<Store(Sp(p), d)>>, TRUE, <<>>)
GoingOn ==
  /\ client.answer # "none"
  /\ \/ GoesReading \/ GoesDeleting
     \/ \E a \in Answered: GoesRecovering(a) \/ GoesCleaning(a)
     \/ \E p \in SPs, d \in SUBSET SPs:
          IsFiniteSet(d) /\ queued = <<>> /\ (GoesAddSp(p, d) \/ GoesCutSp(p, d))
     \/ \E u \in TAs, p \in SPs, d \in SUBSET TAs:
          /\ IsFiniteSet(d) /\ queued = <<>>
          /\ GoesAddTl(u, p, d) \/ GoesUndoing(u, p, d) \/ GoesCutTl(u, p, d)

LEMMA Begun ==
  ASSUME Typed, CmpCommand
  PROVE  Beginning /\ UNCHANGED <<file, up, failed, listed>>
<1>1. ASSUME NEW steps, NEW regardless, NEW undo, Begins(steps, regardless, undo)
      PROVE  /\ Fresh /\ Turns(steps, regardless, undo)
             /\ UNCHANGED <<file, up, failed, listed>>
  BY <1>1 DEF Begins, Fresh, Turns, Sends, NoCommand
<1>2. IsWhole(Auth) => file[Auth] = {}
  BY FilesAre, SaysWhole, FitsWhat, FileNames DEF Typed, FilesFit, IsWhole
<1>3. IsWhole(Root) => Fits(Root, file[Root]) /\ file[Root] \in Says
  BY FilesAre, FileNames, SaysWhole DEF Typed, FilesFit, IsWhole, Types
<1>4. \A p \in SPs: IsWhole(Sp(p)) => Fits(Sp(p), file[Sp(p)]) /\ file[Sp(p)] \in Says
  BY FilesAre, FileNames, SaysWhole DEF Typed, FilesFit, IsWhole, Types
<1>5. \A u \in TAs, p \in SPs: Fits(Tl(u, p), {})
  BY DEF Fits
<1>6. Fits(Auth, {}) /\ {} \in Says
  BY SaysWhole DEF Fits
<1>7. \A f \in Files: \A c \in Says: Fits(f, c) => Store(f, c) \in Single
  BY DEF Single
<1>17. CleanupRoot \in Single /\ \A u \in TAs, p \in SPs: StoreTABlob(u, p) \in Single
  <2>1. CleanupRoot \in {CleanupRoot}
    OBVIOUS
  <2>2. \A u \in TAs, p \in SPs: StoreTABlob(u, p) \in {StoreTABlob(v, q): v \in TAs, q \in SPs}
    OBVIOUS
  <2>3. CleanupRoot \in Single
    BY <2>1 DEF Single
  <2>4. {StoreTABlob(v, q): v \in TAs, q \in SPs} \subseteq Single
    BY DEF Single
  <2> QED
    BY <2>2, <2>3, <2>4
<1>8. CASE GenerateAuthToken
  BY <1>1, <1>6, <1>7, <1>8, FilesAre DEF GenerateAuthToken, Stores, Beginning, BeginsSingle
<1>9. CASE RootContRegister
  BY <1>1, <1>9 DEF RootContRegister, Stores, Beginning, BeginsRegistering, Registering
<1>10. CASE RootContLock
  BY <1>1, <1>3, <1>7, <1>10, FilesAre DEF RootContLock, Stores, Beginning, BeginsSingle
<1>11. CASE RootContUnregister
  BY <1>1, <1>11, <1>17 DEF RootContUnregister, Stores, Beginning, BeginsSingle
<1>12. ASSUME NEW p \in SPs, SpContRegister(p) \/ SpContUnregister(p)
       PROVE  Beginning /\ UNCHANGED <<file, up, failed, listed>>
  BY <1>1, <1>12 DEF SpContRegister, SpContUnregister, Stores, Beginning, BeginsAddSp, BeginsCutSp
<1>13. ASSUME NEW p \in SPs, SpContLock(p)
       PROVE  Beginning /\ UNCHANGED <<file, up, failed, listed>>
  BY <1>1, <1>4, <1>7, <1>13, FilesAre DEF SpContLock, Stores, Beginning, BeginsSingle
<1>14. ASSUME NEW p \in SPs, NEW u \in TAs, TltContRegister(u, p) \/ TltContUnregister(u, p)
       PROVE  Beginning /\ UNCHANGED <<file, up, failed, listed>>
  BY <1>1, <1>14 DEF TltContRegister, TltContUnregister, Stores, Beginning, BeginsAddTl,
     BeginsCutTl
<1>15. ASSUME NEW p \in SPs, NEW u \in TAs, TltContLock(u, p)
       PROVE  Beginning /\ UNCHANGED <<file, up, failed, listed>>
  BY <1>1, <1>5, <1>6, <1>7, <1>15, FilesAre
     DEF TltContLock, Stores, Beginning, BeginsSingle
<1>16. ASSUME NEW p \in SPs, NEW u \in TAs, StoreTA(u, p)
       PROVE  Beginning /\ UNCHANGED <<file, up, failed, listed>>
  BY <1>1, <1>16, <1>17 DEF StoreTA, Stores, Beginning, BeginsSingle
<1> QED
  BY <1>8, <1>9, <1>10, <1>11, <1>12, <1>13, <1>14, <1>15, <1>16 DEF CmpCommand

\* Only one command reads the token.
LEMMA NotRead ==
  /\ \A f, c: Store(f, c) # ReadAuthToken
  /\ \A u, p: StoreTABlob(u, p) # ReadAuthToken /\ CleanupTrustlet(u, p) # ReadAuthToken
  /\ \A p: CleanupSp(p) # ReadAuthToken
  /\ CleanupRoot # ReadAuthToken /\ DeleteAuthToken # ReadAuthToken /\ Refused # ReadAuthToken
  /\ \A c \in Single: c # ReadAuthToken
  /\ \A a: Head(Recovery(a)) # ReadAuthToken
<1>1. /\ \A f, c: Store(f, c)[1][1] = "open"
      /\ \A u, p: StoreTABlob(u, p)[1][1] = "open" /\ CleanupTrustlet(u, p)[1][1] = "cleanTl"
      /\ \A p: CleanupSp(p)[1][1] = "cleanSp"
      /\ CleanupRoot[1][1] = "cleanRoot" /\ DeleteAuthToken[1][1] = "rename"
      /\ Refused[1][1] = "refuse" /\ ReadAuthToken[1][1] = "read"
  BY DEF Store, StoreTABlob, CleanupTrustlet, CleanupSp, CleanupRoot, DeleteAuthToken, Refused,
         ReadAuthToken
<1>2. \A a: Head(Recovery(a)) \in {Store(Auth, {}), Store(Auth, GARBAGE), Refused}
  BY DEF Recovery
<1> QED
  BY <1>1, <1>2 DEF Single

LEMMA Continued ==
  ASSUME Typed, Continue
  PROVE  (Dismisses \/ GoingOn) /\ UNCHANGED <<file, up, failed, listed>>
<1> DEFINE reading == Head(client.steps) = ReadAuthToken
           goesOn == client.answer = "ok" \/ client.regardless \/ reading
           left == Tail(client.steps)
           rest == IF goesOn THEN left ELSE IF left = <<>> THEN client.undo ELSE <<>>
           undo == IF reading THEN Recovery(client.answer)
                   ELSE IF goesOn THEN client.undo ELSE <<>>
<1>1. /\ client.answer # "none" /\ client.answer \in Answered
      /\ UNCHANGED <<file, up, failed, listed>>
  BY DEF Continue, Typed, Types, Clients, Answered
<1>2. rest = <<>> => Dismisses
  BY DEF Continue, Dismisses
<1>3. rest # <<>> => Turns(rest, client.regardless, undo)
  <2>1. client = [steps |-> client.steps, regardless |-> client.regardless,
                  undo |-> client.undo, answer |-> client.answer]
    BY DEF Typed, Types, Clients
  <2> QED
    BY <2>1 DEF Continue, Turns, Sends
<1>4. CASE client = NoCommand
  BY <1>1, <1>4 DEF NoCommand
<1>5. ASSUME NEW c, c # ReadAuthToken, client.steps = <<c>>
      PROVE  ~reading /\ left = <<>>
  BY <1>5
<1>6. ASSUME NEW c, NEW d, client.steps = <<c, d>>
      PROVE  (reading <=> c = ReadAuthToken) /\ left = <<d>> /\ left # <<>>
  BY <1>6
<1>7. ASSUME NEW c \in Single, NEW r \in BOOLEAN, Script(<<c>>, r, <<>>)
      PROVE  Dismisses \/ GoingOn
  BY <1>2, <1>5, <1>7, NotRead DEF Script
<1>8. CASE Script(Registering, FALSE, <<>>) /\ queued = <<>>
  <2>1. ~reading /\ left = Reading /\ left # <<>>
    BY <1>8, NotRead DEF Script, Registering, Reading
  <2> QED
    BY <1>1, <1>2, <1>3, <1>8, <2>1 DEF Script, GoingOn, GoesReading
<1>9. CASE Script(Reading, FALSE, <<>>) /\ queued = <<>>
  <2>1. reading /\ left = Deleting /\ left # <<>>
    BY <1>6, <1>9 DEF Script, Reading, Deleting
  <2> QED
    BY <1>1, <1>3, <1>9, <2>1 DEF Script, GoingOn, GoesDeleting
<1>10. ASSUME NEW a \in Answered, Script(Deleting, FALSE, Recovery(a)), Len(queued) <= 1
       PROVE  Dismisses \/ GoingOn
  <2>1. ~reading /\ left = <<>>
    BY <1>5, <1>10, NotRead DEF Script, Deleting
  <2>2. Recovery(a) # <<>>
    BY DEF Recovery
  <2> QED
    BY <1>1, <1>2, <1>3, <1>10, <2>1, <2>2 DEF Script, GoingOn, GoesRecovering
<1>11. ASSUME NEW a \in Answered, Script(Recovery(a), FALSE, <<>>)
       PROVE  Dismisses \/ GoingOn
  <2>1. ~reading /\ left = <<CleanupRoot>> /\ left # <<>>
    BY <1>11, NotRead DEF Script, Recovery
  <2> QED
    BY <1>1, <1>2, <1>3, <1>11, <2>1 DEF Script, GoingOn, GoesCleaning
<1>12. ASSUME NEW p \in SPs, NEW d \in SUBSET SPs, IsFiniteSet(d),
              queued = <<>>, AddsSp(p, d)
       PROVE  Dismisses \/ GoingOn
  <2>1. ~reading /\ left = <<Store(Root, d)>> /\ left # <<>>
    BY <1>6, <1>12, NotRead DEF Script, AddsSp
  <2> QED
    BY <1>1, <1>2, <1>3, <1>12, <2>1 DEF Script, AddsSp, GoingOn, GoesAddSp
<1>13. ASSUME NEW p \in SPs, NEW d \in SUBSET SPs, IsFiniteSet(d),
              queued = <<>>, CutsSp(p, d)
       PROVE  Dismisses \/ GoingOn
  <2>1. ~reading /\ left = <<Store(Root, d)>> /\ left # <<>>
    BY <1>6, <1>13, NotRead DEF Script, CutsSp
  <2> QED
    BY <1>1, <1>3, <1>13, <2>1 DEF Script, CutsSp, GoingOn, GoesCutSp
<1>14. ASSUME NEW u \in TAs, NEW p \in SPs, NEW d \in SUBSET TAs, IsFiniteSet(d),
              queued = <<>>, AddsTl(u, p, d)
       PROVE  Dismisses \/ GoingOn
  <2>1. ~reading /\ left = <<Store(Sp(p), d)>> /\ left # <<>>
    BY <1>6, <1>14, NotRead DEF Script, AddsTl
  <2> QED
    BY <1>1, <1>2, <1>3, <1>14, <2>1 DEF Script, AddsTl, GoingOn, GoesAddTl
<1>15. ASSUME NEW u \in TAs, NEW p \in SPs, NEW d \in SUBSET TAs, IsFiniteSet(d),
              queued = <<>>, LinksTl(u, p, d)
       PROVE  Dismisses \/ GoingOn
  <2>1. ~reading /\ left = <<>>
    BY <1>5, <1>15, NotRead DEF Script, LinksTl
  <2> QED
    BY <1>1, <1>2, <1>3, <1>15, <2>1 DEF Script, LinksTl, GoingOn, GoesUndoing
<1>16. ASSUME NEW u \in TAs, NEW p \in SPs, NEW d \in SUBSET TAs, IsFiniteSet(d),
              queued = <<>>, CutsTl(u, p, d)
       PROVE  Dismisses \/ GoingOn
  <2>1. ~reading /\ left = <<Store(Sp(p), d)>> /\ left # <<>>
    BY <1>6, <1>16, NotRead DEF Script, CutsTl
  <2> QED
    BY <1>1, <1>3, <1>16, <2>1 DEF Script, CutsTl, GoingOn, GoesCutTl
<1> QED
  BY <1>1, <1>4, <1>7, <1>8, <1>9, <1>10, <1>11, <1>12, <1>13, <1>14, <1>15, <1>16
     DEF Typed, Scripts

-----------------------------------------------------------------------------
(* What the daemon does.                                                   *)

LEMMA AppendTask ==
  ASSUME NEW n \in Nat, NEW g \in [1..n -> Tasks], NEW t \in Tasks
  PROVE  /\ Append(g, t) \in Seq(Tasks) /\ Len(Append(g, t)) = n + 1
         /\ DOMAIN Append(g, t) = 1..(n + 1)
         /\ \A i \in 1..n: Append(g, t)[i] = g[i]
         /\ Append(g, t)[n + 1] = t
<1>1. g \in Seq(Tasks) /\ Len(g) = n
  OBVIOUS
<1> QED
  BY <1>1, AppendProperties

LEMMA AppendTwo == \A a, b, c: Append(<<a, b>>, c) = <<a, b, c>>
<1> SUFFICES ASSUME NEW a, NEW b, NEW c
             PROVE  Append(<<a, b>>, c) = <<a, b, c>>
  OBVIOUS
<1> DEFINE S == {a, b, c}
<1>1. <<a, b>> \in Seq(S) /\ <<a, b, c>> \in Seq(S) /\ c \in S
  OBVIOUS
<1>2. /\ Append(<<a, b>>, c) \in Seq(S) /\ Len(Append(<<a, b>>, c)) = 3
      /\ \A i \in 1..3: Append(<<a, b>>, c)[i] = <<a, b, c>>[i]
  BY <1>1, AppendProperties
<1> QED
  BY <1>1, <1>2, SeqEqual

\* A set in some order.
LEMMA OrderOf ==
  ASSUME NEW S, IsFiniteSet(S), NEW s \in Orders(S)
  PROVE  /\ Cardinality(S) \in Nat /\ s \in [1..Cardinality(S) -> S]
         /\ \A x \in S: \E i \in DOMAIN s: s[i] = x
         /\ \A i, j \in DOMAIN s: s[i] = s[j] => i = j
<1>1. Cardinality(S) \in Nat
  BY FS_CardinalityType
<1>2. s \in [1..Cardinality(S) -> S] /\ \A x \in S: \E i \in DOMAIN s: s[i] = x
  BY DEF Orders
<1>3. s \in Surjection(1..Cardinality(S), S)
  BY <1>2 DEF Surjection
<1>4. IsFiniteSet(1..Cardinality(S)) /\ Cardinality(1..Cardinality(S)) = Cardinality(S)
  BY <1>1, FS_Interval
<1>5. s \in Injection(1..Cardinality(S), S)
  BY <1>3, <1>4, FS_SurjSameCardinalityImpliesInj
<1> QED
  BY <1>1, <1>2, <1>5 DEF Injection, IsInjective

LEMMA WholeFits ==
  ASSUME Typed
  PROVE  /\ \A f \in Files \ {Backup}: IsWhole(f) => Fits(f, file[f])
         /\ IsWhole(Root) => file[Root] \subseteq SPs /\ IsFiniteSet(file[Root])
         /\ \A p \in SPs: IsWhole(Sp(p)) => file[Sp(p)] \subseteq TAs /\ IsFiniteSet(file[Sp(p)])
<1>1. \A f \in Files \ {Backup}: IsWhole(f) => Fits(f, file[f])
  BY SaysWhole DEF Typed, FilesFit, IsWhole
<1> QED
  BY <1>1, FitsWhat, FilesAre, FileNames

\* The tasks a clean-up starts.
RootTasks(s) == Append([i \in DOMAIN s |-> <<"cleanSp", s[i]>>], <<"remove", Root>>)
SpTasks(s, p) == Append([i \in DOMAIN s |-> <<"cleanTl", s[i], p>>], <<"remove", Sp(p)>>)
TlTasks(u, p) == <<<<"discard", Tabin(u)>>, <<"discard", Spid(u)>>, <<"remove", Tl(u, p)>>>>

LEMMA RootTasksAre ==
  ASSUME Typed, IsWhole(Root), NEW s \in Orders(file[Root])
  PROVE  /\ RootTasks(s) \in Seq(Tasks) /\ RootTasks(s) # <<>>
         /\ DOMAIN RootTasks(s) = 1..(Len(s) + 1) /\ Len(s) \in Nat /\ DOMAIN s = 1..Len(s)
         /\ \A i \in DOMAIN s: s[i] \in file[Root] /\ s[i] \in SPs
                               /\ RootTasks(s)[i] = <<"cleanSp", s[i]>>
         /\ RootTasks(s)[Len(s) + 1] = <<"remove", Root>>
         /\ \A i, j \in DOMAIN s: s[i] = s[j] => i = j
         /\ Len(RootTasks(s)) = Len(s) + 1
<1> DEFINE S == file[Root]
           n == Cardinality(S)
<1>6. PICK g: g = [i \in DOMAIN s |-> <<"cleanSp", s[i]>>]
  OBVIOUS
<1>1. S \subseteq SPs /\ IsFiniteSet(S)
  BY WholeFits
<1>2. n \in Nat /\ s \in [1..n -> S] /\ \A i, j \in DOMAIN s: s[i] = s[j] => i = j
  BY <1>1, OrderOf
<1>3. Len(s) = n /\ DOMAIN s = 1..n
  BY <1>2
<1>4. g \in [1..n -> Tasks]
  BY <1>1, <1>2, <1>6, MoreTasks
<1>5. <<"remove", Root>> \in Tasks
  BY MoreTasks DEF Containers
<1> QED
  <2>1. RootTasks(s) = Append(g, <<"remove", Root>>)
    BY <1>6 DEF RootTasks
  <2>2. \A i \in DOMAIN s: g[i] = <<"cleanSp", s[i]>>
    BY <1>6
  <2>3. /\ RootTasks(s) \in Seq(Tasks) /\ Len(RootTasks(s)) = n + 1
        /\ DOMAIN RootTasks(s) = 1..(n + 1)
        /\ \A i \in 1..n: RootTasks(s)[i] = g[i]
        /\ RootTasks(s)[n + 1] = <<"remove", Root>>
    <3>1. PICK t: t = <<"remove", Root>>
      OBVIOUS
    <3>2. PICK k: k = n
      OBVIOUS
    <3>3. k \in Nat /\ g \in [1..k -> Tasks] /\ t \in Tasks
      BY <1>2, <1>4, <1>5, <3>1, <3>2
    <3>4. /\ Append(g, t) \in Seq(Tasks) /\ Len(Append(g, t)) = k + 1
          /\ DOMAIN Append(g, t) = 1..(k + 1)
          /\ \A i \in 1..k: Append(g, t)[i] = g[i]
          /\ Append(g, t)[k + 1] = t
      BY <3>3, AppendTask
    <3> QED
      BY <2>1, <3>1, <3>2, <3>4
  <2> QED
    BY <1>1, <1>2, <1>3, <2>2, <2>3

LEMMA SpTasksAre ==
  ASSUME Typed, NEW p \in SPs, IsWhole(Sp(p)), NEW s \in Orders(file[Sp(p)])
  PROVE  /\ SpTasks(s, p) \in Seq(Tasks) /\ SpTasks(s, p) # <<>>
         /\ DOMAIN SpTasks(s, p) = 1..(Len(s) + 1) /\ Len(s) \in Nat /\ DOMAIN s = 1..Len(s)
         /\ \A i \in DOMAIN s: s[i] \in file[Sp(p)] /\ s[i] \in TAs
                               /\ SpTasks(s, p)[i] = <<"cleanTl", s[i], p>>
         /\ SpTasks(s, p)[Len(s) + 1] = <<"remove", Sp(p)>>
         /\ \A i, j \in DOMAIN s: s[i] = s[j] => i = j
         /\ Len(SpTasks(s, p)) = Len(s) + 1
<1> DEFINE S == file[Sp(p)]
           n == Cardinality(S)
<1>6. PICK g: g = [i \in DOMAIN s |-> <<"cleanTl", s[i], p>>]
  OBVIOUS
<1>1. S \subseteq TAs /\ IsFiniteSet(S)
  BY WholeFits
<1>2. n \in Nat /\ s \in [1..n -> S] /\ \A i, j \in DOMAIN s: s[i] = s[j] => i = j
  BY <1>1, OrderOf
<1>3. Len(s) = n /\ DOMAIN s = 1..n
  BY <1>2
<1>4. g \in [1..n -> Tasks]
  BY <1>1, <1>2, <1>6, MoreTasks
<1>5. <<"remove", Sp(p)>> \in Tasks
  BY MoreTasks DEF Containers
<1> QED
  <2>1. SpTasks(s, p) = Append(g, <<"remove", Sp(p)>>)
    BY <1>6 DEF SpTasks
  <2>2. \A i \in DOMAIN s: g[i] = <<"cleanTl", s[i], p>>
    BY <1>6
  <2>3. /\ SpTasks(s, p) \in Seq(Tasks) /\ Len(SpTasks(s, p)) = n + 1
        /\ DOMAIN SpTasks(s, p) = 1..(n + 1)
        /\ \A i \in 1..n: SpTasks(s, p)[i] = g[i]
        /\ SpTasks(s, p)[n + 1] = <<"remove", Sp(p)>>
    <3>1. PICK t: t = <<"remove", Sp(p)>>
      OBVIOUS
    <3>2. PICK k: k = n
      OBVIOUS
    <3>3. k \in Nat /\ g \in [1..k -> Tasks] /\ t \in Tasks
      BY <1>2, <1>4, <1>5, <3>1, <3>2
    <3>4. /\ Append(g, t) \in Seq(Tasks) /\ Len(Append(g, t)) = k + 1
          /\ DOMAIN Append(g, t) = 1..(k + 1)
          /\ \A i \in 1..k: Append(g, t)[i] = g[i]
          /\ Append(g, t)[k + 1] = t
      BY <3>3, AppendTask
    <3> QED
      BY <2>1, <3>1, <3>2, <3>4
  <2> QED
    BY <1>1, <1>2, <1>3, <2>2, <2>3

LEMMA TlTasksAre ==
  ASSUME NEW u \in TAs, NEW p \in SPs
  PROVE  TlTasks(u, p) \in Seq(Tasks) /\ <<<<"remove", Tl(u, p)>>>> \in Seq(Tasks)
<1>1. <<"discard", Tabin(u)>> \in Tasks /\ <<"discard", Spid(u)>> \in Tasks
      /\ <<"remove", Tl(u, p)>> \in Tasks
  BY MoreTasks DEF Containers, BlobFiles
<1> QED
  BY <1>1 DEF TlTasks

\* The task in execution.
GoesOn(more) == more \in Seq(Tasks) /\ Sound(more) /\ Proceed(more)
ExecutesOpen(f, c) ==
  \/ /\ SetFile(f, EMPTY) /\ GoesOn(<<<<"fill", f, c>>>>) /\ Fine
  \/ Fails("refused") /\ Keep /\ Answers("error")
ExecutesFill(f, c) ==
  \/ SetFile(f, c) /\ GoesOn(<<>>) /\ Fine
  \/ \E d \in {EMPTY, TORN}: /\ SetFile(f, d)
                             /\ \/ Fails("short") /\ Answers("error")
                                \/ Fails("unnoticed") /\ GoesOn(<<>>)
ExecutesRename ==
  \/ /\ file[Auth] # NONE
     /\ file' = [file EXCEPT ![Backup] = file[Auth], ![Auth] = NONE]
     /\ UNCHANGED listed /\ GoesOn(<<>>) /\ Fine
  \/ file[Auth] = NONE /\ Keep /\ Answers("error") /\ Fine
  \/ Fails("refused") /\ Keep /\ Answers("error")
ExecutesRead == /\ \/ Answers(IF TokenSize(Auth) THEN "ok" ELSE "error") /\ Fine
                   \/ Fails("refused") /\ Answers("error")
                /\ Keep
ExecutesRefuse == Answers("error") /\ Keep /\ Fine
CleansNothing(f) ==
  /\ \/ file[f] \in {NONE, EMPTY} /\ Answers("error")
     \/ file[f] \in {TORN, GARBAGE} /\ GoesOn(<<>>)
  /\ Fine /\ Keep
ExecutesCleanRoot ==
  \/ CleansNothing(Root)
  \/ IsWhole(Root) /\ \E s \in Orders(file[Root]): GoesOn(RootTasks(s)) /\ Fine /\ Keep
ExecutesCleanSp(p) ==
  \/ CleansNothing(Sp(p))
  \/ IsWhole(Sp(p)) /\ \E s \in Orders(file[Sp(p)]): GoesOn(SpTasks(s, p)) /\ Fine /\ Keep
ExecutesCleanTl(u, p) ==
  /\ \/ BlobFound(u, p) /\ GoesOn(TlTasks(u, p))
     \/ (~BlobFound(u, p) \/ file[Tabin(u)] = TORN) /\ GoesOn(<<<<"remove", Tl(u, p)>>>>)
  /\ Fine /\ Keep
ExecutesRemove(f) ==
  \/ file[f] # NONE /\ SetFile(f, NONE) /\ GoesOn(<<>>) /\ Fine
  \/ file[f] = NONE /\ Keep /\ Answers("error") /\ Fine
  \/ Fails("refused") /\ Keep /\ Answers("error")
ExecutesDiscard(f) == /\ \/ SetFile(f, NONE) /\ Fine
                         \/ Fails("refused") /\ Keep
                      /\ GoesOn(<<>>)
Now(t) == job.todo[1] = t
Executes ==
  \/ \E f \in Files, c \in Contents: Fits(f, c) /\ Now(<<"open", f, c>>) /\ ExecutesOpen(f, c)
  \/ \E f \in Files, c \in Contents: Fits(f, c) /\ Now(<<"fill", f, c>>) /\ ExecutesFill(f, c)
  \/ job.todo[1][1] = "rename" /\ ExecutesRename
  \/ job.todo[1][1] = "read" /\ ExecutesRead
  \/ job.todo[1][1] = "refuse" /\ ExecutesRefuse
  \/ job.todo[1][1] = "cleanRoot" /\ ExecutesCleanRoot
  \/ \E p \in SPs: Now(<<"cleanSp", p>>) /\ ExecutesCleanSp(p)
  \/ \E u \in TAs, p \in SPs: Now(<<"cleanTl", u, p>>) /\ ExecutesCleanTl(u, p)
  \/ \E f \in Containers: Now(<<"remove", f>>) /\ ExecutesRemove(f)
  \/ \E f \in BlobFiles: Now(<<"discard", f>>) /\ ExecutesDiscard(f)

LEMMA Executed ==
  ASSUME Typed, Daemon
  PROVE  up /\ Busy /\ up' = up /\ Executes
<1>1. up /\ Busy /\ up' = up
  BY DEF Daemon, Open, Fill, Rename, Read, Refuse, CleanRoot, CleanSp, CleanTl, Remove, Discard,
         Cleanup, Does
<1>2. /\ job.todo \in Seq(Tasks) /\ Task = job.todo[1] /\ Task \in Tasks
      /\ Task[1] \in {"open", "fill"} => Fits(Task[2], Task[3])
  <2>1. job.todo \in Seq(Tasks) /\ job.todo # <<>>
    BY <1>1 DEF Busy, Typed, Types, Jobs
  <2>2. Task = job.todo[1] /\ 1 \in DOMAIN job.todo
    BY <2>1, HeadTailProperties DEF Task
  <2>3. Sound(job.todo)
    <3>1. 0 \in Slots
      BY DEF Slots, Typed, Types
    <3> QED
      BY <3>1 DEF Typed, TodosSound, Todo
  <2> QED
    BY <2>1, <2>2, <2>3 DEF Sound
<1>3. Sound(<<>>) /\ <<>> \in Seq(Tasks)
  BY DEF Sound
<1>4. ASSUME Proceed(<<>>)
      PROVE  GoesOn(<<>>)
  BY <1>3, <1>4 DEF GoesOn
<1> DEFINE f == Task[2]
           c == Task[3]
<1>5. CASE Open
  <2>1. Task[1] = "open" /\ Task = <<"open", f, c>> /\ f \in Files /\ Fits(f, c) /\ c \in Contents
    BY <1>2, <1>5, TaskKinds, FitsWhat DEF Open, Does
  <2>2. <<<<"fill", f, c>>>> \in Seq(Tasks) /\ Sound(<<<<"fill", f, c>>>>)
    BY <2>1, MoreTasks DEF Sound
  <2>3. ExecutesOpen(f, c)
    BY <1>5, <2>2 DEF Open, ExecutesOpen, GoesOn
  <2> QED
    BY <1>1, <1>2, <2>1, <2>3 DEF Executes, Now
<1>6. CASE Fill
  <2>1. Task[1] = "fill" /\ Task = <<"fill", f, c>> /\ f \in Files /\ Fits(f, c) /\ c \in Contents
    BY <1>2, <1>6, TaskKinds, FitsWhat DEF Fill, Does
  <2>2. ExecutesFill(f, c)
    BY <1>4, <1>6 DEF Fill, ExecutesFill
  <2> QED
    BY <1>1, <1>2, <2>1, <2>2 DEF Executes, Now
<1>7. CASE Rename \/ Read \/ Refuse
  BY <1>1, <1>2, <1>4, <1>7 DEF Rename, Read, Refuse, Executes, ExecutesRename, ExecutesRead,
     ExecutesRefuse, Does
<1>8. ASSUME NEW g, Fine /\ Keep,
             \/ file[g] \in {NONE, EMPTY} /\ Answers("error")
             \/ file[g] \in {TORN, GARBAGE} /\ Proceed(<<>>)
      PROVE  CleansNothing(g)
  BY <1>4, <1>8 DEF CleansNothing
<1>9. CASE CleanRoot
  <2>1. Task[1] = "cleanRoot"
    BY <1>9 DEF CleanRoot, Does
  <2>2. ASSUME IsWhole(Root), NEW s \in Orders(file[Root]),
               Proceed(RootTasks(s))
        PROVE  GoesOn(RootTasks(s))
    <3>1. RootTasks(s) \in Seq(Tasks) /\ Sound(RootTasks(s))
      BY <2>2, RootTasksAre DEF Sound, Follows
    <3> QED
      BY <2>2, <3>1 DEF GoesOn
  <2>3. \/ file[Root] \in {NONE, EMPTY} /\ Answers("error")
        \/ file[Root] \in {TORN, GARBAGE} /\ Proceed(<<>>)
        \/ IsWhole(Root) /\ \E s \in Orders(file[Root]): Proceed(RootTasks(s))
    BY <1>9 DEF CleanRoot, Cleanup, RootTasks
  <2>4. Fine /\ Keep
    BY <1>9 DEF CleanRoot, Cleanup
  <2>5. ExecutesCleanRoot
    <3>1. ASSUME IsWhole(Root), NEW s \in Orders(file[Root]), Proceed(RootTasks(s))
          PROVE  ExecutesCleanRoot
      BY <2>2, <2>4, <3>1 DEF ExecutesCleanRoot
    <3> QED
      BY <1>8, <2>3, <2>4, <3>1 DEF ExecutesCleanRoot
  <2> QED
    BY <1>1, <1>2, <2>1, <2>5 DEF Executes
<1>10. CASE CleanSp
  <2> DEFINE p == Task[2]
  <2>1. Task = <<"cleanSp", p>> /\ p \in SPs
    BY <1>2, <1>10, TaskKinds DEF CleanSp, Does
  <2>2. ASSUME IsWhole(Sp(p)), NEW s \in Orders(file[Sp(p)]), Proceed(SpTasks(s, p))
        PROVE  GoesOn(SpTasks(s, p))
    <3>1. SpTasks(s, p) \in Seq(Tasks) /\ Sound(SpTasks(s, p))
      BY <2>1, <2>2, SpTasksAre DEF Sound, Follows
    <3> QED
      BY <2>2, <3>1 DEF GoesOn
  <2>3. \/ file[Sp(p)] \in {NONE, EMPTY} /\ Answers("error")
        \/ file[Sp(p)] \in {TORN, GARBAGE} /\ Proceed(<<>>)
        \/ IsWhole(Sp(p)) /\ \E s \in Orders(file[Sp(p)]): Proceed(SpTasks(s, p))
    BY <1>10 DEF CleanSp, Cleanup, SpTasks
  <2>4. Fine /\ Keep
    BY <1>10 DEF CleanSp, Cleanup
  <2>5. ExecutesCleanSp(p)
    <3>1. ASSUME IsWhole(Sp(p)), NEW s \in Orders(file[Sp(p)]), Proceed(SpTasks(s, p))
          PROVE  ExecutesCleanSp(p)
      BY <2>2, <2>4, <3>1 DEF ExecutesCleanSp
    <3> QED
      BY <1>8, <2>3, <2>4, <3>1 DEF ExecutesCleanSp
  <2> QED
    BY <1>1, <1>2, <2>1, <2>5 DEF Executes, Now
<1>11. CASE CleanTl
  <2> DEFINE u == Task[2]
             p == Task[3]
  <2>1. Task = <<"cleanTl", u, p>> /\ u \in TAs /\ p \in SPs
    BY <1>2, <1>11, TaskKinds DEF CleanTl, Does
  <2>2. Sound(TlTasks(u, p)) /\ Sound(<<<<"remove", Tl(u, p)>>>>)
    BY DEF Sound, Follows, TlTasks
  <2>3. Append(<< <<"discard", Tabin(u)>>, <<"discard", Spid(u)>> >>, <<"remove", Tl(u, p)>>)
          = TlTasks(u, p)
    BY AppendTwo DEF TlTasks
  <2>4. ExecutesCleanTl(u, p)
    BY <1>11, <2>1, <2>2, <2>3, TlTasksAre DEF CleanTl, ExecutesCleanTl, GoesOn
  <2> QED
    BY <1>1, <1>2, <2>1, <2>4 DEF Executes, Now
<1>12. CASE Remove
  <2>1. Task = <<"remove", f>> /\ f \in Containers
    BY <1>2, <1>12, TaskKinds DEF Remove, Does
  <2>2. ExecutesRemove(f)
    BY <1>4, <1>12 DEF Remove, ExecutesRemove
  <2> QED
    BY <1>1, <1>2, <2>1, <2>2 DEF Executes, Now
<1>13. CASE Discard
  <2>1. Task = <<"discard", f>> /\ f \in BlobFiles
    BY <1>2, <1>13, TaskKinds DEF Discard, Does
  <2>2. ExecutesDiscard(f)
    BY <1>4, <1>13 DEF Discard, ExecutesDiscard
  <2> QED
    BY <1>1, <1>2, <2>1, <2>2 DEF Executes, Now
<1> QED
  BY <1>5, <1>6, <1>7, <1>9, <1>10, <1>11, <1>12, <1>13 DEF Daemon

-----------------------------------------------------------------------------
(* Types, and who waits for what.                                          *)

Commandos == {c \in Seq(Tasks): c # <<>> /\ Sound(c)}

LEMMA CommandsSound ==
  /\ \A f, c: Fits(f, c) => Store(f, c) \in Commandos
  /\ \A u \in TAs, p \in SPs: /\ StoreTABlob(u, p) \in Commandos
                              /\ CleanupTrustlet(u, p) \in Commandos
  /\ \A p \in SPs: CleanupSp(p) \in Commandos
  /\ {DeleteAuthToken, ReadAuthToken, CleanupRoot, Refused} \subseteq Commandos
  /\ Single \subseteq Commandos
  /\ \A a: Recovery(a) \in Seq(Commandos) /\ Recovery(a) # <<>> /\ Head(Recovery(a)) \in Commandos
  /\ {Registering, Reading, Deleting} \subseteq Seq(Commandos)
<1>1. \A f, c: Fits(f, c) => Store(f, c) # <<>> /\ Sound(Store(f, c))
  BY DEF Store, Sound
<1>2. \A u \in TAs, p \in SPs: StoreTABlob(u, p) # <<>> /\ Sound(StoreTABlob(u, p))
  <2>1. \A u \in TAs, p \in SPs: Fits(Tabin(u), {}) /\ Fits(Spid(u), {p})
                                 /\ Spid(u) \in {Spid(v): v \in TAs}
    BY DEF Fits
  <2> QED
    BY <2>1 DEF StoreTABlob, Sound, Follows
<1>3. \A p \in SPs: CleanupSp(p) # <<>> /\ Sound(CleanupSp(p))
  BY DEF CleanupSp, Sound
<1>4. \A u \in TAs, p \in SPs: CleanupTrustlet(u, p) # <<>> /\ Sound(CleanupTrustlet(u, p))
  BY DEF CleanupTrustlet, Sound
<1>5. \A c \in {DeleteAuthToken, ReadAuthToken, CleanupRoot, Refused}: c # <<>> /\ Sound(c)
  BY DEF DeleteAuthToken, ReadAuthToken, CleanupRoot, Refused, Sound
<1>6. /\ \A f, c: Fits(f, c) => Store(f, c) \in Commandos
      /\ \A u \in TAs, p \in SPs: /\ StoreTABlob(u, p) \in Commandos
                                  /\ CleanupTrustlet(u, p) \in Commandos
      /\ \A p \in SPs: CleanupSp(p) \in Commandos
      /\ {DeleteAuthToken, ReadAuthToken, CleanupRoot, Refused} \subseteq Commandos
  BY <1>1, <1>2, <1>3, <1>4, <1>5, Commands DEF Commandos
<1>7. Single \subseteq Commandos
  BY <1>6 DEF Single
<1>8. Fits(Auth, {}) /\ Fits(Auth, GARBAGE) /\ Fits(Root, {})
  BY FS_EmptySet DEF Fits
<1>9. \A a: \E c \in Commandos: Recovery(a) = <<c, CleanupRoot>>
  BY <1>6, <1>8 DEF Recovery
<1>10. \A c, d, e \in Commandos:
         /\ <<c>> \in Seq(Commandos) /\ <<c, d>> \in Seq(Commandos)
         /\ <<c, d>> # <<>> /\ Head(<<c, d>>) = c /\ <<c, d, e>> \in Seq(Commandos)
  OBVIOUS
<1>11. \A a: Recovery(a) \in Seq(Commandos) /\ Recovery(a) # <<>> /\ Head(Recovery(a)) \in Commandos
  <2> SUFFICES ASSUME NEW a
               PROVE  /\ Recovery(a) \in Seq(Commandos) /\ Recovery(a) # <<>>
                      /\ Head(Recovery(a)) \in Commandos
    OBVIOUS
  <2>1. CleanupRoot \in Commandos
    BY <1>6
  <2>2. PICK c \in Commandos: Recovery(a) = <<c, CleanupRoot>>
    BY <1>9
  <2>3. PICK r: r = Recovery(a)
    OBVIOUS
  <2>4. r \in Seq(Commandos) /\ r # <<>> /\ Head(r) = c
    BY <1>10, <2>1, <2>2, <2>3
  <2> QED
    BY <2>3, <2>4
<1> QED
  BY <1>6, <1>7, <1>8, <1>10, <1>11 DEF Registering, Reading, Deleting

LEMMA FitsMore ==
  ASSUME Typed
  PROVE  /\ IsWhole(Root) =>
              /\ file[Root] \in SUBSET SPs /\ Fits(Root, file[Root])
              /\ \A p \in SPs: /\ Fits(Root, file[Root] \cup {p})
                               /\ Fits(Root, file[Root] \ {p})
                               /\ file[Root] \cup {p} \in SUBSET SPs
                               /\ file[Root] \ {p} \in SUBSET SPs
                               /\ IsFiniteSet(file[Root] \cup {p})
                               /\ IsFiniteSet(file[Root] \ {p})
         /\ \A p \in SPs: IsWhole(Sp(p)) =>
              /\ file[Sp(p)] \in SUBSET TAs /\ Fits(Sp(p), file[Sp(p)])
              /\ \A u \in TAs: /\ Fits(Sp(p), file[Sp(p)] \cup {u})
                               /\ Fits(Sp(p), file[Sp(p)] \ {u})
                               /\ file[Sp(p)] \cup {u} \in SUBSET TAs
                               /\ file[Sp(p)] \ {u} \in SUBSET TAs
                               /\ IsFiniteSet(file[Sp(p)] \cup {u})
                               /\ IsFiniteSet(file[Sp(p)] \ {u})
<1>1. \A S, x: IsFiniteSet(S) => IsFiniteSet(S \cup {x}) /\ IsFiniteSet(S \ {x})
  BY FS_AddElement, FS_RemoveElement
<1> QED
  BY <1>1, WholeFits DEF Fits

LEMMA FitsAlways ==
  /\ \A p \in SPs: Fits(Sp(p), {})
  /\ \A u \in TAs, p \in SPs: Fits(Tl(u, p), {})
  /\ \A d \in SUBSET SPs: IsFiniteSet(d) => Fits(Root, d)
  /\ \A p \in SPs, d \in SUBSET TAs: IsFiniteSet(d) => Fits(Sp(p), d)
  /\ Fits(Auth, {}) /\ Fits(Root, {})
BY FS_EmptySet DEF Fits

\* What RootPA turns to is a list of commands.
Proper(steps, undo) == /\ steps \in Seq(Commandos) /\ steps # <<>> /\ undo \in Seq(Commandos)
                       /\ Head(steps) \in Commandos

LEMMA TurnsProperly ==
  ASSUME Typed, Beginning \/ GoingOn
  PROVE  \E steps, undo: \E regardless \in BOOLEAN:
           Turns(steps, regardless, undo) /\ Proper(steps, undo)
<1>1. <<>> \in Seq(Commandos)
  OBVIOUS
<1>2. ASSUME NEW c \in Commandos
      PROVE  Proper(<<c>>, <<>>) /\ \A d \in Commandos: Proper(<<c>>, <<d>>)
  BY <1>2 DEF Proper
<1>3. ASSUME NEW c \in Commandos, NEW d \in Commandos
      PROVE  Proper(<<c, d>>, <<>>) /\ \A e \in Commandos: Proper(<<c, d>>, <<e>>)
  BY <1>3 DEF Proper
<1>4. \A a: Proper(Deleting, Recovery(a)) /\ Proper(Recovery(a), <<>>)
  <2>1. \A a: Head(Recovery(a)) \in Commandos /\ Recovery(a) # <<>>
    BY CommandsSound
  <2> QED
    BY <1>1, <2>1, CommandsSound DEF Proper, Deleting
<1>5. Proper(Registering, <<>>) /\ Proper(Reading, <<>>)
  BY <1>1, CommandsSound, FitsAlways DEF Proper, Registering, Reading
<1>6. CASE Beginning
  <2>1. ASSUME NEW c \in Single, BeginsSingle(c)
        PROVE  Turns(<<c>>, FALSE, <<>>) /\ Proper(<<c>>, <<>>)
    BY <1>2, <2>1, CommandsSound DEF BeginsSingle
  <2>2. CASE BeginsRegistering
    BY <1>5, <2>2 DEF BeginsRegistering
  <2>3. ASSUME NEW p \in SPs, BeginsAddSp(p) \/ BeginsCutSp(p)
        PROVE  \E steps: \E regardless \in BOOLEAN:
                 Turns(steps, regardless, <<>>) /\ Proper(steps, <<>>)
    <3>1. CASE BeginsAddSp(p)
      BY <1>3, <3>1, CommandsSound, FitsMore, FitsAlways DEF BeginsAddSp
    <3>2. CASE BeginsCutSp(p)
      BY <1>3, <3>2, CommandsSound, FitsMore, FitsAlways DEF BeginsCutSp, RootLists
    <3> QED
      BY <2>3, <3>1, <3>2
  <2>4. ASSUME NEW u \in TAs, NEW p \in SPs, BeginsAddTl(u, p) \/ BeginsCutTl(u, p)
        PROVE  \E steps, undo: \E regardless \in BOOLEAN:
                 Turns(steps, regardless, undo) /\ Proper(steps, undo)
    <3>1. CASE BeginsAddTl(u, p)
      BY <1>3, <3>1, CommandsSound, FitsMore, FitsAlways DEF BeginsAddTl
    <3>2. CASE BeginsCutTl(u, p)
      BY <1>3, <3>2, CommandsSound, FitsMore, FitsAlways DEF BeginsCutTl, SpLists
    <3> QED
      BY <2>4, <3>1, <3>2
  <2> QED
    BY <1>6, <2>1, <2>2, <2>3, <2>4 DEF Beginning
<1>7. CASE GoingOn
  <2>1. CASE GoesReading \/ GoesDeleting
    BY <1>4, <1>5, <2>1 DEF GoesReading, GoesDeleting
  <2>2. ASSUME NEW a \in Answered, GoesRecovering(a) \/ GoesCleaning(a)
        PROVE  \E steps: Turns(steps, FALSE, <<>>) /\ Proper(steps, <<>>)
    BY <1>2, <1>4, <2>2, CommandsSound DEF GoesRecovering, GoesCleaning
  <2>3. ASSUME NEW p \in SPs, NEW d \in SUBSET SPs, IsFiniteSet(d),
               GoesAddSp(p, d) \/ GoesCutSp(p, d)
        PROVE  \E steps: \E regardless \in BOOLEAN:
                 Turns(steps, regardless, <<>>) /\ Proper(steps, <<>>)
    BY <1>2, <2>3, CommandsSound, FitsAlways DEF GoesAddSp, GoesCutSp
  <2>4. ASSUME NEW u \in TAs, NEW p \in SPs, NEW d \in SUBSET TAs, IsFiniteSet(d),
               GoesAddTl(u, p, d) \/ GoesUndoing(u, p, d) \/ GoesCutTl(u, p, d)
        PROVE  \E steps, undo: \E regardless \in BOOLEAN:
                 Turns(steps, regardless, undo) /\ Proper(steps, undo)
    BY <1>2, <2>4, CommandsSound, FitsAlways DEF GoesAddTl, GoesUndoing, GoesCutTl
  <2> QED
    BY <1>7, <2>1, <2>2, <2>3, <2>4 DEF GoingOn
<1> QED
  BY <1>6, <1>7

\* The jobs after a command has been sent.
LEMMA SendsJobs ==
  ASSUME Types, Flow, NEW c \in Commandos, Sends(c)
  PROVE  /\ job' \in Jobs /\ queued' \in Seq(Jobs)
         /\ ~up => job' = job /\ queued' = queued
         /\ up /\ ~Busy => /\ job' = [todo |-> c, wanted |-> TRUE]
                           /\ queued' = <<>> /\ queued = <<>>
         /\ up /\ Busy => /\ job' = job /\ Len(queued') = Len(queued) + 1
                          /\ \A i \in DOMAIN queued: i \in DOMAIN queued' /\ queued'[i] = queued[i]
                          /\ queued'[Len(queued')] = [todo |-> c, wanted |-> TRUE]
         /\ \A i \in Slots': \/ i \in Slots /\ Todo(i)' = Todo(i) /\ (up => Busy /\ i # Len(queued'))
                             \/ up /\ i = Len(queued') /\ Todo(i)' = c
                                /\ (Busy => i \notin Slots /\ i = Len(queued) + 1)
<1> DEFINE new == [todo |-> c, wanted |-> TRUE]
<1>1. new \in Jobs /\ job \in Jobs /\ queued \in Seq(Jobs) /\ Len(queued) \in Nat
  BY DEF Jobs, Commandos, Types
<1>2. CASE ~up
  <2>1. job' = job /\ queued' = queued
    BY <1>2 DEF Sends
  <2>2. \A i \in Slots': i \in Slots /\ Todo(i)' = Todo(i)
    BY <2>1 DEF Slots, Todo
  <2> QED
    BY <1>1, <1>2, <2>1, <2>2
<1>3. CASE up /\ Busy
  <2>1. queued' = Append(queued, new) /\ job' = job
    BY <1>3 DEF Sends
  <2>2. /\ queued' \in Seq(Jobs) /\ Len(queued') = Len(queued) + 1
        /\ \A i \in 1..Len(queued): queued'[i] = queued[i]
        /\ queued'[Len(queued) + 1] = new
    BY <1>1, <2>1, AppendProperties
  <2>3. ASSUME NEW i \in Slots'
        PROVE  \/ i \in Slots /\ Todo(i)' = Todo(i) /\ i # Len(queued')
               \/ i \notin Slots /\ i = Len(queued') /\ Todo(i)' = c
    <3>1. i \in 0..(Len(queued) + 1)
      BY <2>2, <2>3 DEF Slots
    <3>2. CASE i = 0
      BY <1>1, <2>1, <2>2, <3>2 DEF Slots, Todo
    <3>3. CASE i \in 1..Len(queued)
      BY <1>1, <2>1, <2>2, <3>3 DEF Slots, Todo
    <3>4. CASE i = Len(queued) + 1
      BY <1>1, <2>1, <2>2, <3>4 DEF Slots, Todo
    <3> QED
      BY <1>1, <3>1, <3>2, <3>3, <3>4
  <2>4. /\ \A i \in DOMAIN queued: i \in DOMAIN queued' /\ queued'[i] = queued[i]
        /\ queued'[Len(queued')] = new
    BY <1>1, <2>2
  <2> QED
    BY <1>1, <1>3, <2>1, <2>2, <2>3, <2>4
<1>4. CASE up /\ ~Busy
  <2>1. queued' = queued /\ job' = new /\ queued = <<>>
    BY <1>4 DEF Sends, Flow
  <2>2. \A i \in Slots': i = Len(queued') /\ Todo(i)' = c
    BY <2>1 DEF Slots, Todo
  <2> QED
    BY <1>1, <1>4, <2>1, <2>2
<1> QED
  BY <1>2, <1>3, <1>4

\* The jobs after one has ended.
LEMMA EndsJobs ==
  ASSUME Types, Flow, NEW code \in {"ok", "error"}, Answers(code)
  PROVE  /\ job' \in Jobs /\ queued' \in Seq(Jobs) /\ Len(queued)' <= Len(queued)
         /\ \A i \in Slots': \/ i = 0 /\ queued = <<>> /\ Todo(i)' = <<>>
                             \/ i + 1 \in Slots /\ i + 1 \in DOMAIN queued /\ Todo(i)' = Todo(i + 1)
         /\ queued = <<>> => job' = NoJob /\ queued' = queued
         /\ queued # <<>> => /\ job' = queued[1] /\ Len(queued') = Len(queued) - 1
                             /\ \A i \in DOMAIN queued': i + 1 \in DOMAIN queued
                                                         /\ queued'[i] = queued[i + 1]
         /\ client'.steps = client.steps /\ client'.regardless = client.regardless
         /\ client'.undo = client.undo
         /\ client'.answer = IF job.wanted THEN code ELSE client.answer
         /\ client' \in Clients
<1>1. queued \in Seq(Jobs) /\ NoJob \in Jobs /\ Len(queued) \in Nat
  BY DEF Types, NoJob, Jobs
<1>2. queued # <<>> =>
        /\ Head(queued) = queued[1] /\ Head(queued) \in Jobs /\ Tail(queued) \in Seq(Jobs)
        /\ Len(Tail(queued)) = Len(queued) - 1
        /\ \A i \in 1..(Len(queued) - 1): Tail(queued)[i] = queued[i + 1]
  BY <1>1, HeadTailProperties
<1>3. client' = IF job.wanted THEN [client EXCEPT !.answer = code] ELSE client
  BY DEF Answers
<1>4. CASE queued = <<>>
  <2>1. job' = NoJob /\ queued' = queued
    BY <1>4 DEF Answers
  <2>2. job' \in Jobs /\ queued' \in Seq(Jobs) /\ Len(queued)' <= Len(queued)
    BY <1>1, <2>1
  <2>3. \A i \in Slots': i = 0 /\ Todo(i)' = <<>>
    <3>1. Len(queued') = 0 /\ job'.todo = <<>>
      BY <1>4, <2>1 DEF NoJob
    <3> QED
      BY <3>1 DEF Slots, Todo
  <2>4. /\ client'.steps = client.steps /\ client'.regardless = client.regardless
        /\ client'.undo = client.undo
        /\ client'.answer = IF job.wanted THEN code ELSE client.answer
        /\ client' \in Clients
    BY <1>3 DEF Types, Clients
  <2> QED
    BY <1>4, <2>1, <2>2, <2>3, <2>4
<1>5. CASE queued # <<>>
  <2>1. job' = Head(queued) /\ queued' = Tail(queued)
    BY <1>5 DEF Answers
  <2>2. /\ job' = queued[1] /\ job' \in Jobs /\ queued' \in Seq(Jobs)
        /\ Len(queued') = Len(queued) - 1 /\ Len(queued) > 0
        /\ \A i \in DOMAIN queued': i + 1 \in DOMAIN queued /\ queued'[i] = queued[i + 1]
    BY <1>1, <1>2, <1>5, <2>1
  <2>3. \A i \in Slots': i + 1 \in Slots /\ i + 1 \in DOMAIN queued /\ Todo(i)' = Todo(i + 1)
    BY <1>1, <2>2 DEF Slots, Todo
  <2>4. /\ client'.steps = client.steps /\ client'.regardless = client.regardless
        /\ client'.undo = client.undo
        /\ client'.answer = IF job.wanted THEN code ELSE client.answer
        /\ client' \in Clients
    BY <1>3 DEF Types, Clients
  <2> QED
    BY <1>1, <1>5, <2>2, <2>3, <2>4
<1> QED
  BY <1>4, <1>5

\* The jobs after one has gone on.
LEMMA GoesOnJobs ==
  ASSUME Types, Flow, Busy, NEW more, GoesOn(more)
  PROVE  \/ Answers("ok") /\ more = <<>> /\ Len(job.todo) = 1
         \/ /\ job' \in Jobs /\ queued' = queued /\ client' = client
            /\ job'.wanted = job.wanted
            /\ job'.todo # <<>> /\ job'.todo = more \o Tail(job.todo)
            /\ \A i \in Slots': i \in Slots /\ (i # 0 => Todo(i)' = Todo(i))
<1> DEFINE todo == more \o Tail(job.todo)
<1>1. job \in Jobs /\ job.todo \in Seq(Tasks) /\ job.todo # <<>> /\ more \in Seq(Tasks)
  BY DEF Types, Jobs, Busy, GoesOn
<1>2. todo \in Seq(Tasks) /\ Len(todo) = Len(more) + Len(job.todo) - 1
  BY <1>1, ProceedOf
<1>3. CASE todo = <<>>
  <2>1. /\ Len(todo) = 0 /\ Len(more) \in Nat
        /\ Len(job.todo) \in Nat /\ Len(job.todo) > 0
    <3>1. Len(todo) = 0
      <4>1. PICK s \in Seq(Tasks): s = todo
        BY <1>2
      <4>2. s = <<>>
        BY <1>3, <4>1
      <4>3. Len(s) = 0
        BY <4>2
      <4> QED
        BY <4>1, <4>3
    <3>2. Len(more) \in Nat
      BY <1>1
    <3>3. Len(job.todo) \in Nat /\ Len(job.todo) > 0
      BY <1>1, EmptySeq, LenProperties
    <3> QED
      BY <3>1, <3>2, <3>3
  <2>2. Len(more) = 0 /\ Len(job.todo) = 1
    <3>1. Len(more) + Len(job.todo) - 1 = 0
      BY <1>2, <2>1
    <3>2. \A m, n \in Nat: n > 0 /\ m + n - 1 = 0 => m = 0 /\ n = 1
      OBVIOUS
    <3> QED
      BY <2>1, <3>1, <3>2
  <2>3. more = <<>>
    BY <1>1, <2>2
  <2> QED
    BY <1>3, <2>2, <2>3 DEF GoesOn, Proceed
<1>4. CASE todo # <<>>
  <2>1. job' = [job EXCEPT !.todo = todo] /\ queued' = queued /\ client' = client
    BY <1>4 DEF GoesOn, Proceed
  <2> QED
    BY <1>1, <1>2, <1>4, <2>1 DEF Jobs, Slots, Todo
<1> QED
  BY <1>3, <1>4

\* What a step does to the files, to RootPA's command and to the jobs.
FileStep ==
  \/ Keep
  \/ \E f \in Files \ {Backup}, c \in Contents:
       SetFile(f, c) /\ (c \in {NONE, EMPTY, TORN} \/ Fits(f, c))
  \/ /\ Renames(job.todo) /\ file[Auth] # NONE
     /\ file' = [file EXCEPT ![Backup] = file[Auth], ![Auth] = NONE]
     /\ UNCHANGED listed
Leads(more) == more # <<>> =>
  \/ job.todo[1][1] = "open" /\ more[1] = <<"fill", job.todo[1][2], job.todo[1][3]>>
  \/ more[1][1] \in {"cleanSp", "cleanTl", "discard", "remove"}
JobStep == \/ \E code \in {"ok", "error"}: Answers(code)
           \/ \E more: GoesOn(more) /\ Leads(more)
FailStep == UNCHANGED failed \/ (failed' = failed + 1 /\ failed < MaxFailures)
Executing == up /\ Busy /\ up' = up /\ Executes
Beginnings == Beginning /\ UNCHANGED <<file, up, failed, listed>>
Continuing == /\ client.answer # "none" /\ (Dismisses \/ GoingOn)
              /\ UNCHANGED <<file, up, failed, listed>>

LEMMA Stepped ==
  ASSUME Typed, [Next]_vars
  PROVE  \/ Beginnings \/ Continuing \/ TimeOut \/ RootPADies \/ Executing \/ DaemonDies
         \/ DaemonStarts \/ UNCHANGED vars
<1>1. Continue => client.answer # "none"
  BY DEF Continue
<1> QED
  BY <1>1, Begun, Continued, Executed DEF Next, Beginnings, Continuing, Executing

LEMMA ExecutesInPart ==
  ASSUME Executes, Busy, Typed
  PROVE  FileStep /\ JobStep /\ FailStep
<1>1. ASSUME NEW more, GoesOn(more), more # <<>> => Leads(more)
      PROVE  JobStep
  BY <1>1 DEF JobStep, Leads
<1>2. ASSUME NEW code \in {"ok", "error"}, Answers(code)
      PROVE  JobStep
  BY <1>2 DEF JobStep
<1>3. \A kind: Fails(kind) => FailStep
  BY DEF Fails, FailStep
<1>4. Fine => FailStep
  BY DEF Fine, FailStep
<1>5. Keep => FileStep
  BY DEF FileStep
<1>6. ASSUME NEW f \in Files, f # Backup, NEW c, SetFile(f, c), c \in {NONE, EMPTY, TORN} \/ Fits(f, c)
      PROVE  FileStep
  BY <1>6, FitsWhat DEF FileStep, Contents, Broken
<1>7. ASSUME NEW f \in Files, NEW c \in Contents, Fits(f, c), Now(<<"open", f, c>>), ExecutesOpen(f, c)
      PROVE  FileStep /\ JobStep /\ FailStep
  <2>1. Leads(<<<<"fill", f, c>>>>)
    BY <1>7 DEF Leads, Now
  <2> QED
    BY <1>1, <1>2, <1>3, <1>4, <1>5, <1>6, <1>7, <2>1, FitsWhat DEF ExecutesOpen
<1>8. ASSUME NEW f \in Files, NEW c \in Contents, Fits(f, c), Now(<<"fill", f, c>>), ExecutesFill(f, c)
      PROVE  FileStep /\ JobStep /\ FailStep
  BY <1>1, <1>2, <1>3, <1>4, <1>6, <1>8, FitsWhat DEF ExecutesFill
<1>9. ASSUME job.todo[1][1] = "rename", ExecutesRename
      PROVE  FileStep /\ JobStep /\ FailStep
  <2>1. Renames(job.todo)
    BY <1>9 DEF Renames, Busy
  <2> QED
    BY <1>1, <1>2, <1>3, <1>4, <1>5, <1>9, <2>1 DEF ExecutesRename, FileStep
<1>10. ASSUME ExecutesRead \/ ExecutesRefuse
       PROVE  FileStep /\ JobStep /\ FailStep
  BY <1>2, <1>3, <1>4, <1>5, <1>10 DEF ExecutesRead, ExecutesRefuse
<1>11. ASSUME NEW g, CleansNothing(g)
       PROVE  FileStep /\ JobStep /\ FailStep
  BY <1>1, <1>2, <1>4, <1>5, <1>11 DEF CleansNothing
<1>12. ASSUME ExecutesCleanRoot
       PROVE  FileStep /\ JobStep /\ FailStep
  <2>1. ASSUME IsWhole(Root), NEW s \in Orders(file[Root])
        PROVE  Leads(RootTasks(s))
    <3>1. RootTasks(s)[1] = <<"cleanSp", s[1]>> \/ RootTasks(s)[1] = <<"remove", Root>>
      BY <2>1, RootTasksAre
    <3> QED
      BY <3>1 DEF Leads
  <2> QED
    BY <1>1, <1>4, <1>5, <1>11, <1>12, <2>1 DEF ExecutesCleanRoot
<1>13. ASSUME NEW p \in SPs, ExecutesCleanSp(p)
       PROVE  FileStep /\ JobStep /\ FailStep
  <2>1. ASSUME IsWhole(Sp(p)), NEW s \in Orders(file[Sp(p)])
        PROVE  Leads(SpTasks(s, p))
    <3>1. SpTasks(s, p)[1] = <<"cleanTl", s[1], p>> \/ SpTasks(s, p)[1] = <<"remove", Sp(p)>>
      BY <2>1, SpTasksAre
    <3> QED
      BY <3>1 DEF Leads
  <2> QED
    BY <1>1, <1>4, <1>5, <1>11, <1>13, <2>1 DEF ExecutesCleanSp
<1>14. ASSUME NEW u, NEW p, ExecutesCleanTl(u, p)
       PROVE  FileStep /\ JobStep /\ FailStep
  <2>1. Leads(TlTasks(u, p)) /\ Leads(<<<<"remove", Tl(u, p)>>>>)
    BY DEF Leads, TlTasks
  <2> QED
    BY <1>1, <1>4, <1>5, <1>14, <2>1 DEF ExecutesCleanTl
<1>15. ASSUME NEW f \in Containers, ExecutesRemove(f)
       PROVE  FileStep /\ JobStep /\ FailStep
  BY <1>1, <1>2, <1>3, <1>4, <1>5, <1>6, <1>15, FilesAre DEF ExecutesRemove
<1>16. ASSUME NEW f \in BlobFiles, ExecutesDiscard(f)
       PROVE  FileStep /\ JobStep /\ FailStep
  BY <1>1, <1>3, <1>4, <1>5, <1>6, <1>16, FilesAre DEF ExecutesDiscard
<1> QED
  BY <1>7, <1>8, <1>9, <1>10, <1>12, <1>13, <1>14, <1>15, <1>16 DEF Executes

\* The files.
LEMMA FilesStay ==
  ASSUME Types, FilesFit, RenameOnce, FileStep
  PROVE  file' \in [Files -> Contents] /\ listed' \in [Files -> Says] /\ FilesFit'
<1>1. CASE Keep
  BY <1>1 DEF Keep, Types, FilesFit
<1>2. ASSUME NEW f \in Files \ {Backup}, NEW c \in Contents, SetFile(f, c),
             c \in {NONE, EMPTY, TORN} \/ Fits(f, c)
      PROVE  file' \in [Files -> Contents] /\ listed' \in [Files -> Says] /\ FilesFit'
  BY <1>2, SaysWhole DEF SetFile, Types, FilesFit
<1>3. CASE /\ Renames(job.todo)
           /\ file' = [file EXCEPT ![Backup] = file[Auth], ![Auth] = NONE]
           /\ UNCHANGED listed
  <2>1. file[Auth] = {}
    <3>1. 0 \in Slots
      BY DEF Slots, Types
    <3> QED
      BY <1>3, <3>1 DEF RenameOnce, Todo
  <2>2. {} \in Contents /\ NONE \in Contents
    BY SaysWhole DEF Contents, Broken
  <2> QED
    <3>1. file' \in [Files -> Contents] /\ listed' \in [Files -> Says]
      BY <1>3, <2>1, <2>2 DEF Types
    <3>2. ASSUME NEW f \in Files
          PROVE  file'[f] = IF f = Auth THEN NONE ELSE IF f = Backup THEN {} ELSE file[f]
      BY <1>3, <2>1, FilesAre, FileNames DEF Types
    <3> QED
      BY <3>1, <3>2 DEF FilesFit
<1> QED
  BY <1>1, <1>2, <1>3 DEF FileStep

\* The jobs.
LEMMA TodosAfterSends ==
  ASSUME Types, Flow, TodosSound, NEW c \in Commandos, Sends(c)
  PROVE  TodosSound'
BY SendsJobs DEF TodosSound, Commandos, Sound

LEMMA TodosAfterJobStep ==
  ASSUME Types, Flow, TodosSound, Busy, JobStep
  PROVE  TodosSound'
<1>1. ASSUME NEW code \in {"ok", "error"}, Answers(code)
      PROVE  TodosSound'
  <2>1. Sound(<<>>)
    BY DEF Sound
  <2> QED
    BY <1>1, <2>1, EndsJobs DEF TodosSound, Sound
<1>2. ASSUME NEW more, GoesOn(more), ~Answers("ok")
      PROVE  TodosSound'
  <2>1. /\ job'.todo = more \o Tail(job.todo) /\ queued' = queued
        /\ \A i \in Slots': i \in Slots /\ (i # 0 => Todo(i)' = Todo(i))
    BY <1>2, GoesOnJobs
  <2>2. job.todo \in Seq(Tasks) /\ job.todo # <<>> /\ more \in Seq(Tasks) /\ Sound(more)
    BY <1>2 DEF Types, Jobs, Busy, GoesOn
  <2>3. Sound(job.todo)
    <3>1. 0 \in Slots
      BY DEF Slots, Types
    <3> QED
      BY <3>1 DEF TodosSound, Todo
  <2>4. /\ \A i \in DOMAIN job'.todo: \/ i \in DOMAIN more /\ job'.todo[i] = more[i]
                                      \/ \E k \in DOMAIN job.todo: k > 1 /\ job'.todo[i] = job.todo[k]
    <3>1. PICK t, new: t = job.todo /\ new = job'.todo
      OBVIOUS
    <3>2. t \in Seq(Tasks) /\ t # <<>> /\ new = more \o Tail(t)
      BY <2>1, <2>2, <3>1
    <3>3. \A i \in DOMAIN new: \/ i \in DOMAIN more /\ new[i] = more[i]
                               \/ \E k \in DOMAIN t: k > 1 /\ new[i] = t[k]
      BY <2>2, <3>2, ProceedOf
    <3> QED
      BY <3>1, <3>3
  <2>5. \A i \in DOMAIN job'.todo: \/ i \in DOMAIN more /\ job'.todo[i] = more[i]
                                   \/ Follows(job'.todo[i])
    BY <2>3, <2>4 DEF Sound
  <2>6. Sound(job'.todo)
    BY <2>2, <2>3, <2>4, <2>5 DEF Sound
  <2> QED
    BY <2>1, <2>6 DEF TodosSound, Todo, Sound
<1> QED
  BY <1>1, <1>2 DEF JobStep

\* Jobs nobody waits for are the same jobs.
LEMMA UnwantedJobs ==
  ASSUME Types, Unwanted
  PROVE  /\ job' \in Jobs /\ queued' \in Seq(Jobs) /\ Len(queued') = Len(queued)
         /\ Slots' = Slots /\ \A i \in Slots: Todo(i)' = Todo(i)
         /\ job'.todo = job.todo /\ ~job'.wanted
         /\ \A i \in DOMAIN queued': /\ i \in DOMAIN queued /\ ~queued'[i].wanted
                                     /\ queued'[i].todo = queued[i].todo
         /\ DOMAIN queued' = DOMAIN queued
<1>1. queued \in Seq(Jobs) /\ job \in Jobs /\ Len(queued) \in Nat /\ DOMAIN queued = 1..Len(queued)
  BY DEF Types
<1>2. job' = [job EXCEPT !.wanted = FALSE]
      /\ queued' = [i \in DOMAIN queued |-> [queued[i] EXCEPT !.wanted = FALSE]]
  BY DEF Unwanted
<1>3. \A j \in Jobs: [j EXCEPT !.wanted = FALSE] \in Jobs
                     /\ [j EXCEPT !.wanted = FALSE].todo = j.todo
                     /\ ~[j EXCEPT !.wanted = FALSE].wanted
  BY DEF Jobs
<1>4. \A i \in 1..Len(queued): queued[i] \in Jobs
  BY <1>1
<1>5. queued' \in [1..Len(queued) -> Jobs]
  BY <1>1, <1>2, <1>3, <1>4
<1>6. queued' \in Seq(Jobs) /\ Len(queued') = Len(queued)
  BY <1>1, <1>5
<1>7. \A i \in DOMAIN queued': /\ i \in DOMAIN queued /\ ~queued'[i].wanted
                               /\ queued'[i].todo = queued[i].todo
  BY <1>1, <1>2, <1>3, <1>4
<1> QED
  BY <1>1, <1>2, <1>3, <1>5, <1>6, <1>7 DEF Slots, Todo

JobTypes == job \in Jobs /\ queued \in Seq(Jobs) /\ client \in Clients

LEMMA SoundSteps ==
  ASSUME Typed, RenameOnce, [Next]_vars
  PROVE  Types' /\ FilesFit' /\ TodosSound'
<1>1. ASSUME UNCHANGED <<file, up, failed, listed>>, UNCHANGED <<job, queued>>
      PROVE  /\ FilesFit' /\ TodosSound'
             /\ client' \in Clients => Types'
  BY <1>1 DEF Typed, Types, FilesFit, TodosSound, Slots, Todo, Sound
<1>2. NoCommand \in Clients
  BY DEF NoCommand, Clients
<1>3. ASSUME Beginning \/ GoingOn, UNCHANGED <<file, up, failed, listed>>
      PROVE  Types' /\ FilesFit' /\ TodosSound'
  <2>1. PICK steps, undo: \E regardless \in BOOLEAN:
          Turns(steps, regardless, undo) /\ Proper(steps, undo)
    BY <1>3, TurnsProperly
  <2>2. PICK regardless \in BOOLEAN: Turns(steps, regardless, undo)
    BY <2>1
  <2>3. /\ steps \in Seq(Commandos) /\ undo \in Seq(Commandos) /\ Head(steps) \in Commandos
        /\ Commandos \subseteq Seq(Tasks)
    BY <2>1 DEF Proper, Commandos
  <2>4. steps \in Seq(Seq(Tasks)) /\ undo \in Seq(Seq(Tasks))
    BY <2>3
  <2>5. Sends(Head(steps))
    BY <2>2 DEF Turns
  <2>6. client' \in Clients
    BY <2>2, <2>4 DEF Turns, Clients
  <2>7. TodosSound'
    BY <2>3, <2>5, TodosAfterSends DEF Typed
  <2>8. job' \in Jobs /\ queued' \in Seq(Jobs)
    BY <2>3, <2>5, SendsJobs DEF Typed
  <2> QED
    BY <1>3, <2>6, <2>7, <2>8 DEF Typed, Types, FilesFit
<1>4. CASE Beginnings
  BY <1>3, <1>4 DEF Beginnings
<1>5. CASE Continuing
  BY <1>1, <1>2, <1>3, <1>5 DEF Continuing, Dismisses
<1>6. ASSUME Unwanted, FailStep, UNCHANGED <<file, up, listed>>,
             client' \in Clients
      PROVE  Types' /\ FilesFit' /\ TodosSound'
  <2>1. TodosSound'
    BY <1>6, UnwantedJobs DEF Typed, TodosSound, Sound
  <2> QED
    BY <1>6, <2>1, UnwantedJobs, FailuresAssumption
       DEF Typed, Types, FilesFit, FailStep, FailuresAssumption
<1>7. CASE TimeOut
  <2>1. client' \in Clients
    BY <1>7 DEF TimeOut, Typed, Types, Clients
  <2> QED
    BY <1>6, <1>7, <2>1 DEF TimeOut, Fails, FailStep
<1>8. CASE RootPADies
  BY <1>2, <1>6, <1>8 DEF RootPADies, Fails, FailStep
<1>9. CASE Executing
  <2>1. FileStep /\ JobStep /\ FailStep
    BY <1>9, ExecutesInPart DEF Executing, Typed
  <2>2. file' \in [Files -> Contents] /\ listed' \in [Files -> Says] /\ FilesFit'
    BY <2>1, FilesStay DEF Typed
  <2>3. TodosSound'
    BY <1>9, <2>1, TodosAfterJobStep DEF Typed, Executing
  <2>4. JobTypes'
    <3>1. ASSUME NEW code \in {"ok", "error"}, Answers(code)
          PROVE  JobTypes'
      BY <3>1, EndsJobs DEF Typed, JobTypes
    <3>2. ASSUME NEW more, GoesOn(more), ~Answers("ok")
          PROVE  JobTypes'
      BY <1>9, <3>2, GoesOnJobs DEF Typed, Types, Executing, JobTypes
    <3> QED
      BY <2>1, <3>1, <3>2 DEF JobStep
  <2> QED
    BY <1>9, <2>1, <2>2, <2>3, <2>4, FailuresAssumption
       DEF Typed, Types, JobTypes, FailStep, Executing, FailuresAssumption
<1>10. CASE DaemonDies
  <2>1. job' = NoJob /\ queued' = <<>> /\ up' = FALSE /\ UNCHANGED <<file, listed>> /\ FailStep
    BY <1>10 DEF DaemonDies, Keep, Fails, FailStep
  <2>2. client' \in Clients
    BY <1>10 DEF DaemonDies, Typed, Types, Clients
  <2>3. TodosSound'
    BY <2>1 DEF TodosSound, Slots, Todo, NoJob, Sound
  <2>4. NoJob \in Jobs /\ <<>> \in Seq(Jobs)
    BY DEF NoJob, Jobs
  <2>5. failed' \in 0..MaxFailures
    BY <2>1, FailuresAssumption DEF Typed, Types, FailStep, FailuresAssumption
  <2>6. FilesFit'
    BY <2>1 DEF Typed, FilesFit
  <2> QED
    BY <2>1, <2>2, <2>3, <2>4, <2>5, <2>6 DEF Typed, Types
<1>11. CASE DaemonStarts
  <2>1. Types'
    BY <1>11 DEF DaemonStarts, Typed, Types
  <2> QED
    BY <1>11, <2>1 DEF DaemonStarts, Typed, FilesFit, TodosSound, Slots, Todo, Sound
<1>12. CASE UNCHANGED vars
  BY <1>1, <1>12 DEF vars, Typed, Types
<1> QED
  BY <1>4, <1>5, <1>7, <1>8, <1>9, <1>10, <1>11, <1>12, Stepped

\* The tasks of the job in execution.
LEMMA JobSound ==
  ASSUME Typed, Busy
  PROVE  /\ job.todo \in Seq(Tasks) /\ job.todo # <<>> /\ Sound(job.todo)
         /\ 1 \in DOMAIN job.todo /\ \A i \in DOMAIN job.todo: i \in Nat /\ job.todo[i] \in Tasks
<1>1. job.todo \in Seq(Tasks) /\ job.todo # <<>>
  BY DEF Busy, Typed, Types, Jobs
<1>2. 0 \in Slots
  BY DEF Slots, Typed, Types
<1> QED
  BY <1>1, <1>2 DEF Typed, TodosSound, Todo

LEMMA FirstOf ==
  ASSUME NEW todo \in Seq(Tasks), todo # <<>>, NEW more \in Seq(Tasks), more # <<>>
  PROVE  (more \o Tail(todo))[1] = more[1]
<1>1. 1 \in DOMAIN more
  OBVIOUS
<1> QED
  BY <1>1, ProceedOf

LEMMA NextOf ==
  ASSUME NEW todo \in Seq(Tasks), todo # <<>>, Sound(todo),
         NEW new, new = <<>> \o Tail(todo), new # <<>>
  PROVE  /\ new \in Seq(Tasks) /\ Len(new) = Len(todo) - 1
         /\ Follows(new[1])
         /\ \A i \in DOMAIN new: i \in Nat /\ i + 1 \in DOMAIN todo /\ new[i] = todo[i + 1]
         /\ \A i \in DOMAIN todo: i > 1 => i - 1 \in DOMAIN new /\ todo[i] = new[i - 1]
<1>1. <<>> \in Seq(Tasks) /\ Len(<<>>) = 0 /\ DOMAIN <<>> = {}
  OBVIOUS
<1>2. /\ new \in Seq(Tasks) /\ Len(new) = Len(todo) - 1
      /\ \A i \in DOMAIN new: i + 1 \in DOMAIN todo /\ i + 1 > 1 /\ new[i] = todo[i + 1]
      /\ \A j \in DOMAIN todo: j > 1 => j - 1 \in DOMAIN new /\ new[j - 1] = todo[j]
  BY <1>1, ProceedOf
<1>3. 1 \in DOMAIN new /\ \A i \in DOMAIN new: i \in Nat
  BY <1>2
<1> QED
  BY <1>2, <1>3 DEF Sound

LEMMA EndsAlone ==
  ASSUME Types, Busy, Len(job.todo) = 1, GoesOn(<<>>)
  PROVE  Answers("ok")
<1>1. job.todo \in Seq(Tasks) /\ job.todo # <<>> /\ <<>> \in Seq(Tasks)
  BY DEF Types, Jobs, Busy
<1>2. <<>> \o Tail(job.todo) \in Seq(Tasks) /\ Len(<<>> \o Tail(job.todo)) = 0
  BY <1>1, ProceedOf
<1>3. <<>> \o Tail(job.todo) = <<>>
  BY <1>2, EmptySeq, LenProperties
<1> QED
  BY <1>3 DEF GoesOn, Proceed

\* The script stays, and no job has been added.
LEMMA ScriptsStay ==
  ASSUME Typed, client'.steps = client.steps, client'.regardless = client.regardless,
         client'.undo = client.undo, queued' \in Seq(Jobs), Len(queued') <= Len(queued),
         client = NoCommand => client' = NoCommand
  PROVE  Scripts'
<1>1. /\ queued = <<>> => queued' = <<>>
      /\ Len(queued) <= 1 => Len(queued') <= 1
      /\ Len(queued) <= 2 => Len(queued') <= 2
  <2>1. Len(queued') \in Nat /\ Len(queued) \in Nat /\ (Len(queued') = 0 => queued' = <<>>)
    BY EmptySeq, LenProperties DEF Typed, Types
  <2>2. queued = <<>> => Len(queued) = 0
    OBVIOUS
  <2> QED
    BY <2>1, <2>2
<1>2. \A s, r, u: Script(s, r, u) => Script(s, r, u)'
  BY DEF Script
<1>3. /\ \A p, d: (AddsSp(p, d) => AddsSp(p, d)') /\ (CutsSp(p, d) => CutsSp(p, d)')
      /\ \A u, p, d: /\ AddsTl(u, p, d) => AddsTl(u, p, d)'
                     /\ LinksTl(u, p, d) => LinksTl(u, p, d)'
                     /\ CutsTl(u, p, d) => CutsTl(u, p, d)'
  BY <1>2 DEF AddsSp, CutsSp, AddsTl, LinksTl, CutsTl
<1> QED
  BY <1>1, <1>2, <1>3 DEF Typed, Scripts

\* The script RootPA turns to.
LEMMA TurnsScript ==
  ASSUME NEW steps, NEW regardless, NEW undo, Turns(steps, regardless, undo)
  PROVE  Script(steps, regardless, undo)'
BY DEF Turns, Script

LEMMA SendsLength ==
  ASSUME Typed, NEW steps, NEW regardless, NEW undo, Turns(steps, regardless, undo),
         Proper(steps, undo)
  PROVE  /\ Len(queued') \in Nat /\ Len(queued) \in Nat
         /\ Len(queued') <= Len(queued) + 1
         /\ ~Busy => queued' = <<>>
         /\ queued = <<>> => Len(queued) = 0
<1>1. Sends(Head(steps)) /\ Head(steps) \in Commandos
  BY DEF Turns, Proper
<1>2. Len(queued) \in Nat /\ (queued = <<>> => Len(queued) = 0)
  BY DEF Typed, Types
<1>3. Len(queued') \in Nat /\ (Busy => Len(queued') <= Len(queued) + 1) /\ (~Busy => queued' = <<>>)
  <2>1. CASE ~up
    <3>1. queued' = queued /\ ~Busy /\ queued = <<>>
      BY <1>1, <2>1, SendsJobs DEF Typed, Flow
    <3> QED
      BY <1>2, <3>1
  <2>2. CASE up /\ ~Busy
    <3>1. queued' = <<>>
      BY <1>1, <2>2, SendsJobs DEF Typed
    <3> QED
      BY <2>2, <3>1
  <2>3. CASE up /\ Busy
    <3>1. Len(queued') = Len(queued) + 1
      BY <1>1, <2>3, SendsJobs DEF Typed
    <3> QED
      BY <1>2, <2>3, <3>1
  <2> QED
    BY <2>1, <2>2, <2>3
<1> QED
  BY <1>1, <1>2, <1>3 DEF Typed, Flow

LEMMA ScriptsBegin ==
  ASSUME Typed, Beginning
  PROVE  Scripts'
<1>1. queued' = <<>>
  BY TurnsProperly, SendsLength DEF Beginning, Fresh
<1>2. Len(queued') <= 1
  BY <1>1
<1>3. ASSUME NEW c \in Single, BeginsSingle(c)
      PROVE  Scripts'
  BY <1>2, <1>3, TurnsScript DEF BeginsSingle, Scripts
<1>4. CASE BeginsRegistering
  BY <1>1, <1>4, TurnsScript DEF BeginsRegistering, Scripts
<1>5. ASSUME NEW p \in SPs, BeginsAddSp(p)
      PROVE  Scripts'
  <2>1. PICK d: d = file[Root] \cup {p}
    OBVIOUS
  <2>2. AddsSp(p, d)' /\ d \in SUBSET SPs /\ IsFiniteSet(d)
    BY <1>5, <2>1, TurnsScript, FitsMore DEF BeginsAddSp, AddsSp
  <2> QED
    BY <1>1, <2>2 DEF Scripts
<1>6. ASSUME NEW p \in SPs, BeginsCutSp(p)
      PROVE  Scripts'
  <2>1. PICK d: d = file[Root] \ {p}
    OBVIOUS
  <2>2. CutsSp(p, d)' /\ d \in SUBSET SPs /\ IsFiniteSet(d)
    BY <1>6, <2>1, TurnsScript, FitsMore DEF BeginsCutSp, CutsSp, RootLists
  <2> QED
    BY <1>1, <2>2 DEF Scripts
<1>7. ASSUME NEW u \in TAs, NEW p \in SPs, BeginsAddTl(u, p)
      PROVE  Scripts'
  <2>1. PICK d: d = file[Sp(p)] \cup {u}
    OBVIOUS
  <2>2. AddsTl(u, p, d)' /\ d \in SUBSET TAs /\ IsFiniteSet(d)
    BY <1>7, <2>1, TurnsScript, FitsMore DEF BeginsAddTl, AddsTl
  <2> QED
    BY <1>1, <2>2 DEF Scripts
<1>8. ASSUME NEW u \in TAs, NEW p \in SPs, BeginsCutTl(u, p)
      PROVE  Scripts'
  <2>1. PICK d: d = file[Sp(p)] \ {u}
    OBVIOUS
  <2>2. CutsTl(u, p, d)' /\ d \in SUBSET TAs /\ IsFiniteSet(d)
    BY <1>8, <2>1, TurnsScript, FitsMore DEF BeginsCutTl, CutsTl, SpLists
  <2> QED
    BY <1>1, <2>2 DEF Scripts
<1> QED
  BY <1>3, <1>4, <1>5, <1>6, <1>7, <1>8 DEF Beginning

LEMMA SinglesAre ==
  /\ CleanupRoot \in Single
  /\ \A u \in TAs, p \in SPs: CleanupTrustlet(u, p) \in Single
  /\ \A d \in SUBSET SPs: IsFiniteSet(d) => Store(Root, d) \in Single
  /\ \A p \in SPs, d \in SUBSET TAs: IsFiniteSet(d) => Store(Sp(p), d) \in Single
<1>1. \A f \in Files, c \in Says: Fits(f, c) => Store(f, c) \in Single
  BY DEF Single
<1>2. CleanupRoot \in {CleanupRoot}
  OBVIOUS
<1>3. CleanupRoot \in Single
  BY <1>2 DEF Single
<1>4. {CleanupTrustlet(u, p): u \in TAs, p \in SPs} \subseteq Single
  BY DEF Single
<1> QED
  BY <1>1, <1>3, <1>4, FilesAre, FitsAlways DEF Says

LEMMA ScriptsGoOn ==
  ASSUME Typed, client.answer # "none", GoingOn
  PROVE  Scripts'
<1>1. \A q: q = Len(queued') \/ q = Len(queued) => q \in Nat
  BY TurnsProperly, SendsLength
<1>2. /\ Len(queued') <= Len(queued) + 1
      /\ ~Busy => queued' = <<>>
      /\ queued = <<>> => Len(queued) = 0
  BY TurnsProperly, SendsLength
<1>3. client.answer = "ok" => queued' = <<>>
  BY <1>2 DEF Typed, Flow
<1>4. queued = <<>> => Len(queued') <= 1
  BY <1>1, <1>2
<1>5. queued' = <<>> => Len(queued') <= 1
  OBVIOUS
<1>6. ASSUME NEW c \in Single, NEW r \in BOOLEAN, Script(<<c>>, r, <<>>)', Len(queued') <= 1
      PROVE  Scripts'
  BY <1>6 DEF Scripts
<1>7. CASE GoesReading
  BY <1>3, <1>7, TurnsScript DEF GoesReading, Scripts
<1>8. CASE GoesDeleting
  <2>1. client.answer \in Answered
    BY DEF Typed, Types, Clients, Answered
  <2> QED
    BY <1>4, <1>8, <2>1, TurnsScript DEF GoesDeleting, Scripts
<1>9. ASSUME NEW a \in Answered, GoesRecovering(a)
      PROVE  Scripts'
  <2>1. Len(queued') <= 2 /\ Script(Recovery(a), FALSE, <<>>)'
    <3>1. Len(queued) \in Nat /\ Len(queued') \in Nat
      BY <1>1
    <3>2. Len(queued) <= 1 /\ Turns(Recovery(a), FALSE, <<>>)
      BY <1>9 DEF GoesRecovering
    <3>3. Len(queued') <= 2
      BY <1>2, <3>1, <3>2
    <3> QED
      BY <3>2, <3>3, TurnsScript
  <2> QED
    BY <2>1 DEF Scripts
<1>10. ASSUME NEW a \in Answered, GoesCleaning(a)
       PROVE  Scripts'
  BY <1>3, <1>5, <1>6, <1>10, SinglesAre, TurnsScript DEF GoesCleaning
<1>11. ASSUME NEW p \in SPs, NEW d \in SUBSET SPs, IsFiniteSet(d),
              queued = <<>>, GoesAddSp(p, d)
       PROVE  Scripts'
  BY <1>3, <1>5, <1>6, <1>11, SinglesAre, TurnsScript DEF GoesAddSp
<1>12. ASSUME NEW p \in SPs, NEW d \in SUBSET SPs, IsFiniteSet(d),
              queued = <<>>, GoesCutSp(p, d)
       PROVE  Scripts'
  BY <1>4, <1>6, <1>12, SinglesAre, TurnsScript DEF GoesCutSp
<1>13. ASSUME NEW u \in TAs, NEW p \in SPs, NEW d \in SUBSET TAs, IsFiniteSet(d),
              queued = <<>>, GoesAddTl(u, p, d)
       PROVE  Scripts'
  <2>1. LinksTl(u, p, d)'
    BY <1>13, TurnsScript DEF GoesAddTl, LinksTl
  <2> QED
    BY <1>3, <1>13, <2>1 DEF GoesAddTl, Scripts
<1>14. ASSUME NEW u \in TAs, NEW p \in SPs, NEW d \in SUBSET TAs, IsFiniteSet(d),
              queued = <<>>, GoesUndoing(u, p, d)
       PROVE  Scripts'
  BY <1>4, <1>6, <1>14, SinglesAre, TurnsScript DEF GoesUndoing
<1>15. ASSUME NEW u \in TAs, NEW p \in SPs, NEW d \in SUBSET TAs, IsFiniteSet(d),
              queued = <<>>, GoesCutTl(u, p, d)
       PROVE  Scripts'
  BY <1>4, <1>6, <1>15, SinglesAre, TurnsScript DEF GoesCutTl
<1> QED
  BY <1>7, <1>8, <1>9, <1>10, <1>11, <1>12, <1>13, <1>14, <1>15 DEF GoingOn

\* Which jobs are waited for.
LEMMA FlowTurns ==
  ASSUME Typed, NEW steps, NEW regardless, NEW undo, Turns(steps, regardless, undo),
         Proper(steps, undo), ~Waiting, up' = up, client = NoCommand => up
  PROVE  Flow'
<1>1. Sends(Head(steps)) /\ Head(steps) \in Commandos /\ Head(steps) # <<>> /\ steps # <<>>
  BY DEF Turns, Proper, Commandos
<1> DEFINE new == [todo |-> Head(steps), wanted |-> TRUE]
<1>2. client'.steps = steps /\ client'.answer = IF up THEN "none" ELSE "lost"
  BY DEF Turns
<1>3. job \in Jobs /\ queued \in Seq(Jobs) /\ ~job.wanted /\ \A i \in DOMAIN queued: ~queued[i].wanted
  BY DEF Typed, Types, Flow, Jobs
<1>4. CASE ~up
  <2>1. job' = job /\ queued' = queued /\ ~Busy
    BY <1>1, <1>4, SendsJobs DEF Typed, Flow
  <2> QED
    BY <1>1, <1>2, <1>3, <1>4, <2>1 DEF Typed, Flow, Waiting, Busy
<1>5. CASE up /\ ~Busy
  <2>1. job' = new /\ queued' = <<>>
    BY <1>1, <1>5, SendsJobs DEF Typed
  <2> QED
    BY <1>1, <1>2, <1>5, <2>1 DEF Flow, Waiting, Busy
<1>6. CASE up /\ Busy
  <2>1. /\ job' = job /\ Len(queued') = Len(queued) + 1 /\ queued' \in Seq(Jobs)
        /\ \A i \in DOMAIN queued: i \in DOMAIN queued' /\ queued'[i] = queued[i]
        /\ queued'[Len(queued')] = new
    BY <1>1, <1>6, SendsJobs DEF Typed
  <2>2. Waiting' /\ Busy'
    BY <1>1, <1>2, <1>6, <2>1 DEF Waiting, Busy
  <2>3. ASSUME NEW i \in DOMAIN queued'
        PROVE  queued'[i].todo # <<>> /\ (queued'[i].wanted => i = Len(queued'))
    <3>1. i \in DOMAIN queued \/ i = Len(queued')
      BY <1>3, <2>1
    <3> QED
      BY <1>1, <1>3, <2>1, <3>1 DEF Typed, Flow
  <2>4. queued' # <<>>
    BY <1>3, <2>1
  <2> QED
    BY <1>1, <1>2, <1>3, <1>6, <2>1, <2>2, <2>3, <2>4 DEF Flow
<1> QED
  BY <1>4, <1>5, <1>6

LEMMA FlowUnwanted ==
  ASSUME Typed, Unwanted, up' = up, ~Waiting',
         client'.answer \in {"none", "lost"}, client'.answer # "none" => client'.steps # <<>>
  PROVE  Flow'
<1>1. /\ queued' \in Seq(Jobs) /\ Len(queued') = Len(queued)
      /\ job'.todo = job.todo /\ ~job'.wanted
      /\ \A i \in DOMAIN queued': /\ i \in DOMAIN queued /\ ~queued'[i].wanted
                                  /\ queued'[i].todo = queued[i].todo
  BY UnwantedJobs DEF Typed
<1>2. queued = <<>> => queued' = <<>>
  BY <1>1, EmptySeq, LenProperties
<1> QED
  BY <1>1, <1>2 DEF Typed, Flow, Busy

LEMMA FlowEnds ==
  ASSUME Typed, Busy, up, up' = up, NEW code \in {"ok", "error"}, Answers(code)
  PROVE  Flow'
<1>1. /\ client'.steps = client.steps
      /\ client'.answer = IF job.wanted THEN code ELSE client.answer
  BY EndsJobs DEF Typed
<1>2. CASE queued = <<>>
  <2>1. job' = NoJob /\ queued' = <<>>
    BY <1>2, EndsJobs DEF Typed
  <2> QED
    BY <1>1, <1>2, <2>1 DEF Typed, Flow, Waiting, Busy, NoJob
<1>3. CASE queued # <<>>
  <2>1. /\ job' = queued[1] /\ Len(queued') = Len(queued) - 1 /\ queued' \in Seq(Jobs)
        /\ \A i \in DOMAIN queued': i + 1 \in DOMAIN queued /\ queued'[i] = queued[i + 1]
    BY <1>3, EndsJobs DEF Typed
  <2>2. queued \in Seq(Jobs) /\ Len(queued) \in Nat /\ Len(queued) > 0 /\ 1 \in DOMAIN queued
    BY <1>3, EmptySeq, LenProperties DEF Typed, Types
  <2>3. ~job.wanted /\ client'.answer = client.answer /\ (Waiting' <=> Waiting)
    BY <1>1, <1>3 DEF Typed, Flow, Waiting
  <2>4. Busy' /\ queued[1].todo # <<>>
    BY <2>1, <2>2 DEF Typed, Flow, Busy
  <2>5. job'.wanted => queued' = <<>> /\ Waiting'
    <3>1. job'.wanted => Len(queued') = 0 /\ Waiting
      BY <2>1, <2>2 DEF Typed, Flow
    <3> QED
      BY <2>1, <2>3, <3>1, EmptySeq, LenProperties
  <2>6. \A i \in DOMAIN queued': /\ queued'[i].todo # <<>>
                                 /\ queued'[i].wanted => i = Len(queued') /\ Waiting'
    <3>1. SUFFICES ASSUME NEW i \in DOMAIN queued'
                   PROVE  /\ queued'[i].todo # <<>>
                          /\ queued'[i].wanted => i = Len(queued') /\ Waiting'
      OBVIOUS
    <3>2. i + 1 \in DOMAIN queued /\ queued'[i] = queued[i + 1] /\ i \in Nat
      BY <2>1
    <3>3. queued[i + 1].wanted => i + 1 = Len(queued) /\ Waiting
      BY <3>2 DEF Typed, Flow
    <3>4. queued[i + 1].todo # <<>>
      BY <3>2 DEF Typed, Flow
    <3> QED
      BY <2>1, <2>2, <2>3, <3>2, <3>3, <3>4
  <2>7. Waiting' => (IF queued' = <<>> THEN job' ELSE queued'[Len(queued')]).wanted
    <3>1. ASSUME Waiting
          PROVE  queued[Len(queued)].wanted
      BY <1>3, <3>1 DEF Typed, Flow
    <3>2. CASE queued' = <<>>
      <4>1. Len(queued) = 1
        BY <2>1, <2>2, <3>2
      <4> QED
        BY <2>1, <2>3, <3>1, <3>2, <4>1
    <3>3. CASE queued' # <<>>
      <4>1. Len(queued') \in DOMAIN queued'
        BY <2>1, <3>3, EmptySeq, LenProperties
      <4>2. queued'[Len(queued')] = queued[Len(queued)]
        BY <2>1, <2>2, <4>1
      <4> QED
        BY <2>3, <3>1, <3>3, <4>2
    <3> QED
      BY <3>2, <3>3
  <2>8. client'.answer \notin {"ok", "error"} /\ (client'.answer # "none" => client'.steps # <<>>)
    BY <1>1, <2>3 DEF Typed, Flow
  <2> QED
    BY <2>4, <2>5, <2>6, <2>7, <2>8 DEF Flow
<1> QED
  BY <1>2, <1>3

LEMMA AtMostTwo ==
  ASSUME Typed
  PROVE  Len(queued) \in Nat /\ Len(queued) <= 2
<1>1. Len(queued) \in Nat
  BY DEF Typed, Types
<1>2. \/ queued = <<>> \/ Len(queued) <= 1 \/ Len(queued) <= 2
  BY DEF Typed, Scripts
<1>3. queued = <<>> => Len(queued) = 0
  OBVIOUS
<1> QED
  BY <1>1, <1>2, <1>3

LEMMA TypedSteps ==
  ASSUME Typed, RenameOnce, [Next]_vars
  PROVE  Typed'
<1>1. Types' /\ FilesFit' /\ TodosSound'
  BY SoundSteps
<1> SUFFICES Scripts' /\ Flow'
  BY <1>1 DEF Typed
<1>2. queued \in Seq(Jobs) /\ queued' \in Seq(Jobs) /\ Len(queued) \in Nat
  BY <1>1 DEF Typed, Types
<1>3. Waiting => client # NoCommand /\ client.answer = "none" /\ client.steps # <<>>
  BY DEF Waiting, NoCommand
<1>4. ASSUME Beginning \/ GoingOn, ~Waiting, up' = up, client = NoCommand => up
      PROVE  Flow'
  BY <1>4, FlowTurns, TurnsProperly
<1>5. CASE Beginnings
  <2>1. ~Waiting /\ up /\ up' = up
    BY <1>3, <1>5 DEF Beginnings, Beginning, Fresh
  <2> QED
    BY <1>4, <1>5, <2>1, ScriptsBegin DEF Beginnings
<1>6. CASE Continuing
  <2>1. ~Waiting /\ up' = up /\ client # NoCommand
    BY <1>3, <1>6 DEF Continuing, NoCommand
  <2>2. CASE GoingOn
    BY <1>4, <1>6, <2>1, <2>2, ScriptsGoOn DEF Continuing
  <2>3. CASE Dismisses
    <3>1. client' = NoCommand /\ job' = job /\ queued' = queued /\ up' = up
      BY <1>6, <2>3 DEF Dismisses, Continuing
    <3>2. Scripts'
      <4>1. Len(queued) <= 2
        BY AtMostTwo
      <4> QED
        BY <3>1, <4>1 DEF Scripts
    <3>3. Flow'
      BY <2>1, <3>1 DEF Typed, Flow, Waiting, Busy, NoCommand
    <3> QED
      BY <3>2, <3>3
  <2> QED
    BY <1>6, <2>2, <2>3 DEF Continuing
<1>7. CASE TimeOut
  <2>1. /\ client' = [client EXCEPT !.answer = "lost"] /\ up' = up /\ Unwanted
        /\ Waiting /\ client \in Clients
    BY <1>7 DEF TimeOut, Typed, Types
  <2>2. /\ client'.steps = client.steps /\ client'.regardless = client.regardless
        /\ client'.undo = client.undo /\ client'.answer = "lost"
    BY <2>1 DEF Clients
  <2>3. Len(queued') <= Len(queued)
    BY <1>2, <2>1, UnwantedJobs DEF Typed
  <2>4. Scripts'
    BY <1>2, <1>3, <2>1, <2>2, <2>3, ScriptsStay
  <2>5. Flow'
    BY <1>3, <2>1, <2>2, FlowUnwanted DEF Waiting
  <2> QED
    BY <2>4, <2>5
<1>8. CASE RootPADies
  <2>1. client' = NoCommand /\ up' = up /\ Unwanted
    BY <1>8 DEF RootPADies
  <2>2. Len(queued') = Len(queued)
    BY <2>1, UnwantedJobs DEF Typed
  <2>3. Len(queued) <= 2
    BY AtMostTwo
  <2>4. Flow'
    BY <2>1, FlowUnwanted DEF NoCommand, Waiting
  <2> QED
    BY <2>1, <2>2, <2>3, <2>4 DEF Scripts
<1>9. CASE Executing
  <2>1. JobStep /\ up /\ Busy /\ up' = up
    BY <1>9, ExecutesInPart DEF Executing, Typed
  <2>2. ASSUME NEW code \in {"ok", "error"}, Answers(code)
        PROVE  Scripts' /\ Flow'
    <3>1. /\ client'.steps = client.steps /\ client'.regardless = client.regardless
          /\ client'.undo = client.undo /\ Len(queued') <= Len(queued)
      BY <2>2, EndsJobs DEF Typed
    <3>2. client = NoCommand => client' = NoCommand
      <4>1. client = NoCommand => ~job.wanted
        BY <1>3 DEF Typed, Flow
      <4> QED
        BY <2>2, <4>1 DEF Answers
    <3> QED
      BY <1>2, <2>1, <2>2, <3>1, <3>2, ScriptsStay, FlowEnds
  <2>3. ASSUME NEW more, GoesOn(more), ~Answers("ok")
        PROVE  Scripts' /\ Flow'
    <3>1. /\ queued' = queued /\ client' = client
          /\ job'.wanted = job.wanted /\ job'.todo # <<>>
      BY <2>1, <2>3, GoesOnJobs DEF Typed
    <3>2. Scripts'
      BY <1>2, <3>1, ScriptsStay
    <3>3. Flow'
      BY <2>1, <3>1 DEF Typed, Flow, Waiting, Busy
    <3> QED
      BY <3>2, <3>3
  <2> QED
    BY <2>1, <2>2, <2>3 DEF JobStep
<1>10. CASE DaemonDies
  <2>1. /\ job' = NoJob /\ queued' = <<>> /\ up' = FALSE /\ client \in Clients
        /\ client' = IF Waiting THEN [client EXCEPT !.answer = "lost"] ELSE client
    BY <1>10 DEF DaemonDies, Typed, Types
  <2>2. /\ client'.steps = client.steps /\ client'.regardless = client.regardless
        /\ client'.undo = client.undo
        /\ client'.answer = IF Waiting THEN "lost" ELSE client.answer
    BY <2>1 DEF Clients
  <2>3. Scripts'
    <3>1. Len(queued') <= Len(queued)
      BY <1>2, <2>1
    <3> QED
      BY <1>2, <1>3, <2>1, <2>2, <3>1, ScriptsStay
  <2>4. Flow'
    BY <1>3, <2>1, <2>2 DEF Typed, Flow, Waiting, Busy, NoJob
  <2> QED
    BY <2>3, <2>4
<1>11. CASE DaemonStarts \/ UNCHANGED vars
  <2>1. job' = job /\ queued' = queued /\ client' = client /\ (up' = up \/ up' = TRUE)
    BY <1>11 DEF DaemonStarts, vars
  <2>2. Scripts'
    BY <1>2, <2>1, ScriptsStay
  <2>3. Flow'
    BY <2>1 DEF Typed, Flow, Waiting, Busy
  <2> QED
    BY <2>2, <2>3
<1> QED
  BY <1>5, <1>6, <1>7, <1>8, <1>9, <1>10, <1>11, Stepped

LEMMA TypedInit == Init => Typed
<1> SUFFICES ASSUME Init
             PROVE  Typed
  OBVIOUS
<1>1. file = [f \in Files |-> NONE] /\ listed = [f \in Files |-> {}] /\ job = NoJob /\ queued = <<>>
      /\ client = NoCommand /\ up = TRUE /\ failed = 0
  BY DEF Init
<1>2. Types
  <2>1. NoJob \in Jobs /\ NoCommand \in Clients /\ <<>> \in Seq(Jobs)
    BY DEF NoJob, Jobs, NoCommand, Clients
  <2>2. NONE \in Contents /\ {} \in Says
    BY SaysWhole DEF Contents, Broken
  <2>3. 0 \in 0..MaxFailures
    BY FailuresAssumption DEF FailuresAssumption
  <2> QED
    BY <1>1, <2>1, <2>2, <2>3 DEF Types
<1>3. FilesFit
  BY <1>1 DEF FilesFit
<1>4. TodosSound
  BY <1>1 DEF TodosSound, Slots, Todo, NoJob, Sound
<1>5. Scripts /\ Flow
  BY <1>1 DEF Scripts, Flow, NoCommand, NoJob, Busy, Waiting
<1> QED
  BY <1>2, <1>3, <1>4, <1>5 DEF Typed

-----------------------------------------------------------------------------
(* The token: a step of the daemon.                                        *)

\* What becomes of the jobs: all move up when one ends; the first one may start with
\* another task, which neither renames the token nor stores something else.
LEMMA JobsAfter ==
  ASSUME Typed, Executing
  PROVE  \E d \in {0, 1}: \A i \in Slots':
           \/ /\ i = 0 /\ ~Renames(Todo(i)')
              /\ \A f \in Containers \cup {Auth}: Stores1(Todo(i)', f) =>
                   /\ Stores1(job.todo, f) /\ job.todo[1][1] = "open"
                   /\ Todo(i)'[1][3] = job.todo[1][3]
           \/ i + d \in Slots /\ i + d # 0 /\ Todo(i)' = Todo(i + d)
<1>1. JobStep
  BY ExecutesInPart DEF Executing, Typed
<1>2. ~Renames(<<>>) /\ \A f: ~Stores1(<<>>, f)
  BY DEF Renames, Stores1
<1>3. ASSUME NEW code \in {"ok", "error"}, Answers(code)
      PROVE  \A i \in Slots':
               \/ /\ i = 0 /\ ~Renames(Todo(i)')
                  /\ \A f: ~Stores1(Todo(i)', f)
               \/ i + 1 \in Slots /\ i + 1 # 0 /\ Todo(i)' = Todo(i + 1)
  <2>1. \A i \in Slots': \/ i = 0 /\ Todo(i)' = <<>>
                         \/ i + 1 \in Slots /\ i + 1 \in DOMAIN queued /\ Todo(i)' = Todo(i + 1)
    BY <1>3, EndsJobs DEF Typed
  <2>2. \A i \in DOMAIN queued: i # 0
    BY DEF Typed, Types
  <2> QED
    BY <1>2, <2>1, <2>2
<1>4. ASSUME NEW more, GoesOn(more), Leads(more), ~Answers("ok")
      PROVE  \A i \in Slots':
           \/ /\ i = 0 /\ ~Renames(Todo(i)')
              /\ \A f \in Containers \cup {Auth}: Stores1(Todo(i)', f) =>
                   /\ Stores1(job.todo, f) /\ job.todo[1][1] = "open"
                   /\ Todo(i)'[1][3] = job.todo[1][3]
           \/ i + 0 \in Slots /\ i + 0 # 0 /\ Todo(i)' = Todo(i + 0)
  <2>1. /\ job'.todo = more \o Tail(job.todo) /\ job'.todo # <<>>
        /\ \A i \in Slots': i \in Slots /\ (i # 0 => Todo(i)' = Todo(i))
    BY <1>4, GoesOnJobs DEF Typed, Executing
  <2>2. job.todo \in Seq(Tasks) /\ job.todo # <<>> /\ more \in Seq(Tasks) /\ Sound(job.todo)
    BY <1>4, JobSound DEF Executing, GoesOn
  <2>3. ASSUME more # <<>>
        PROVE  \/ /\ job'.todo[1] = <<"fill", job.todo[1][2], job.todo[1][3]>>
                  /\ job.todo[1][1] = "open"
               \/ job'.todo[1][1] \in {"cleanSp", "cleanTl", "discard", "remove"}
    <3>1. job'.todo[1] = more[1]
      BY <2>1, <2>2, <2>3, FirstOf
    <3> QED
      BY <1>4, <2>3, <3>1 DEF Leads
  <2>4. ASSUME more = <<>>
        PROVE  Follows(job'.todo[1])
    BY <2>1, <2>2, <2>4, NextOf
  <2>5. \A i \in Slots': i # 0 => i \in Slots /\ Todo(i)' = Todo(i) /\ i + 0 = i
    BY <2>1 DEF Slots, Typed, Types
  <2>6. \A f \in Containers \cup {Auth}: \A u: f # Spid(u)
    BY FileNames, FilesAre
  <2>7. ~Renames(job'.todo)
    BY <2>3, <2>4 DEF Renames, Follows
  <2>8. \A f \in Containers \cup {Auth}: Stores1(job'.todo, f) =>
          /\ Stores1(job.todo, f) /\ job.todo[1][1] = "open" /\ job'.todo[1][3] = job.todo[1][3]
    BY <2>2, <2>3, <2>4, <2>6 DEF Stores1, Follows
  <2> QED
    BY <2>1, <2>5, <2>7, <2>8 DEF Todo
<1> QED
  BY <1>1, <1>3, <1>4 DEF JobStep

\* What becomes of the token's files.
LEMMA TokenFiles ==
  ASSUME Typed, Executing
  PROVE  /\ \/ file'[Auth] = file[Auth]
            \/ /\ Stores1(job.todo, Auth)
               /\ file'[Auth] = GARBAGE => Garbage(job.todo)
            \/ Renames(job.todo) /\ file'[Auth] = NONE
         /\ \/ file'[Backup] = file[Backup]
            \/ Renames(job.todo) /\ file'[Backup] = file[Auth]
<1>1. ASSUME Keep
      PROVE  file' = file
  BY <1>1 DEF Keep
<1>2. ASSUME NEW f \in Files, f # Auth, f # Backup, NEW c, SetFile(f, c)
      PROVE  file'[Auth] = file[Auth] /\ file'[Backup] = file[Backup]
  BY <1>2, FilesAre DEF SetFile, Typed, Types
<1>3. ASSUME NEW c, SetFile(Auth, c)
      PROVE  file'[Auth] = c /\ file'[Backup] = file[Backup]
  BY <1>3, FilesAre, FileNames DEF SetFile, Typed, Types
<1>4. EMPTY # GARBAGE /\ TORN # GARBAGE /\ NONE # GARBAGE
  BY BrokenDiffer
<1>5. ASSUME NEW f \in Files, NEW c \in Contents, Fits(f, c), Now(<<"open", f, c>>), ExecutesOpen(f, c)
      PROVE  \/ file' = file
             \/ /\ f # Auth /\ file'[Auth] = file[Auth] /\ file'[Backup] = file[Backup]
             \/ /\ Stores1(job.todo, Auth) /\ file'[Auth] = EMPTY /\ file'[Backup] = file[Backup]
  BY <1>1, <1>2, <1>3, <1>5, FitsWhat DEF ExecutesOpen, Now, Stores1, Executing, Busy
<1>6. ASSUME NEW f \in Files, NEW c \in Contents, Fits(f, c), Now(<<"fill", f, c>>), ExecutesFill(f, c)
      PROVE  \/ file' = file
             \/ /\ f # Auth /\ file'[Auth] = file[Auth] /\ file'[Backup] = file[Backup]
             \/ /\ Stores1(job.todo, Auth) /\ file'[Auth] \in {EMPTY, TORN, c}
                /\ job.todo[1][3] = c /\ file'[Backup] = file[Backup]
  BY <1>1, <1>2, <1>3, <1>6, FitsWhat DEF ExecutesFill, Now, Stores1, Executing, Busy
<1>7. ASSUME job.todo[1][1] = "rename", ExecutesRename
      PROVE  \/ file' = file
             \/ Renames(job.todo) /\ file'[Auth] = NONE /\ file'[Backup] = file[Auth]
  <2>1. Renames(job.todo)
    BY <1>7 DEF Renames, Executing, Busy
  <2> QED
    BY <1>1, <1>7, <2>1, FilesAre, FileNames DEF ExecutesRename, Typed, Types
<1>8. ASSUME NEW f \in Containers \cup BlobFiles, ExecutesRemove(f) \/ ExecutesDiscard(f)
      PROVE  \/ file' = file
             \/ /\ file'[Auth] = file[Auth] /\ file'[Backup] = file[Backup]
  BY <1>1, <1>2, <1>8, FilesAre DEF ExecutesRemove, ExecutesDiscard
<1>9. ASSUME \/ ExecutesRead \/ ExecutesRefuse \/ ExecutesCleanRoot
             \/ \E p \in SPs: ExecutesCleanSp(p)
             \/ \E u \in TAs, p \in SPs: ExecutesCleanTl(u, p)
      PROVE  file' = file
  BY <1>1, <1>9 DEF ExecutesRead, ExecutesRefuse, ExecutesCleanRoot, ExecutesCleanSp,
     ExecutesCleanTl, CleansNothing
<1> QED
  BY <1>4, <1>5, <1>6, <1>7, <1>8, <1>9 DEF Executing, Executes, Garbage

LEMMA ReadsAlone ==
  ASSUME Executes
  PROVE  /\ job.todo[1][1] = "read" => ExecutesRead
         /\ job.todo[1][1] = "rename" => ExecutesRename
BY DEF Executes, Now

LEMMA TokenExecutes ==
  ASSUME Typed, Token, Executing
  PROVE  Token'
<1>1. PICK d \in {0, 1}: \A i \in Slots':
           \/ /\ i = 0 /\ ~Renames(Todo(i)')
              /\ \A f \in Containers \cup {Auth}: Stores1(Todo(i)', f) =>
                   /\ Stores1(job.todo, f) /\ job.todo[1][1] = "open"
                   /\ Todo(i)'[1][3] = job.todo[1][3]
           \/ i + d \in Slots /\ i + d # 0 /\ Todo(i)' = Todo(i + d)
  BY JobsAfter
<1>2. 0 \in Slots /\ Todo(0) = job.todo /\ Slots \subseteq Nat /\ Slots' \subseteq Nat
  BY TypedSteps, SoundSteps DEF Slots, Todo, Typed, Types, Executing, Token
<1>3. JobStep /\ FailStep /\ up /\ Busy /\ up' = up /\ failed \in Nat /\ Executes
  BY ExecutesInPart, FailuresAssumption DEF Executing, Typed, Types, FailuresAssumption
<1>4. failed' \in Nat /\ failed <= failed'
  BY <1>3 DEF FailStep
<1>5. /\ client'.steps = client.steps /\ client'.undo = client.undo
      /\ \/ client' = client
         \/ /\ job.wanted /\ client.answer = "none" /\ queued = <<>> /\ Waiting
            /\ client'.answer \in {"ok", "error"} /\ Answers(client'.answer)
  <2>1. ASSUME NEW code \in {"ok", "error"}, Answers(code)
        PROVE  <1>5
    <3>1. job.wanted => queued = <<>> /\ Waiting /\ client.answer = "none"
      BY DEF Typed, Flow, Waiting
    <3>2. /\ client'.steps = client.steps /\ client'.undo = client.undo
          /\ client'.answer = IF job.wanted THEN code ELSE client.answer
      BY <2>1, EndsJobs DEF Typed
    <3>3. ~job.wanted => client' = client
      BY <2>1 DEF Answers
    <3> QED
      BY <2>1, <3>1, <3>2, <3>3
  <2>2. ASSUME NEW more, GoesOn(more), ~Answers("ok")
        PROVE  client' = client
    BY <1>3, <2>2, GoesOnJobs DEF Typed
  <2> QED
    BY <1>3, <2>1, <2>2 DEF JobStep
<1>6. TokenNeeded' <=> TokenNeeded
  BY <1>5 DEF TokenNeeded
<1>7. \A i \in Slots': Renames(Todo(i)') => i + d \in Slots /\ i + d # 0 /\ Todo(i)' = Todo(i + d)
  BY <1>1
<1>8. \A i \in Slots': Stores1(Todo(i)', Auth) =>
        \/ i = 0 /\ Stores1(Todo(0), Auth) /\ Todo(i)'[1][3] = Todo(0)[1][3]
        \/ i + d \in Slots /\ i + d # 0 /\ Todo(i)' = Todo(i + d)
  <2>1. Auth \in Containers \cup {Auth}
    OBVIOUS
  <2> QED
    BY <1>1, <1>2, <2>1
<1>9. \/ file'[Auth] = file[Auth]
      \/ Stores1(Todo(0), Auth) /\ (file'[Auth] = GARBAGE => Garbage(Todo(0)))
      \/ Renames(Todo(0)) /\ file'[Auth] = NONE
  BY <1>2, TokenFiles
<1>10. ASSUME file'[Auth] # file[Auth]
       PROVE  ~TokenNeeded /\ \A i \in Slots: i # 0 => ~Renames(Todo(i))
  <2>1. CASE Stores1(Todo(0), Auth)
    BY <1>2, <2>1 DEF Token, RenameOnce
  <2>2. CASE Renames(Todo(0))
    BY <1>2, <2>2 DEF Token, RenameOnce
  <2> QED
    BY <1>9, <1>10, <2>1, <2>2
<1>11. RenameOnce'
  <2>1. TokenNeeded' => file'[Auth] = {} /\ queued' = <<>>
    <3>1. ASSUME queued = <<>>
          PROVE  queued' = <<>>
      <4>1. ASSUME NEW code \in {"ok", "error"}, Answers(code)
            PROVE  queued' = queued
        BY <3>1, <4>1, EndsJobs DEF Typed
      <4>2. ASSUME NEW more, GoesOn(more), ~Answers("ok")
            PROVE  queued' = queued
        BY <1>3, <4>2, GoesOnJobs DEF Typed
      <4> QED
        BY <1>3, <3>1, <4>1, <4>2 DEF JobStep
    <3> QED
      BY <1>6, <1>10, <3>1 DEF Token, RenameOnce
  <2>2. ASSUME NEW i \in Slots', Renames(Todo(i)')
        PROVE  file'[Auth] = {} /\ ~TokenNeeded' /\ Len(Todo(i)') = 1
    BY <1>6, <1>7, <1>10, <2>2 DEF Token, RenameOnce
  <2>3. ASSUME NEW i \in Slots', Stores1(Todo(i)', Auth)
        PROVE  ~TokenNeeded'
    BY <1>2, <1>6, <1>8, <2>3 DEF Token, RenameOnce
  <2>4. ASSUME NEW i \in Slots', NEW j \in Slots', Renames(Todo(i)'), Renames(Todo(j)')
        PROVE  i = j
    <3>1. i + d = j + d
      BY <1>7, <2>4 DEF Token, RenameOnce
    <3> QED
      BY <1>2, <3>1
  <2>5. ASSUME NEW i \in Slots', NEW j \in Slots', Stores1(Todo(i)', Auth), Renames(Todo(j)')
        PROVE  j < i
    <3>1. j + d \in Slots /\ Renames(Todo(j + d)) /\ j + d # 0
      BY <1>7, <2>5
    <3>2. CASE i = 0 /\ Stores1(Todo(0), Auth)
      BY <1>2, <3>1, <3>2 DEF Token, RenameOnce
    <3>3. CASE i + d \in Slots /\ i + d # 0 /\ Todo(i)' = Todo(i + d)
      <4>1. j + d < i + d
        BY <2>5, <3>1, <3>3 DEF Token, RenameOnce
      <4> QED
        BY <1>2, <4>1
    <3> QED
      BY <1>8, <2>5, <3>2, <3>3
  <2> QED
    BY <2>1, <2>2, <2>3, <2>4, <2>5 DEF RenameOnce
<1>12. BackupIsToken'
  BY <1>2, TokenFiles DEF Token, BackupIsToken, RenameOnce
<1>13. ASSUME client.steps = Reading
       PROVE  /\ job.todo[1][1] = "read" /\ file[Auth] = {} /\ queued = <<>> /\ ExecutesRead
  BY <1>3, <1>13, ReadsAlone DEF Token, AtWork, RenameOnce, TokenNeeded
<1>14. AtWork'
  <2>1. client'.steps = Reading => ~Busy'
    <3>1. ASSUME client.steps = Reading
          PROVE  job' = NoJob
      BY <1>13, <3>1 DEF ExecutesRead, Answers
    <3> QED
      BY <1>5, <3>1 DEF Busy, NoJob
  <2>2. ASSUME client'.steps = Deleting, Waiting'
        PROVE  Renames(Todo(Len(queued)))'
    <3>1. client' = client /\ Waiting /\ client.steps = Deleting
      BY <1>5, <2>2 DEF Waiting
    <3>2. Renames(Todo(Len(queued)))
      BY <3>1 DEF Token, AtWork
    <3>3. ASSUME NEW code \in {"ok", "error"}, Answers(code)
          PROVE  Renames(Todo(Len(queued)))'
      <4>1. ~job.wanted
        <5>1. client'.answer = IF job.wanted THEN code ELSE client.answer
          BY <3>3, EndsJobs DEF Typed
        <5> QED
          BY <3>1, <3>3, <5>1 DEF Waiting
      <4>2. queued # <<>>
        BY <3>1, <4>1 DEF Typed, Flow
      <4>3. Len(queued') = Len(queued) - 1 /\ Len(queued) \in Nat /\ Len(queued) > 0
        BY <3>3, <4>2, EndsJobs, EmptySeq, LenProperties DEF Typed, Types
      <4>4. Len(queued') \in Slots'
        BY <4>3 DEF Slots
      <4>5. Todo(Len(queued))' = Todo(Len(queued') + 1)
        <5>1. \A i \in Slots': i = Len(queued') => Todo(i)' = Todo(i + 1)
          BY <3>3, <4>2, EndsJobs DEF Typed
        <5>2. PICK n: n = Len(queued')
          OBVIOUS
        <5>3. Todo(n)' = Todo(n + 1)
          BY <4>4, <5>1, <5>2
        <5>4. Todo(Len(queued))' = Todo(n)'
          BY <5>2 DEF Todo
        <5> QED
          BY <5>2, <5>3, <5>4
      <4> QED
        BY <3>2, <4>3, <4>5 DEF Renames
    <3>4. ASSUME NEW more, GoesOn(more), ~Answers("ok")
          PROVE  Renames(Todo(Len(queued)))'
      <4>1. queued' = queued /\ \A i \in Slots': i # 0 => Todo(i)' = Todo(i)
        BY <1>3, <3>4, GoesOnJobs DEF Typed
      <4>2. CASE queued # <<>>
        BY <3>2, <4>1, <4>2 DEF Todo, Renames, Typed, Types
      <4>3. CASE queued = <<>>
        <5>1. Renames(job.todo) /\ Len(job.todo) = 1
          BY <1>2, <3>2, <4>3 DEF Token, RenameOnce
        <5>2. ExecutesRename
          BY <1>3, <5>1, ReadsAlone DEF Renames
        <5>3. GoesOn(<<>>) \/ Answers("error")
          BY <5>2 DEF ExecutesRename
        <5>4. Answers("error") => ~Waiting'
          <6>1. job.wanted
            BY <3>1, <4>3 DEF Typed, Flow
          <6> QED
            BY <6>1, EndsJobs DEF Typed, Waiting
        <5>5. GoesOn(<<>>) => Answers("ok")
          BY <1>3, <5>1, EndsAlone DEF Typed
        <5> QED
          BY <2>2, <3>4, <5>3, <5>4, <5>5
      <4> QED
        BY <4>2, <4>3
    <3> QED
      BY <1>3, <3>3, <3>4 DEF JobStep
  <2> QED
    BY <2>1, <2>2 DEF AtWork
<1>15. NoGarbage'
  <2>1. file'[Auth] = GARBAGE => failed' >= 2
    <3>1. file'[Auth] = GARBAGE => failed >= 2
      BY <1>2, <1>9, BrokenDiffer DEF Token, NoGarbage
    <3> QED
      BY <1>3, <1>4, <3>1
  <2>2. ASSUME NEW i \in Slots', Garbage(Todo(i)')
        PROVE  failed' >= 2
    <3>1. failed >= 2
      BY <1>2, <1>8, <2>2 DEF Token, NoGarbage, Garbage
    <3> QED
      BY <1>3, <1>4, <3>1
  <2>3. client'.steps = Recovery("error") => failed' >= 2
    BY <1>3, <1>4, <1>5 DEF Token, NoGarbage
  <2>4. ASSUME client'.undo = Recovery("error")
        PROVE  failed' >= OneOrTwo' /\ client'.steps = Deleting
    <3>1. failed >= OneOrTwo /\ client.steps = Deleting /\ OneOrTwo \in {1, 2}
      BY <1>5, <2>4 DEF Token, NoGarbage, OneOrTwo
    <3>2. CASE client'.answer = client.answer \/ client'.answer = "ok"
      <4>1. OneOrTwo' = OneOrTwo \/ OneOrTwo' = 1
        BY <1>3, <3>2 DEF OneOrTwo
      <4> QED
        BY <1>3, <1>4, <1>5, <3>1, <4>1
    <3>3. CASE client'.answer # client.answer /\ client'.answer = "error"
      <4>1. job.wanted /\ queued = <<>> /\ Waiting /\ Answers("error")
        BY <1>5, <3>3
      <4>2. Renames(Todo(0))
        BY <3>1, <4>1 DEF Token, AtWork
      <4>3. ExecutesRename
        BY <1>2, <1>3, <4>2, ReadsAlone DEF Renames
      <4>4. Len(Todo(0)) = 1 /\ file[Auth] # NONE
        BY <1>2, <4>2, SaysWhole DEF Token, RenameOnce
      <4>5. ~Answers("ok")
        BY <4>1, EndsJobs, <3>3 DEF Typed
      <4>6. ~GoesOn(<<>>)
        BY <1>2, <1>3, <4>4, <4>5, EndsAlone DEF Typed
      <4>7. failed' = failed + 1
        BY <4>3, <4>4, <4>6 DEF ExecutesRename, Fails
      <4>8. OneOrTwo' \in {1, 2} /\ failed >= 1
        BY <1>3, <3>1 DEF OneOrTwo
      <4> QED
        BY <1>3, <1>5, <3>1, <4>7, <4>8
    <3> QED
      BY <1>5, <3>2, <3>3
  <2>5. ASSUME client'.steps = Reading, client'.answer = "error"
        PROVE  failed' >= IF up' THEN 1 ELSE 2
    <3>1. client' # client
      BY <1>3, <2>5 DEF Typed, Flow
    <3>2. Answers("error") /\ job.wanted
      BY <1>5, <2>5, <3>1
    <3>3. ~Answers("ok")
      BY <2>5, <3>2, EndsJobs DEF Typed
    <3>4. ExecutesRead /\ TokenSize(Auth)
      BY <1>5, <1>13, <2>5 DEF TokenSize
    <3>5. failed' = failed + 1
      BY <3>3, <3>4 DEF ExecutesRead, Fails
    <3> QED
      BY <1>3, <3>5
  <2> QED
    BY <2>1, <2>2, <2>3, <2>4, <2>5 DEF NoGarbage, Garbage, Stores1
<1> QED
  BY <1>11, <1>12, <1>14, <1>15 DEF Token

-----------------------------------------------------------------------------
(* The token: a step of RootPA.                                            *)

\* The kinds of the commands, and the lists of them that are about the token.
LEMMA TokenCommands ==
  /\ \A f, c: ~Renames(Store(f, c)) /\ \A g: Stores1(Store(f, c), g) => g = f
  /\ \A f, c: Store(f, c)[1][3] = c
  /\ \A u, p: /\ ~Renames(StoreTABlob(u, p)) /\ ~Renames(CleanupTrustlet(u, p))
              /\ ~Stores1(CleanupTrustlet(u, p), Auth) /\ ~Stores1(StoreTABlob(u, p), Auth)
  /\ \A p: ~Renames(CleanupSp(p)) /\ ~Stores1(CleanupSp(p), Auth)
  /\ \A c \in {CleanupRoot, Refused, ReadAuthToken}: ~Renames(c) /\ ~Stores1(c, Auth)
  /\ Renames(DeleteAuthToken) /\ ~Stores1(DeleteAuthToken, Auth) /\ Len(DeleteAuthToken) = 1
BY FileNames DEF Renames, Stores1, Store, StoreTABlob, CleanupTrustlet, CleanupSp, CleanupRoot,
   Refused, ReadAuthToken, DeleteAuthToken

LEMMA TokenLists ==
  /\ \A c, d: <<c, d>> # Registering /\ <<c>> # Registering /\ <<c>> # Reading
              /\ (<<c, d>> = Reading => c = ReadAuthToken)
              /\ (<<c>> = Deleting => c = DeleteAuthToken) /\ <<c, d>> # Deleting
  /\ \A a: /\ Recovery(a) \notin {Registering, Reading, Deleting, <<>>}
           /\ \A c: Recovery(a) # <<c>>
           /\ \A c, d: <<c, d>> = Recovery(a) => d = CleanupRoot
  /\ Registering \notin {Reading, Deleting} /\ Reading # Deleting
  /\ \A a \in Answered: Recovery(a) = Recovery("error") => a = "error"
  /\ \A a \in Answered: Garbage(Head(Recovery(a))) => a = "error"
  /\ \A a: ~Renames(Head(Recovery(a)))
<1>1. Registering \notin {Reading, Deleting} /\ Reading # Deleting
  <2>1. Len(Registering) = 3 /\ Len(Reading) = 2 /\ Len(Deleting) = 1
    BY DEF Registering, Reading, Deleting
  <2> QED
    BY <2>1
<1>2. \A c, d: /\ <<c, d>> # Registering /\ <<c>> # Registering /\ <<c>> # Reading
               /\ (<<c, d>> = Reading => c = ReadAuthToken)
               /\ (<<c>> = Deleting => c = DeleteAuthToken) /\ <<c, d>> # Deleting
  BY DEF Registering, Reading, Deleting
<1>3. \A a: \E c: Recovery(a) = <<c, CleanupRoot>> /\ Head(Recovery(a)) = c
                  /\ c \in {Store(Auth, {}), Store(Auth, GARBAGE), Refused}
                  /\ (Garbage(c) \/ c = Store(Auth, GARBAGE) => a = "error" \/ a \notin Answered)
  <2>1. \A c, d: Head(<<c, d>>) = c
    OBVIOUS
  <2>2. {} # GARBAGE
    BY SaysWhole
  <2>3. Store(Auth, {})[1][3] = {} /\ Store(Auth, GARBAGE)[1][3] = GARBAGE
        /\ ~Stores1(Refused, Auth) /\ Refused[1][1] # Store(Auth, GARBAGE)[1][1]
    BY TokenCommands DEF Store, Refused
  <2>4. ~Garbage(Store(Auth, {})) /\ ~Garbage(Refused)
        /\ Store(Auth, {}) # Store(Auth, GARBAGE) /\ Refused # Store(Auth, GARBAGE)
    BY <2>2, <2>3 DEF Garbage
  <2> SUFFICES ASSUME NEW a
               PROVE  \E c: Recovery(a) = <<c, CleanupRoot>> /\ Head(Recovery(a)) = c
                            /\ c \in {Store(Auth, {}), Store(Auth, GARBAGE), Refused}
                            /\ (Garbage(c) \/ c = Store(Auth, GARBAGE) => a = "error" \/ a \notin Answered)
    OBVIOUS
  <2>5. PICK c: /\ c = CASE a = "ok" -> Store(Auth, {}) [] a = "error" -> Store(Auth, GARBAGE)
                         [] OTHER -> Refused
    OBVIOUS
  <2>6. Recovery(a) = <<c, CleanupRoot>>
    BY <2>5 DEF Recovery
  <2>7. c \in {Store(Auth, {}), Store(Auth, GARBAGE), Refused}
        /\ (Garbage(c) \/ c = Store(Auth, GARBAGE) => a = "error")
    BY <2>4, <2>5
  <2> QED
    BY <2>1, <2>6, <2>7
<1>4. \A a: ~Renames(Head(Recovery(a)))
  BY <1>3, TokenCommands
<1>5. \A a: /\ Recovery(a) \notin {Registering, Reading, Deleting, <<>>}
            /\ \A c: Recovery(a) # <<c>>
            /\ \A c, d: <<c, d>> = Recovery(a) => d = CleanupRoot
  <2>1. Len(Registering) = 3 /\ Len(Deleting) = 1 /\ \A c, d: Len(<<c, d>>) = 2
        /\ Len(<<c>>) = 1 /\ Len(<<>>) = 0
    BY DEF Registering, Deleting
  <2>2. CleanupRoot # DeleteAuthToken
    BY DEF CleanupRoot, DeleteAuthToken
  <2>3. \A c, d, e, f: <<c, d>> = <<e, f>> => c = e /\ d = f
    OBVIOUS
  <2> QED
    BY <1>3, <2>1, <2>2, <2>3 DEF Reading
<1>6. \A a \in Answered: Recovery(a) = Recovery("error") => a = "error"
  <2>1. PICK c: Recovery("error") = <<c, CleanupRoot>> /\ c = Store(Auth, GARBAGE)
    BY DEF Recovery
  <2>2. \A d, e, f, g: <<d, e>> = <<f, g>> => d = f /\ e = g
    OBVIOUS
  <2> QED
    BY <1>3, <2>1, <2>2
<1>7. \A a \in Answered: Garbage(Head(Recovery(a))) => a = "error"
  BY <1>3
<1> QED
  BY <1>1, <1>2, <1>4, <1>5, <1>6, <1>7

\* RootPA turns to what is not about the token.
LEMMA TokenTurns ==
  ASSUME Typed, Token, NEW steps, NEW regardless, NEW undo, Turns(steps, regardless, undo),
         Head(steps) \in Commandos,
         steps \notin {Registering, Reading, Deleting}, ~Renames(Head(steps)),
         Garbage(Head(steps)) \/ steps = Recovery("error") => failed >= 2,
         undo # Recovery("error"), UNCHANGED <<file, up, failed>>
  PROVE  Token'
<1>1. Sends(Head(steps)) /\ client'.steps = steps /\ client'.undo = undo
  BY DEF Turns
<1>2. \A i \in Slots': \/ i \in Slots /\ Todo(i)' = Todo(i)
                       \/ i = Len(queued') /\ Todo(i)' = Head(steps)
  BY <1>1, SendsJobs DEF Typed
<1>3. \A i \in Slots': i <= Len(queued') /\ i \in Nat /\ Len(queued') \in Nat
  <2>1. Len(queued') \in Nat
    BY <1>1, SendsJobs DEF Typed
  <2> QED
    BY <2>1 DEF Slots
<1>4. ~TokenNeeded'
  BY <1>1 DEF TokenNeeded
<1>5. \A i \in Slots': Renames(Todo(i)') => i \in Slots /\ Todo(i)' = Todo(i)
  BY <1>2
<1>6. RenameOnce'
  <2>1. ASSUME NEW i \in Slots', NEW j \in Slots', Stores1(Todo(i)', Auth), Renames(Todo(j)')
        PROVE  j < i
    <3>1. CASE i \in Slots /\ Todo(i)' = Todo(i)
      BY <1>5, <2>1, <3>1 DEF Token, RenameOnce
    <3>2. CASE i = Len(queued') /\ Todo(i)' = Head(steps)
      <4>1. j # i
        BY <2>1, <3>2
      <4> QED
        BY <1>3, <3>2, <4>1
    <3> QED
      BY <1>2, <3>1, <3>2
  <2>2. \A i, j \in Slots': Renames(Todo(i)') /\ Renames(Todo(j)') => i = j
    BY <1>5 DEF Token, RenameOnce
  <2>3. \A i \in Slots': Renames(Todo(i)') => file'[Auth] = {} /\ Len(Todo(i)') = 1
    BY <1>5 DEF Token, RenameOnce
  <2> QED
    BY <1>4, <2>1, <2>2, <2>3 DEF RenameOnce
<1>7. BackupIsToken' /\ AtWork'
  BY <1>1 DEF Token, BackupIsToken, AtWork
<1>8. NoGarbage'
  <2>1. \A i \in Slots': Garbage(Todo(i)') => failed' >= 2
    BY <1>2 DEF Token, NoGarbage
  <2> QED
    BY <1>1, <2>1 DEF Token, NoGarbage, Garbage, Stores1
<1> QED
  BY <1>6, <1>7, <1>8 DEF Token

\* The jobs stay.
LEMMA TokenStays ==
  ASSUME Typed, Token, file' = file, Slots' = Slots \/ Slots' = {0},
         \A i \in Slots': Todo(i)' = Todo(i) \/ Todo(i)' = <<>>,
         failed' \in Nat, failed <= failed',
         TokenNeeded' => TokenNeeded /\ (queued = <<>> => queued' = <<>>),
         AtWork',
         client'.steps = Recovery("error") => client.steps = Recovery("error"),
         client'.undo = Recovery("error") => /\ client.undo = Recovery("error")
                                             /\ client'.steps = client.steps
                                             /\ failed >= OneOrTwo => failed' >= OneOrTwo',
         client'.steps = Reading /\ client'.answer = "error" =>
           /\ client.steps = Reading /\ client.answer = "error"
           /\ up' \/ ~up \/ failed < failed'
  PROVE  Token'
<1>1. failed \in Nat /\ 0 \in Slots
  BY FailuresAssumption DEF Typed, Types, Slots, FailuresAssumption
<1>2. ~Renames(<<>>) /\ \A f: ~Stores1(<<>>, f)
  BY DEF Renames, Stores1
<1>3. \A i \in Slots': i \in Slots
  BY <1>1
<1>4. RenameOnce'
  <2>1. \A i \in Slots': Renames(Todo(i)') \/ Stores1(Todo(i)', Auth) =>
          i \in Slots /\ Todo(i)' = Todo(i)
    BY <1>2, <1>3
  <2>2. \A i \in Slots': Renames(Todo(i)') => file'[Auth] = {} /\ ~TokenNeeded' /\ Len(Todo(i)') = 1
    BY <2>1 DEF Token, RenameOnce
  <2>3. \A i \in Slots': Stores1(Todo(i)', Auth) => ~TokenNeeded'
    BY <2>1 DEF Token, RenameOnce
  <2>4. \A i, j \in Slots': Renames(Todo(i)') /\ Renames(Todo(j)') => i = j
    BY <2>1 DEF Token, RenameOnce
  <2>5. \A i, j \in Slots': Stores1(Todo(i)', Auth) /\ Renames(Todo(j)') => j < i
    BY <2>1 DEF Token, RenameOnce
  <2>6. TokenNeeded' => file'[Auth] = {} /\ queued' = <<>>
    BY DEF Token, RenameOnce
  <2> QED
    BY <2>2, <2>3, <2>4, <2>5, <2>6 DEF RenameOnce
<1>5. NoGarbage'
  <2>1. \A i \in Slots': Garbage(Todo(i)') => failed' >= 2
    BY <1>1, <1>2, <1>3 DEF Token, NoGarbage, Garbage
  <2>2. file'[Auth] = GARBAGE \/ client'.steps = Recovery("error") => failed' >= 2
    BY <1>1 DEF Token, NoGarbage
  <2>3. client'.undo = Recovery("error") => failed' >= OneOrTwo' /\ client'.steps = Deleting
    BY DEF Token, NoGarbage
  <2>4. client'.steps = Reading /\ client'.answer = "error" => failed' >= IF up' THEN 1 ELSE 2
    BY <1>1 DEF Token, NoGarbage
  <2> QED
    BY <2>1, <2>2, <2>3, <2>4 DEF NoGarbage, Garbage, Stores1
<1> QED
  BY <1>4, <1>5 DEF Token, BackupIsToken

\* A command begins.
LEMMA TokenBegins ==
  ASSUME Typed, Token, Beginning, UNCHANGED <<file, up, failed>>
  PROVE  Token'
<1>1. \A c, d: Head(<<c>>) = c /\ Head(<<c, d>>) = c
  OBVIOUS
<1>2. \A u, p: <<CleanupTrustlet(u, p)>> # Recovery("error") /\ <<>> # Recovery("error")
  BY TokenLists
<1>3. ASSUME NEW c, NEW r, Turns(<<c>>, r, <<>>), c \in Commandos, ~Renames(c), ~Garbage(c)
      PROVE  Token'
  BY <1>1, <1>2, <1>3, TokenTurns, TokenLists, TokenCommands
<1>4. ASSUME NEW c, NEW d, NEW r, NEW undo, undo # Recovery("error"), Turns(<<c, d>>, r, undo),
             c \in Commandos, ~Renames(c), ~Garbage(c), c # ReadAuthToken, d # CleanupRoot
      PROVE  Token'
  BY <1>1, <1>4, TokenTurns, TokenLists
<1>5. \A f, c: /\ Store(f, c) # CleanupRoot
               /\ f # Auth \/ c = {} => ~Garbage(Store(f, c))
  BY TokenCommands, SaysWhole DEF Garbage, Store, CleanupRoot
<1>6. ASSUME NEW c \in Single, BeginsSingle(c)
      PROVE  Token'
  <2>1. ~Renames(c)
    BY <1>6, TokenCommands DEF BeginsSingle
  <2>2. ~Garbage(c)
    <3>1. \A u, p: ~Garbage(StoreTABlob(u, p)) /\ ~Garbage(CleanupRoot)
      BY TokenCommands DEF Garbage
    <3> QED
      BY <1>5, <1>6, <3>1, FileNames DEF BeginsSingle
  <2> QED
    BY <1>3, <1>6, <2>1, <2>2, CommandsSound DEF BeginsSingle
<1>12. \A f, c: f # Auth /\ Fits(f, c) =>
         /\ Store(f, c) \in Commandos /\ ~Renames(Store(f, c))
         /\ ~Garbage(Store(f, c)) /\ Store(f, c) # ReadAuthToken
  BY <1>5, TokenCommands, CommandsSound, NotRead
<1>13. \A u \in TAs, p \in SPs: \A c \in {CleanupTrustlet(u, p), CleanupSp(p)}:
         c \in Commandos /\ ~Renames(c) /\ ~Garbage(c) /\ c # ReadAuthToken
  BY TokenCommands, CommandsSound, NotRead DEF Garbage
<1>14. \A p \in SPs:
         CleanupSp(p) \in Commandos /\ ~Renames(CleanupSp(p)) /\ ~Garbage(CleanupSp(p))
         /\ CleanupSp(p) # ReadAuthToken
  BY TokenCommands, CommandsSound, NotRead DEF Garbage
<1>7. ASSUME NEW p \in SPs, BeginsAddSp(p)
      PROVE  Token'
  <2>1. PICK c, d: /\ c = Store(Sp(p), {}) /\ d = Store(Root, file[Root] \cup {p})
    OBVIOUS
  <2>2. Turns(<<c, d>>, FALSE, <<>>)
    BY <1>7, <2>1 DEF BeginsAddSp
  <2>3. c \in Commandos /\ ~Renames(c) /\ ~Garbage(c) /\ c # ReadAuthToken /\ d # CleanupRoot
    BY <1>5, <1>12, <2>1, FitsAlways, FileNames
  <2> QED
    BY <1>2, <1>4, <2>2, <2>3
<1>8. ASSUME NEW p \in SPs, BeginsCutSp(p)
      PROVE  Token'
  <2>1. PICK c, d: /\ c = CleanupSp(p) /\ d = Store(Root, file[Root] \ {p})
    OBVIOUS
  <2>2. Turns(<<c, d>>, TRUE, <<>>)
    BY <1>8, <2>1 DEF BeginsCutSp
  <2>3. c \in Commandos /\ ~Renames(c) /\ ~Garbage(c) /\ c # ReadAuthToken /\ d # CleanupRoot
    BY <1>5, <1>14, <2>1
  <2> QED
    BY <1>2, <1>4, <2>2, <2>3
<1>9. ASSUME NEW u \in TAs, NEW p \in SPs, BeginsAddTl(u, p)
      PROVE  Token'
  <2>1. PICK c, d: /\ c = Store(Tl(u, p), {}) /\ d = Store(Sp(p), file[Sp(p)] \cup {u})
    OBVIOUS
  <2>2. Turns(<<c, d>>, FALSE, <<CleanupTrustlet(u, p)>>)
    BY <1>9, <2>1 DEF BeginsAddTl
  <2>3. c \in Commandos /\ ~Renames(c) /\ ~Garbage(c) /\ c # ReadAuthToken /\ d # CleanupRoot
    BY <1>5, <1>12, <2>1, FitsAlways, FileNames
  <2> QED
    BY <1>2, <1>4, <2>2, <2>3
<1>10. ASSUME NEW u \in TAs, NEW p \in SPs, BeginsCutTl(u, p)
       PROVE  Token'
  <2>1. PICK c, d: /\ c = CleanupTrustlet(u, p) /\ d = Store(Sp(p), file[Sp(p)] \ {u})
    OBVIOUS
  <2>2. Turns(<<c, d>>, TRUE, <<>>)
    BY <1>10, <2>1 DEF BeginsCutTl
  <2>3. c \in Commandos /\ ~Renames(c) /\ ~Garbage(c) /\ c # ReadAuthToken /\ d # CleanupRoot
    BY <1>5, <1>13, <2>1
  <2> QED
    BY <1>2, <1>4, <2>2, <2>3
<1>11. CASE BeginsRegistering
  <2>1. /\ Turns(Registering, FALSE, <<>>) /\ file[Auth] = {} /\ up /\ ~Busy
        /\ Head(Registering) = Store(Root, {}) /\ Store(Root, {}) \in Commandos
    <3>1. IsWhole(Auth) => file[Auth] = {}
      BY FilesAre, SaysWhole, FitsWhat, FileNames DEF Typed, FilesFit, IsWhole
    <3>2. Head(Registering) = Store(Root, {})
      BY DEF Registering
    <3> QED
      BY <1>11, <3>1, <3>2, CommandsSound, FitsAlways DEF BeginsRegistering, Beginning, Fresh
  <2>2. /\ client'.steps = Registering /\ client'.undo = <<>> /\ client'.answer = "none"
        /\ job' = [todo |-> Store(Root, {}), wanted |-> TRUE] /\ queued' = <<>>
    BY <2>1, SendsJobs DEF Turns, Typed
  <2>3. Slots' = {0} /\ Todo(0)' = Store(Root, {})
    BY <2>2 DEF Slots, Todo
  <2>4. ~Renames(Todo(0)') /\ ~Stores1(Todo(0)', Auth)
    BY <2>3, TokenCommands, FileNames
  <2>5. RenameOnce'
    BY <2>1, <2>2, <2>3, <2>4 DEF RenameOnce, Renames, Stores1
  <2>6. AtWork' /\ BackupIsToken'
    BY <2>2, TokenLists DEF AtWork, Token, BackupIsToken
  <2>7. NoGarbage'
    BY <2>1, <2>2, <2>3, <2>4, TokenLists, SaysWhole DEF NoGarbage, Garbage, Stores1
  <2> QED
    BY <2>5, <2>6, <2>7 DEF Token
<1> QED
  BY <1>6, <1>7, <1>8, <1>9, <1>10, <1>11 DEF Beginning

\* A command goes on.
LEMMA TokenGoesOn ==
  ASSUME Typed, Token, client.answer # "none", GoingOn, UNCHANGED <<file, up, failed>>
  PROVE  Token'
<1>1. \A c, d: Head(<<c>>) = c /\ Head(<<c, d>>) = c
  OBVIOUS
<1>2. \A u, p: <<CleanupTrustlet(u, p)>> # Recovery("error") /\ <<>> # Recovery("error")
  BY TokenLists
<1>3. ASSUME NEW c, NEW r, NEW undo, undo # Recovery("error"), Turns(<<c>>, r, undo),
             c \in Commandos, ~Renames(c), ~Garbage(c)
      PROVE  Token'
  BY <1>1, <1>3, TokenTurns, TokenLists, TokenCommands
<1>4. \A f, c: f # Auth /\ Fits(f, c) =>
         Store(f, c) \in Commandos /\ ~Renames(Store(f, c)) /\ ~Garbage(Store(f, c))
  BY TokenCommands, CommandsSound DEF Garbage
<1>5. CleanupRoot \in Commandos /\ ~Renames(CleanupRoot) /\ ~Garbage(CleanupRoot)
  BY TokenCommands, CommandsSound DEF Garbage
<1>6. \A u \in TAs, p \in SPs:
         /\ CleanupTrustlet(u, p) \in Commandos /\ ~Renames(CleanupTrustlet(u, p))
         /\ ~Garbage(CleanupTrustlet(u, p))
  BY TokenCommands, CommandsSound DEF Garbage
<1>7. CASE GoesReading
  <2>1. /\ Turns(Reading, FALSE, <<>>) /\ file[Auth] = {} /\ queued = <<>> /\ ~Busy
        /\ Sends(ReadAuthToken)
    <3>1. Head(Reading) = ReadAuthToken
      BY DEF Reading
    <3>2. client.steps = Registering /\ client.answer = "ok"
      BY <1>7 DEF GoesReading, Script
    <3> QED
      BY <1>7, <3>1, <3>2 DEF GoesReading, Turns, Token, RenameOnce, TokenNeeded, Typed, Flow
  <2>2. client'.steps = Reading /\ client'.undo = <<>> /\ client'.answer \in {"none", "lost"}
    BY <2>1 DEF Turns
  <2>3. /\ queued' = <<>>
        /\ IF up THEN job' = [todo |-> ReadAuthToken, wanted |-> TRUE] ELSE job' = job
    BY <2>1, CommandsSound, SendsJobs DEF Typed
  <2>4. Slots' = {0} /\ Todo(0)' = IF up THEN ReadAuthToken ELSE <<>>
    BY <2>1, <2>3 DEF Slots, Todo, Busy
  <2>5. ~Renames(Todo(0)') /\ ~Stores1(Todo(0)', Auth)
    BY <2>4, TokenCommands DEF Renames, Stores1
  <2>6. RenameOnce'
    BY <2>1, <2>2, <2>3, <2>4, <2>5 DEF RenameOnce, Renames, Stores1
  <2>7. AtWork' /\ BackupIsToken'
    <3>1. Busy' => job'.todo[1][1] = "read"
      BY <2>1, <2>3 DEF Busy, ReadAuthToken
    <3> QED
      BY <2>2, <3>1, TokenLists DEF AtWork, Token, BackupIsToken
  <2>8. NoGarbage'
    BY <2>1, <2>2, <2>4, <2>5, TokenLists, SaysWhole DEF NoGarbage, Garbage, Stores1
  <2> QED
    BY <2>6, <2>7, <2>8 DEF Token
<1>8. CASE GoesDeleting
  <2>1. /\ Turns(Deleting, FALSE, Recovery(client.answer)) /\ file[Auth] = {} /\ queued = <<>>
        /\ Sends(DeleteAuthToken) /\ client.steps = Reading
        /\ \A i \in Slots: ~Renames(Todo(i)) /\ ~Stores1(Todo(i), Auth)
    <3>1. Head(Deleting) = DeleteAuthToken
      BY DEF Deleting
    <3>2. client.steps = Reading
      BY <1>8 DEF GoesDeleting, Script
    <3> QED
      BY <1>8, <3>1, <3>2 DEF GoesDeleting, Turns, Token, RenameOnce, TokenNeeded
  <2>2. /\ client'.steps = Deleting /\ client'.undo = Recovery(client.answer)
        /\ client'.answer = IF up THEN "none" ELSE "lost"
    BY <2>1 DEF Turns
  <2>3. /\ Len(queued') \in Nat
        /\ \A i \in Slots': \/ i \in Slots /\ Todo(i)' = Todo(i) /\ (up => i # Len(queued'))
                            \/ up /\ i = Len(queued') /\ Todo(i)' = DeleteAuthToken
    <3>1. PICK c \in Commandos: c = DeleteAuthToken /\ Sends(c)
      BY <2>1, CommandsSound
    <3>2. queued' \in Seq(Jobs)
      BY <3>1, SendsJobs DEF Typed
    <3>3. \A i \in Slots': \/ i \in Slots /\ Todo(i)' = Todo(i) /\ (up => i # Len(queued'))
                           \/ up /\ i = Len(queued') /\ Todo(i)' = c
      BY <3>1, SendsJobs DEF Typed
    <3> QED
      BY <3>1, <3>2, <3>3
  <2>4. \A i \in Slots': /\ ~Stores1(Todo(i)', Auth)
                         /\ Renames(Todo(i)') => i = Len(queued') /\ Todo(i)' = DeleteAuthToken
    BY <2>1, <2>3, TokenCommands
  <2>5. ~TokenNeeded'
    BY <2>2, TokenLists DEF TokenNeeded
  <2>6. RenameOnce'
    BY <2>1, <2>4, <2>5, TokenCommands DEF RenameOnce
  <2>7. AtWork'
    <3>1. Waiting' => up
      BY <2>2 DEF Waiting
    <3>2. up => Todo(Len(queued))' = DeleteAuthToken
      <4>1. PICK n: n = Len(queued')
        OBVIOUS
      <4>2. n \in Slots' /\ (up => Todo(n)' = DeleteAuthToken)
        BY <2>3, <4>1 DEF Slots
      <4>3. Todo(Len(queued))' = Todo(n)'
        BY <4>1 DEF Todo
      <4> QED
        BY <4>2, <4>3
    <3>3. up => Renames(Todo(Len(queued)))'
      BY <3>2 DEF Renames, DeleteAuthToken
    <3> QED
      BY <2>2, <3>1, <3>3, TokenLists DEF AtWork
  <2>8. NoGarbage'
    <3>1. client.answer \in Answered
      BY DEF Typed, Types, Clients, Answered
    <3>2. ASSUME Recovery(client.answer) = Recovery("error")
          PROVE  failed' >= OneOrTwo'
      <4>1. client.answer = "error"
        BY <3>1, <3>2, TokenLists
      <4>2. failed >= IF up THEN 1 ELSE 2
        BY <2>1, <4>1 DEF Token, NoGarbage
      <4> QED
        BY <2>2, <4>2 DEF OneOrTwo
    <3>3. \A i \in Slots': ~Garbage(Todo(i)')
      BY <2>4 DEF Garbage
    <3>4. client'.steps # Recovery("error") /\ client'.steps # Reading
      BY <2>2, TokenLists
    <3>5. file'[Auth] # GARBAGE
      BY <2>1, SaysWhole
    <3> QED
      BY <2>2, <3>2, <3>3, <3>4, <3>5 DEF NoGarbage, Garbage, Stores1
  <2> QED
    BY <2>6, <2>7, <2>8 DEF Token, BackupIsToken
<1>9. ASSUME NEW a \in Answered, GoesRecovering(a)
      PROVE  Token'
  <2>1. Turns(Recovery(a), FALSE, <<>>) /\ client.undo = Recovery(a) /\ client.answer # "ok"
    BY <1>9 DEF GoesRecovering, Script
  <2>2. a = "error" => failed >= 2
    BY <2>1 DEF Token, NoGarbage, OneOrTwo
  <2> QED
    BY <1>2, <2>1, <2>2, TokenTurns, TokenLists, CommandsSound
<1>10. ASSUME NEW a \in Answered, GoesCleaning(a)
       PROVE  Token'
  BY <1>2, <1>3, <1>5, <1>10 DEF GoesCleaning
<1>11. ASSUME NEW p \in SPs, NEW d \in SUBSET SPs, IsFiniteSet(d), GoesAddSp(p, d) \/ GoesCutSp(p, d)
       PROVE  Token'
  BY <1>2, <1>3, <1>4, <1>11, FitsAlways, FileNames DEF GoesAddSp, GoesCutSp
<1>12. ASSUME NEW u \in TAs, NEW p \in SPs, NEW d \in SUBSET TAs, IsFiniteSet(d),
              GoesAddTl(u, p, d) \/ GoesCutTl(u, p, d)
       PROVE  Token'
  BY <1>2, <1>3, <1>4, <1>12, FitsAlways, FileNames DEF GoesAddTl, GoesCutTl
<1>13. ASSUME NEW u \in TAs, NEW p \in SPs, NEW d, GoesUndoing(u, p, d)
       PROVE  Token'
  BY <1>2, <1>3, <1>6, <1>13 DEF GoesUndoing
<1> QED
  BY <1>7, <1>8, <1>9, <1>10, <1>11, <1>12, <1>13 DEF GoingOn

LEMMA TokenSteps ==
  ASSUME Typed, Token, [Next]_vars
  PROVE  Token'
<1>1. failed \in Nat /\ queued \in Seq(Jobs)
  BY FailuresAssumption DEF Typed, Types, FailuresAssumption
<1>2. CASE Beginnings
  BY <1>2, TokenBegins DEF Beginnings
<1>3. CASE Continuing
  <2>1. CASE GoingOn
    BY <1>3, <2>1, TokenGoesOn DEF Continuing
  <2>2. CASE Dismisses
    <3>1. client' = NoCommand /\ job' = job /\ queued' = queued
      BY <2>2 DEF Dismisses
    <3>2. client'.steps = <<>> /\ client'.undo = <<>>
      BY <3>1 DEF NoCommand
    <3>3. \A l \in {Registering, Reading, Deleting, Recovery("error")}: l # <<>>
      BY TokenLists DEF Registering, Reading, Deleting
    <3>4. Slots' = Slots /\ \A i \in Slots': Todo(i)' = Todo(i)
      BY <3>1 DEF Slots, Todo
    <3>5. AtWork' /\ ~TokenNeeded'
      BY <3>2, <3>3 DEF AtWork, TokenNeeded
    <3> QED
      BY <1>1, <1>3, <3>2, <3>3, <3>4, <3>5, TokenStays DEF Continuing
  <2> QED
    BY <1>3, <2>1, <2>2 DEF Continuing
<1>5. CASE TimeOut
  <2>1. /\ client'.steps = client.steps /\ client'.undo = client.undo /\ client'.answer = "lost"
        /\ client.answer = "none"
    BY <1>5 DEF TimeOut, Typed, Types, Clients, Waiting
  <2>2. Unwanted /\ file' = file /\ up' = up /\ failed' = failed + 1
    BY <1>5 DEF TimeOut, Fails
  <2>3. /\ Slots' = Slots /\ (\A i \in Slots': Todo(i)' = Todo(i)) /\ job'.todo = job.todo
        /\ Len(queued') = Len(queued) /\ queued' \in Seq(Jobs)
    BY <2>2, UnwantedJobs DEF Typed
  <2>4. queued = <<>> => queued' = <<>>
    BY <2>3, EmptySeq, LenProperties
  <2>5. AtWork'
    BY <2>1, <2>3 DEF AtWork, Waiting, Busy, Token
  <2>6. TokenNeeded' => TokenNeeded
    BY <2>1 DEF TokenNeeded
  <2>7. failed >= OneOrTwo => failed' >= OneOrTwo'
    BY <1>1, <2>1, <2>2 DEF OneOrTwo
  <2> QED
    BY <1>1, <2>1, <2>2, <2>3, <2>4, <2>5, <2>6, <2>7, TokenStays
<1>6. CASE RootPADies
  <2>1. client'.steps = <<>> /\ client'.undo = <<>>
    BY <1>6 DEF RootPADies, NoCommand
  <2>2. Unwanted /\ file' = file /\ up' = up /\ failed' = failed + 1
    BY <1>6 DEF RootPADies, Fails
  <2>3. Slots' = Slots /\ (\A i \in Slots': Todo(i)' = Todo(i))
    BY <2>2, UnwantedJobs DEF Typed
  <2>4. \A l \in {Registering, Reading, Deleting, Recovery("error")}: l # <<>>
    BY TokenLists DEF Registering, Reading, Deleting
  <2>5. AtWork' /\ ~TokenNeeded'
    BY <2>1, <2>4 DEF AtWork, TokenNeeded
  <2> QED
    BY <1>1, <2>1, <2>2, <2>3, <2>4, <2>5, TokenStays
<1>7. CASE Executing
  BY <1>7, TokenExecutes
<1>8. CASE DaemonDies
  <2>1. /\ client'.steps = client.steps /\ client'.undo = client.undo
        /\ client'.answer = IF Waiting THEN "lost" ELSE client.answer
    BY <1>8 DEF DaemonDies, Typed, Types, Clients
  <2>2. /\ up /\ up' = FALSE /\ job' = NoJob /\ queued' = <<>> /\ file' = file
        /\ failed' = failed + 1
    BY <1>8 DEF DaemonDies, Fails, Keep
  <2>3. Slots' = {0} /\ \A i \in Slots': Todo(i)' = <<>>
    BY <2>2 DEF Slots, Todo, NoJob
  <2>4. AtWork'
    <3>1. ~Busy' /\ ~Waiting'
      BY <2>1, <2>2 DEF Busy, NoJob, Waiting
    <3> QED
      BY <3>1 DEF AtWork
  <2>5. TokenNeeded' => TokenNeeded
    BY <2>1 DEF TokenNeeded
  <2>6. failed >= OneOrTwo => failed' >= OneOrTwo'
    BY <1>1, <2>2 DEF OneOrTwo
  <2>7. client'.steps = Reading /\ client'.answer = "error" => client.answer = "error"
    BY <2>1
  <2> QED
    BY <1>1, <2>1, <2>2, <2>3, <2>4, <2>5, <2>6, <2>7, TokenStays
<1>9. CASE DaemonStarts
  <2>1. up' = TRUE /\ file' = file /\ job' = job /\ queued' = queued /\ client' = client
        /\ failed' = failed
    BY <1>9 DEF DaemonStarts
  <2>2. Slots' = Slots /\ \A i \in Slots': Todo(i)' = Todo(i)
    BY <2>1 DEF Slots, Todo
  <2>3. AtWork' /\ (TokenNeeded' => TokenNeeded)
    BY <2>1 DEF AtWork, TokenNeeded, Token, Busy, Waiting, Todo
  <2>4. failed >= OneOrTwo => failed' >= OneOrTwo'
    BY <1>1, <2>1 DEF OneOrTwo
  <2> QED
    BY <1>1, <2>1, <2>2, <2>3, <2>4, TokenStays
<1>10. CASE UNCHANGED vars
  BY <1>10 DEF vars, Token, RenameOnce, BackupIsToken, AtWork, NoGarbage, TokenNeeded, Renames,
     Stores1, Garbage, OneOrTwo, Slots, Todo, Busy, Waiting
<1> QED
  BY <1>2, <1>3, <1>5, <1>6, <1>7, <1>8, <1>9, <1>10, Stepped

-----------------------------------------------------------------------------
(* The children: a step of the daemon.                                     *)

\* A container is listed anew when it has been stored.
LEMMA ListedAfter ==
  ASSUME Typed, Executing
  PROVE  \/ listed' = listed
         \/ \E f \in Files, c \in Contents:
              /\ Fits(f, c) /\ Now(<<"fill", f, c>>) /\ SetFile(f, c)
              /\ listed' = [listed EXCEPT ![f] = c]
<1>1. ASSUME NEW f, NEW c, SetFile(f, c)
      PROVE  listed' = IF Whole(c) THEN [listed EXCEPT ![f] = c] ELSE listed
  BY <1>1 DEF SetFile
<1>2. ~Whole(NONE) /\ ~Whole(EMPTY) /\ ~Whole(TORN)
  BY SaysWhole
<1>3. Keep => listed' = listed
  BY DEF Keep
<1>4. ASSUME NEW f \in Files, NEW c \in Contents, Fits(f, c), Now(<<"open", f, c>>), ExecutesOpen(f, c)
      PROVE  listed' = listed
  BY <1>1, <1>2, <1>3, <1>4 DEF ExecutesOpen
<1>5. ASSUME NEW f \in Files, NEW c \in Contents, Fits(f, c), Now(<<"fill", f, c>>), ExecutesFill(f, c)
      PROVE  \/ listed' = listed
             \/ SetFile(f, c) /\ listed' = [listed EXCEPT ![f] = c]
  BY <1>1, <1>2, <1>5 DEF ExecutesFill
<1>6. ASSUME \/ ExecutesRename \/ ExecutesRead \/ ExecutesRefuse \/ ExecutesCleanRoot
             \/ \E p \in SPs: ExecutesCleanSp(p)
             \/ \E u \in TAs, p \in SPs: ExecutesCleanTl(u, p)
             \/ \E f: ExecutesRemove(f) \/ ExecutesDiscard(f)
      PROVE  listed' = listed
  BY <1>1, <1>2, <1>3, <1>6 DEF ExecutesRename, ExecutesRead, ExecutesRefuse, ExecutesCleanRoot,
     ExecutesCleanSp, ExecutesCleanTl, CleansNothing, ExecutesRemove, ExecutesDiscard
<1> QED
  BY <1>4, <1>5, <1>6 DEF Executing, Executes

LEMMA ListedStays ==
  ASSUME Typed, Executing, ListedIsStored
  PROVE  ListedIsStored'
<1>1. SUFFICES ASSUME NEW f \in Parents, IsWhole(f)'
               PROVE  listed'[f] = file'[f]
  BY DEF ListedIsStored
<1>2. f \in Files /\ f \in Containers /\ f \notin {Auth, Backup}
  BY FilesAre
<1>3. FileStep
  BY ExecutesInPart DEF Executing, Typed
<1>4. CASE Keep
  BY <1>1, <1>4 DEF ListedIsStored, Keep, IsWhole
<1>5. ASSUME NEW g \in Files, NEW c, SetFile(g, c)
      PROVE  listed'[f] = file'[f]
  BY <1>1, <1>2, <1>5 DEF ListedIsStored, SetFile, IsWhole, Typed, Types
<1>6. CASE file' = [file EXCEPT ![Backup] = file[Auth], ![Auth] = NONE] /\ UNCHANGED listed
  BY <1>1, <1>2, <1>6 DEF ListedIsStored, IsWhole, Typed, Types
<1> QED
  BY <1>3, <1>4, <1>5, <1>6 DEF FileStep

\* A parent that is not being stored is listed as before.
LEMMA ListedKept ==
  ASSUME Typed, Executing, NEW f \in Parents, ~Stores1(job.todo, f)
  PROVE  listed'[f] = listed[f]
<1>1. ASSUME NEW g \in Files, NEW c, Now(<<"fill", g, c>>), listed' = [listed EXCEPT ![g] = c]
      PROVE  listed'[f] = listed[f]
  <2>1. g # f
    BY <1>1 DEF Now, Stores1, Executing, Busy
  <2> QED
    BY <1>1, <2>1, FilesAre DEF Typed, Types
<1> QED
  BY <1>1, ListedAfter

\* A child that is stored stays so while its parent is being stored.
LEMMA ChildKept ==
  ASSUME Typed, Executing, NEW f \in Parents, Stores1(job.todo, f), NEW c, Fits(f, c),
         NEW x \in c, ChildStored(f, x)
  PROVE  ChildStored(f, x)'
<1>1. /\ \A g \in Files: g # f => file'[g] = file[g]
      /\ f \in Files
  <2>1. ASSUME NEW g \in Files, NEW d \in Contents, Now(<<"open", g, d>>) \/ Now(<<"fill", g, d>>)
        PROVE  g = f
    BY <2>1 DEF Now, Stores1
  <2>2. ASSUME NEW g \in Files, NEW d, SetFile(g, d), g = f
        PROVE  \A h \in Files: h # f => file'[h] = file[h]
    BY <2>2 DEF SetFile, Typed, Types
  <2>3. job.todo[1][1] \in {"open", "fill"}
    BY DEF Stores1
  <2>4. ASSUME NEW g \in Files, NEW d \in Contents, Now(<<"open", g, d>>), ExecutesOpen(g, d)
        PROVE  \A h \in Files: h # f => file'[h] = file[h]
    BY <2>1, <2>2, <2>4 DEF ExecutesOpen, Keep
  <2>5. ASSUME NEW g \in Files, NEW d \in Contents, Now(<<"fill", g, d>>), ExecutesFill(g, d)
        PROVE  \A h \in Files: h # f => file'[h] = file[h]
    BY <2>1, <2>2, <2>5 DEF ExecutesFill, Keep
  <2> QED
    BY <2>3, <2>4, <2>5, FilesAre DEF Executing, Executes, Now
<1>2. CASE f = Root
  <2>1. Sp(x) \in Files /\ Sp(x) # f
    BY <1>2, FileNames, FilesAre, FitsWhat
  <2>2. IsWhole(Sp(x))
    BY <1>2, FileNames DEF ChildStored
  <2> QED
    BY <1>1, <1>2, <2>1, <2>2 DEF ChildStored, IsWhole
<1>3. ASSUME NEW p \in SPs, f = Sp(p)
      PROVE  ChildStored(f, x)'
  <2>1. x \in TAs /\ \A q \in SPs: Tl(x, q) \in Files /\ Tl(x, q) # f
    BY <1>3, FileNames, FilesAre, FitsWhat
  <2> QED
    BY <1>1, <1>3, <2>1, FileNames DEF ChildStored, IsWhole
<1> QED
  BY <1>2, <1>3 DEF Parents

LEMMA LinkedExecutes ==
  ASSUME Typed, Types', Children, Honest, Executing
  PROVE  Linked'
<1>1. PICK d \in {0, 1}: \A i \in Slots':
           \/ /\ i = 0 /\ ~Renames(Todo(i)')
              /\ \A f \in Containers \cup {Auth}: Stores1(Todo(i)', f) =>
                   /\ Stores1(job.todo, f) /\ job.todo[1][1] = "open"
                   /\ Todo(i)'[1][3] = job.todo[1][3]
           \/ i + d \in Slots /\ i + d # 0 /\ Todo(i)' = Todo(i + d)
  BY JobsAfter
<1>2. /\ 0 \in Slots /\ Todo(0) = job.todo /\ 0 \in Slots' /\ Todo(0)' = job'.todo
      /\ queued \in Seq(Jobs) /\ queued' \in Seq(Jobs)
      /\ \A i \in Slots: i # 0 => i \in DOMAIN queued /\ Todo(i) = queued[i].todo /\ i \in Nat
      /\ \A i \in DOMAIN queued': i \in Slots' /\ i # 0 /\ Todo(i)' = queued'[i].todo
      /\ \A i \in Slots': i \in Nat
  <2>1. Types /\ Types'
    BY DEF Typed
  <2> QED
    BY <2>1 DEF Slots, Todo, Types
<1>3. ASSUME NEW f \in Parents, NEW i \in Slots, i # 0, Stores1(Todo(i), f)
      PROVE  /\ Todo(i)[1][3] \subseteq listed[f]
             /\ \A j \in Slots: Stores1(Todo(j), f) => i = j
             /\ listed'[f] = listed[f]
  <2>1. Todo(i)[1][3] \subseteq listed[f] /\ \A j \in Slots: Stores1(Todo(j), f) => i = j
    BY <1>2, <1>3 DEF Children, Linked
  <2>2. ~Stores1(job.todo, f)
    BY <1>2, <1>3, <2>1
  <2> QED
    BY <2>1, <2>2, ListedKept
<1>4. ASSUME NEW f \in Parents, NEW i \in Slots', Stores1(Todo(i)', f)
      PROVE  \/ /\ i = 0 /\ Stores1(job.todo, f) /\ job.todo[1][1] = "open"
                /\ Todo(i)'[1][3] = job.todo[1][3]
             \/ i + d \in Slots /\ i + d # 0 /\ Todo(i)' = Todo(i + d) /\ Stores1(Todo(i + d), f)
  <2>1. f \in Containers \cup {Auth}
    BY FilesAre
  <2> QED
    BY <1>1, <1>4, <2>1
<1>5. ASSUME NEW f \in Parents, Stores1(job'.todo, f), NEW x \in job'.todo[1][3]
      PROVE  x \in listed'[f] \/ ChildStored(f, x)'
  <2>1. CASE Stores1(job.todo, f) /\ job.todo[1][1] = "open" /\ job'.todo[1][3] = job.todo[1][3]
    <3>1. x \in listed[f] \/ ChildStored(f, x)
      BY <1>5, <2>1 DEF Children, Linked
    <3>2. Fits(f, job.todo[1][3])
      BY <2>1, JobSound DEF Sound, Stores1, Executing
    <3>3. listed' = listed
      BY <2>1, ListedAfter DEF Now
    <3>4. x \in job.todo[1][3]
      BY <1>5, <2>1
    <3> QED
      BY <2>1, <3>1, <3>2, <3>3, <3>4, ChildKept
  <2>2. CASE 0 + d \in Slots /\ 0 + d # 0 /\ job'.todo = Todo(0 + d) /\ Stores1(Todo(0 + d), f)
    BY <1>3, <1>5, <2>2
  <2> QED
    BY <1>2, <1>4, <1>5, <2>1, <2>2
<1>6. ASSUME NEW i \in DOMAIN queued', NEW f \in Parents, Stores1(queued'[i].todo, f)
      PROVE  /\ queued'[i].todo[1][3] \subseteq listed'[f]
             /\ \A j \in Slots': Stores1(Todo(j)', f) => i = j
  <2>1. i \in Slots' /\ i # 0 /\ Stores1(Todo(i)', f) /\ Todo(i)' = queued'[i].todo
    BY <1>2, <1>6
  <2>2. i + d \in Slots /\ i + d # 0 /\ Todo(i)' = Todo(i + d) /\ Stores1(Todo(i + d), f)
    BY <1>4, <2>1
  <2>3. /\ Todo(i + d)[1][3] \subseteq listed[f] /\ listed'[f] = listed[f]
        /\ \A j \in Slots: Stores1(Todo(j), f) => i + d = j
    BY <1>3, <2>2
  <2>4. ASSUME NEW j \in Slots', Stores1(Todo(j)', f)
        PROVE  i = j
    <3>1. CASE j = 0 /\ Stores1(job.todo, f)
      BY <1>2, <2>2, <2>3, <3>1
    <3>2. CASE j + d \in Slots /\ Stores1(Todo(j + d), f)
      <4>1. i + d = j + d
        BY <2>3, <3>2
      <4> QED
        BY <1>2, <2>1, <2>4, <4>1
    <3> QED
      BY <1>4, <2>4, <3>1, <3>2
  <2> QED
    BY <2>1, <2>2, <2>3, <2>4
<1> QED
  BY <1>5, <1>6 DEF Linked

\* What one task makes of a command that stores the first child.
LEMMA StoresChildAfter ==
  ASSUME Typed, Executing, Token, NEW f \in Files \ {Backup}, queued = <<>>, StoresChild(f)
  PROVE  /\ queued' = <<>> /\ StoresChild(f)'
         /\ \A g \in Files: g # f => file'[g] = file[g] /\ listed'[g] = listed[g]
<1>1. /\ job.todo \in Seq(Tasks) /\ job.todo # <<>> /\ Len(job.todo) = 1
      /\ Stores1(job.todo, f) /\ job.todo[1][3] = {} /\ up
  BY JobSound DEF Executing, StoresChild
<1>2. \/ Now(<<"open", f, {}>>) /\ ExecutesOpen(f, {})
      \/ Now(<<"fill", f, {}>>) /\ ExecutesFill(f, {})
  <2>1. ASSUME NEW g, NEW c, NEW kind, Now(<<kind, g, c>>)
        PROVE  g = f /\ c = {} /\ kind \in {"open", "fill"}
    BY <1>1, <2>1 DEF Now, Stores1
  <2>2. job.todo[1][1] \in {"open", "fill"} /\ Executes
    BY <1>1 DEF Stores1, Executing
  <2>3. \/ \E g \in Files, c \in Contents: Now(<<"open", g, c>>) /\ ExecutesOpen(g, c)
        \/ \E g \in Files, c \in Contents: Now(<<"fill", g, c>>) /\ ExecutesFill(g, c)
    BY <2>2 DEF Executes, Now
  <2>4. ASSUME NEW g, NEW c, Now(<<"open", g, c>>), ExecutesOpen(g, c)
        PROVE  Now(<<"open", f, {}>>) /\ ExecutesOpen(f, {})
    <3>1. g = f /\ c = {}
      BY <2>1, <2>4
    <3> QED
      BY <2>4, <3>1
  <2>5. ASSUME NEW g, NEW c, Now(<<"fill", g, c>>), ExecutesFill(g, c)
        PROVE  Now(<<"fill", f, {}>>) /\ ExecutesFill(f, {})
    <3>1. g = f /\ c = {}
      BY <2>1, <2>5
    <3> QED
      BY <2>5, <3>1
  <2> QED
    BY <2>3, <2>4, <2>5
<1>3. /\ \A c: SetFile(f, c) => /\ \A g \in Files: g # f => file'[g] = file[g] /\ listed'[g] = listed[g]
                                /\ file'[f] = c
      /\ Keep => \A g \in Files: file'[g] = file[g] /\ listed'[g] = listed[g]
  BY DEF SetFile, Keep, Typed, Types
<1>4. ASSUME NEW code \in {"ok", "error"}, Answers(code)
      PROVE  /\ queued' = <<>> /\ ~Busy'
             /\ client'.answer = "ok" => code = "ok"
  <2>1. /\ queued' = queued /\ job' = NoJob
        /\ client'.answer = IF job.wanted THEN code ELSE client.answer
    BY <1>4, EndsJobs DEF Typed
  <2>2. client.answer # "ok"
    BY DEF Typed, Flow, Executing
  <2> QED
    BY <2>1, <2>2 DEF Busy, NoJob
<1>5. CASE Now(<<"open", f, {}>>) /\ ExecutesOpen(f, {})
  <2>1. CASE Fails("refused") /\ Keep /\ Answers("error")
    BY <1>3, <1>4, <2>1 DEF StoresChild
  <2>2. CASE SetFile(f, EMPTY) /\ GoesOn(<<<<"fill", f, {}>>>>)
    <3>1. PICK more: more = <<<<"fill", f, {}>>>> /\ GoesOn(more)
      BY <2>2
    <3>2. more # <<>> /\ Len(more) = 1 /\ more[1] = <<"fill", f, {}>> /\ more \in Seq(Tasks)
      BY <3>1 DEF GoesOn
    <3>3. /\ queued' = queued /\ client' = client
          /\ job'.todo # <<>> /\ job'.todo = more \o Tail(job.todo)
      BY <3>1, <3>2, GoesOnJobs DEF Typed, Executing
    <3>4. job'.todo[1] = more[1] /\ Len(job'.todo) = 1
      BY <1>1, <3>2, <3>3, FirstOf, ProceedOf
    <3>5. Stores1(job'.todo, f) /\ job'.todo[1][3] = {}
      BY <3>2, <3>3, <3>4 DEF Stores1
    <3>6. client'.answer # "ok"
      BY <3>3 DEF Typed, Flow, Executing
    <3> QED
      BY <1>3, <2>2, <3>3, <3>4, <3>5, <3>6 DEF StoresChild
  <2> QED
    BY <1>5, <2>1, <2>2 DEF ExecutesOpen
<1>6. CASE Now(<<"fill", f, {}>>) /\ ExecutesFill(f, {})
  <2>1. GoesOn(<<>>) => Answers("ok")
    BY <1>1, EndsAlone DEF Typed, Executing
  <2>2. CASE SetFile(f, {}) /\ GoesOn(<<>>)
    BY <1>3, <1>4, <2>1, <2>2 DEF StoresChild
  <2>3. ASSUME NEW c, SetFile(f, c), Fails("short"), Answers("error")
        PROVE  /\ queued' = <<>> /\ StoresChild(f)'
               /\ \A g \in Files: g # f => file'[g] = file[g] /\ listed'[g] = listed[g]
    BY <1>3, <1>4, <2>3 DEF StoresChild
  <2>4. ASSUME NEW c, SetFile(f, c), Fails("unnoticed"), GoesOn(<<>>)
        PROVE  /\ queued' = <<>> /\ StoresChild(f)'
               /\ \A g \in Files: g # f => file'[g] = file[g] /\ listed'[g] = listed[g]
    <3>1. ~Honest'
      BY <2>4, FailuresAssumption DEF Honest, Fails, Typed, Types, FailuresAssumption
    <3> QED
      BY <1>3, <1>4, <2>1, <2>4, <3>1 DEF StoresChild
  <2> QED
    BY <1>6, <2>2, <2>3, <2>4 DEF ExecutesFill
<1> QED
  BY <1>2, <1>5, <1>6

\* A clean-up leads to tasks of its kinds.
LEMMA RemovesAfter ==
  ASSUME Typed, Executing, queued = <<>>, NEW kinds, NEW fs, RemovesChild(kinds, fs),
         kinds \subseteq {"cleanSp", "cleanTl", "remove", "discard"},
         {"cleanTl", "remove", "discard"} \subseteq kinds,
         \A u \in TAs, p \in SPs: Tl(u, p) \in fs,
         "cleanSp" \in kinds => \A p \in SPs: Sp(p) \in fs
  PROVE  /\ queued' = <<>> /\ RemovesChild(kinds, fs)'
         /\ \A f \in Parents: listed'[f] = listed[f]
<1>1. /\ job.todo \in Seq(Tasks) /\ job.todo # <<>> /\ job.todo[1] \in Tasks /\ 1 \in DOMAIN job.todo
      /\ Executes
  BY JobSound DEF Executing
<1>2. job.todo[1][1] \in kinds
  BY <1>1 DEF RemovesChild
<1>3. \A f \in Parents: listed'[f] = listed[f]
  BY <1>2, ListedKept DEF Stores1
<1>4. ASSUME NEW code \in {"ok", "error"}, Answers(code)
      PROVE  queued' = <<>> /\ RemovesChild(kinds, fs)'
  <2>1. queued' = queued /\ job' = NoJob
    BY <1>4, EndsJobs DEF Typed
  <2> QED
    BY <2>1 DEF RemovesChild, NoJob
<1>5. ASSUME NEW more, GoesOn(more),
             \A i \in DOMAIN more: /\ more[i][1] \in kinds
                                   /\ more[i][1] = "remove" => more[i][2] \in fs
      PROVE  queued' = <<>> /\ RemovesChild(kinds, fs)'
  <2>1. CASE Answers("ok")
    BY <1>4, <2>1
  <2>2. CASE ~Answers("ok")
    <3>1. queued' = queued /\ job'.todo = more \o Tail(job.todo) /\ more \in Seq(Tasks)
      BY <1>5, <2>2, GoesOnJobs DEF Typed, Executing, GoesOn
    <3>2. PICK new: new = job'.todo
      OBVIOUS
    <3>3. \A i \in DOMAIN new: \/ i \in DOMAIN more /\ new[i] = more[i]
                               \/ \E k \in DOMAIN job.todo: new[i] = job.todo[k]
      <4>1. PICK t: t = job.todo
        OBVIOUS
      <4>2. \A i \in DOMAIN new: \/ i \in DOMAIN more /\ new[i] = more[i]
                                 \/ \E k \in DOMAIN t: new[i] = t[k]
        BY <1>1, <3>1, <3>2, <4>1, ProceedOf
      <4> QED
        BY <4>1, <4>2
    <3>4. \A i \in DOMAIN new: new[i][1] \in kinds /\ (new[i][1] = "remove" => new[i][2] \in fs)
      BY <1>5, <3>3 DEF RemovesChild
    <3> QED
      BY <3>1, <3>2, <3>4 DEF RemovesChild
  <2> QED
    BY <2>1, <2>2
<1>6. ASSUME GoesOn(<<>>)
      PROVE  queued' = <<>> /\ RemovesChild(kinds, fs)'
  BY <1>5, <1>6
<1>7. ASSUME NEW p \in SPs, Now(<<"cleanSp", p>>), ExecutesCleanSp(p)
      PROVE  queued' = <<>> /\ RemovesChild(kinds, fs)'
  <2>1. CASE CleansNothing(Sp(p))
    BY <1>4, <1>6, <2>1 DEF CleansNothing
  <2>2. ASSUME IsWhole(Sp(p)), NEW s \in Orders(file[Sp(p)]), GoesOn(SpTasks(s, p))
        PROVE  queued' = <<>> /\ RemovesChild(kinds, fs)'
    <3>1. Sp(p) \in fs
      BY <1>2, <1>7 DEF Now
    <3>2. \A i \in DOMAIN SpTasks(s, p):
            \/ SpTasks(s, p)[i] = <<"cleanTl", s[i], p>>
            \/ SpTasks(s, p)[i] = <<"remove", Sp(p)>>
      <4>1. PICK n \in Nat: /\ DOMAIN SpTasks(s, p) = 1..(n + 1)
                            /\ \A i \in 1..n: SpTasks(s, p)[i] = <<"cleanTl", s[i], p>>
                            /\ SpTasks(s, p)[n + 1] = <<"remove", Sp(p)>>
        BY <2>2, SpTasksAre
      <4>2. \A i \in 1..(n + 1): i \in 1..n \/ i = n + 1
        OBVIOUS
      <4> QED
        BY <4>1, <4>2
    <3>3. \A i \in DOMAIN SpTasks(s, p):
            /\ SpTasks(s, p)[i][1] \in {"cleanTl", "remove"}
            /\ SpTasks(s, p)[i][1] = "remove" => SpTasks(s, p)[i][2] \in fs
      BY <3>1, <3>2
    <3>4. PICK more: more = SpTasks(s, p)
      OBVIOUS
    <3> QED
      BY <1>5, <2>2, <3>3, <3>4
  <2> QED
    BY <1>7, <2>1, <2>2 DEF ExecutesCleanSp
<1>8. ASSUME NEW u \in TAs, NEW p \in SPs, ExecutesCleanTl(u, p)
      PROVE  queued' = <<>> /\ RemovesChild(kinds, fs)'
  <2>1. \A i \in DOMAIN TlTasks(u, p): /\ TlTasks(u, p)[i][1] \in kinds
                                       /\ TlTasks(u, p)[i][1] = "remove" => TlTasks(u, p)[i][2] \in fs
    BY DEF TlTasks
  <2>2. PICK more: more = <<<<"remove", Tl(u, p)>>>>
    OBVIOUS
  <2>3. \A i \in DOMAIN more: more[i][1] \in kinds /\ (more[i][1] = "remove" => more[i][2] \in fs)
    BY <2>2
  <2> QED
    BY <1>5, <1>8, <2>1, <2>2, <2>3 DEF ExecutesCleanTl
<1>9. ASSUME NEW f, ExecutesRemove(f)
      PROVE  queued' = <<>> /\ RemovesChild(kinds, fs)'
  BY <1>4, <1>6, <1>9 DEF ExecutesRemove
<1>10. ASSUME NEW f, ExecutesDiscard(f)
       PROVE  queued' = <<>> /\ RemovesChild(kinds, fs)'
  BY <1>6, <1>10 DEF ExecutesDiscard
<1> QED
  BY <1>1, <1>2, <1>3, <1>7, <1>8, <1>9, <1>10 DEF Executes, Now

LEMMA LinksNextExecutes ==
  ASSUME Typed, Token, Children, Executing
  PROVE  LinksNext'
<1>1. /\ client'.steps = client.steps /\ client'.regardless = client.regardless
      /\ client'.undo = client.undo
  <2>1. JobStep /\ Busy
    BY ExecutesInPart DEF Executing, Typed
  <2>2. ASSUME NEW more, GoesOn(more), ~Answers("ok")
        PROVE  client' = client
    BY <2>1, <2>2, GoesOnJobs DEF Typed
  <2> QED
    BY <2>1, <2>2, EndsJobs DEF JobStep, Typed
<1>2. \A s, r, u: Script(s, r, u)' => Script(s, r, u)
  BY <1>1 DEF Script
<1>3. /\ \A p, d: (AddsSp(p, d)' => AddsSp(p, d)) /\ (CutsSp(p, d)' => CutsSp(p, d))
      /\ \A u, p, d: (AddsTl(u, p, d)' => AddsTl(u, p, d)) /\ (CutsTl(u, p, d)' => CutsTl(u, p, d))
  BY <1>2 DEF AddsSp, CutsSp, AddsTl, CutsTl
<1>4. ASSUME NEW f \in Files \ {Backup}, queued = <<>>, StoresChild(f)
      PROVE  /\ queued' = <<>> /\ StoresChild(f)'
             /\ \A g \in Files: g # f => listed'[g] = listed[g]
  BY <1>4, StoresChildAfter
<1>5. ASSUME NEW p \in SPs, NEW d \in SUBSET SPs, AddsSp(p, d)'
      PROVE  AddingSp(p, d)'
  <2>1. AddingSp(p, d)
    BY <1>3, <1>5 DEF Children, LinksNext
  <2> QED
    BY <1>4, <2>1, FilesAre, FileNames DEF AddingSp
<1>6. ASSUME NEW u \in TAs, NEW p \in SPs, NEW d \in SUBSET TAs, AddsTl(u, p, d)'
      PROVE  AddingTl(u, p, d)'
  <2>1. AddingTl(u, p, d)
    BY <1>3, <1>6 DEF Children, LinksNext
  <2>2. Sp(p) \in Files /\ Sp(p) # Tl(u, p) /\ Tl(u, p) \in Files \ {Backup}
    BY FilesAre, FileNames
  <2> QED
    BY <1>4, <2>1, <2>2 DEF AddingTl
<1>7. Root \in Parents /\ \A p \in SPs: Sp(p) \in Parents
  BY DEF Parents
<1>8. ASSUME NEW p \in SPs, NEW d \in SUBSET SPs, CutsSp(p, d)'
      PROVE  CuttingSp(d)'
  <2>1. CuttingSp(d)
    BY <1>3, <1>8 DEF Children, LinksNext
  <2>2. /\ \A v \in TAs, q \in SPs: Tl(v, q) \in Containers \ {Root}
        /\ \A q \in SPs: Sp(q) \in Containers \ {Root}
    BY FileNames DEF Containers
  <2>3. /\ queued' = <<>> /\ listed'[Root] = listed[Root]
        /\ RemovesChild({"cleanSp", "cleanTl", "remove", "discard"}, Containers \ {Root})'
    <3>1. PICK kinds, fs: /\ kinds = {"cleanSp", "cleanTl", "remove", "discard"}
                          /\ fs = Containers \ {Root}
      OBVIOUS
    <3>2. queued' = <<>> /\ RemovesChild(kinds, fs)' /\ listed'[Root] = listed[Root]
      BY <1>7, <2>1, <2>2, <3>1, RemovesAfter DEF CuttingSp
    <3> QED
      BY <3>1, <3>2
  <2> QED
    BY <2>1, <2>3 DEF CuttingSp
<1>9. ASSUME NEW u \in TAs, NEW p \in SPs, NEW d \in SUBSET TAs, CutsTl(u, p, d)'
      PROVE  CuttingTl(p, d)'
  <2>1. CuttingTl(p, d)
    BY <1>3, <1>9 DEF Children, LinksNext
  <2>2. \A v \in TAs, q \in SPs: Tl(v, q) \in Containers \ Parents
    BY FileNames DEF Containers, Parents
  <2>3. /\ queued' = <<>> /\ listed'[Sp(p)] = listed[Sp(p)]
        /\ RemovesChild({"cleanTl", "remove", "discard"}, Containers \ Parents)'
    <3>1. PICK kinds, fs: /\ kinds = {"cleanTl", "remove", "discard"}
                          /\ fs = Containers \ Parents
      OBVIOUS
    <3>2. queued' = <<>> /\ RemovesChild(kinds, fs)' /\ listed'[Sp(p)] = listed[Sp(p)]
      BY <1>7, <2>1, <2>2, <3>1, RemovesAfter DEF CuttingTl
    <3> QED
      BY <3>1, <3>2
  <2> QED
    BY <2>1, <2>3 DEF CuttingTl
<1> QED
  BY <1>5, <1>6, <1>8, <1>9 DEF LinksNext

-----------------------------------------------------------------------------
(* The children: a step of RootPA.                                         *)

\* The commands that come in pairs.
PairSp(p, d) == <<Store(Sp(p), {}), Store(Root, d)>>
PairTl(u, p, d) == <<Store(Tl(u, p), {}), Store(Sp(p), d)>>
CutPairSp(p, d) == <<CleanupSp(p), Store(Root, d)>>
CutPairTl(u, p, d) == <<CleanupTrustlet(u, p), Store(Sp(p), d)>>
Paired(steps) == \/ \E p, d: steps \in {PairSp(p, d), CutPairSp(p, d)}
                 \/ \E u, p, d: steps \in {PairTl(u, p, d), CutPairTl(u, p, d)}

LEMMA PairsAre ==
  /\ \A p, d, q, e: PairSp(p, d) = PairSp(q, e) => p = q /\ d = e
  /\ \A p, d, q, e: CutPairSp(p, d) = CutPairSp(q, e) => p = q /\ d = e
  /\ \A u, p, d, v, q, e: PairTl(u, p, d) = PairTl(v, q, e) => u = v /\ p = q /\ d = e
  /\ \A u, p, d, v, q, e: CutPairTl(u, p, d) = CutPairTl(v, q, e) => u = v /\ p = q /\ d = e
  /\ \A p, d, q, e: PairSp(p, d) # CutPairSp(q, e)
  /\ \A p, d, v, q, e: PairSp(p, d) # PairTl(v, q, e) /\ PairSp(p, d) # CutPairTl(v, q, e)
  /\ \A p, d, v, q, e: CutPairSp(p, d) # PairTl(v, q, e) /\ CutPairSp(p, d) # CutPairTl(v, q, e)
  /\ \A u, p, d, v, q, e: PairTl(u, p, d) # CutPairTl(v, q, e)
<1>1. \A a, b, c, d: <<a, b>> = <<c, d>> => a = c /\ b = d
  OBVIOUS
<1>2. \A f, c, g, e: Store(f, c) = Store(g, e) => f = g /\ c = e
  <2> SUFFICES ASSUME NEW f, NEW c, NEW g, NEW e, Store(f, c) = Store(g, e)
               PROVE  f = g /\ c = e
    OBVIOUS
  <2>1. Store(f, c)[1] = Store(g, e)[1]
    OBVIOUS
  <2>2. Store(f, c)[1] = <<"open", f, c>> /\ Store(g, e)[1] = <<"open", g, e>>
    BY DEF Store
  <2> QED
    BY <2>1, <2>2
<1>3. \A p, q: CleanupSp(p) = CleanupSp(q) => p = q
  <2> SUFFICES ASSUME NEW p, NEW q, CleanupSp(p) = CleanupSp(q)
               PROVE  p = q
    OBVIOUS
  <2>1. CleanupSp(p)[1] = <<"cleanSp", p>> /\ CleanupSp(q)[1] = <<"cleanSp", q>>
    BY DEF CleanupSp
  <2> QED
    BY <2>1
<1>4. \A u, p, v, q: CleanupTrustlet(u, p) = CleanupTrustlet(v, q) => u = v /\ p = q
  <2> SUFFICES ASSUME NEW u, NEW p, NEW v, NEW q, CleanupTrustlet(u, p) = CleanupTrustlet(v, q)
               PROVE  u = v /\ p = q
    OBVIOUS
  <2>1. /\ CleanupTrustlet(u, p)[1] = <<"cleanTl", u, p>>
        /\ CleanupTrustlet(v, q)[1] = <<"cleanTl", v, q>>
    BY DEF CleanupTrustlet
  <2> QED
    BY <2>1
<1>5. /\ \A f, c, p: Store(f, c) # CleanupSp(p)
      /\ \A f, c, u, p: Store(f, c) # CleanupTrustlet(u, p)
      /\ \A u, p, q: CleanupSp(q) # CleanupTrustlet(u, p)
  <2>1. /\ \A f, c: Store(f, c)[1][1] = "open"
        /\ \A p: CleanupSp(p)[1][1] = "cleanSp"
        /\ \A u, p: CleanupTrustlet(u, p)[1][1] = "cleanTl"
    BY DEF Store, CleanupSp, CleanupTrustlet
  <2> QED
    BY <2>1
<1>6. \A p, d, q, e: PairSp(p, d) = PairSp(q, e) => p = q /\ d = e
  BY <1>1, <1>2, FileNames DEF PairSp
<1>7. \A p, d, q, e: CutPairSp(p, d) = CutPairSp(q, e) => p = q /\ d = e
  BY <1>1, <1>2, <1>3 DEF CutPairSp
<1>8. \A u, p, d, v, q, e: PairTl(u, p, d) = PairTl(v, q, e) => u = v /\ p = q /\ d = e
  BY <1>1, <1>2, FileNames DEF PairTl
<1>9. \A u, p, d, v, q, e: CutPairTl(u, p, d) = CutPairTl(v, q, e) => u = v /\ p = q /\ d = e
  BY <1>1, <1>2, <1>4 DEF CutPairTl
<1>10. \A p, d, v, q, e: PairSp(p, d) # PairTl(v, q, e)
  BY <1>1, <1>2, FileNames DEF PairSp, PairTl
<1>11. /\ \A p, d, q, e: PairSp(p, d) # CutPairSp(q, e)
       /\ \A p, d, v, q, e: PairSp(p, d) # CutPairTl(v, q, e)
       /\ \A p, d, v, q, e: CutPairSp(p, d) # PairTl(v, q, e) /\ CutPairSp(p, d) # CutPairTl(v, q, e)
       /\ \A u, p, d, v, q, e: PairTl(u, p, d) # CutPairTl(v, q, e)
  BY <1>1, <1>5 DEF PairSp, PairTl, CutPairSp, CutPairTl
<1> QED
  BY <1>6, <1>7, <1>8, <1>9, <1>10, <1>11

LEMMA NotPaired ==
  /\ \A c: ~Paired(<<c>>)
  /\ ~Paired(<<>>) /\ ~Paired(Registering) /\ ~Paired(Reading) /\ ~Paired(Deleting)
  /\ \A a: ~Paired(Recovery(a))
<1>1. \A c, d, e: <<c>> # <<d, e>> /\ <<>> # <<d, e>>
  OBVIOUS
<1>2. \A c, d: <<c, d>> # Registering /\ <<c, d>> # Deleting /\ (<<c, d>> = Reading => c = ReadAuthToken)
  BY TokenLists
<1>3. \A f, c, a, b: <<b, Store(f, c)>> # Recovery(a)
  <2>1. \A f, c: Store(f, c)[1][1] = "open" /\ CleanupRoot[1][1] = "cleanRoot"
    BY DEF Store, CleanupRoot
  <2>2. \A f, c: Store(f, c) # CleanupRoot
    BY <2>1
  <2> QED
    BY <2>2, TokenLists
<1>4. \A c: ~Paired(<<c>>)
  BY <1>1 DEF Paired, PairSp, PairTl, CutPairSp, CutPairTl
<1>5. ~Paired(<<>>) /\ ~Paired(Registering) /\ ~Paired(Reading) /\ ~Paired(Deleting)
  BY <1>1, <1>2, NotRead DEF Paired, PairSp, PairTl, CutPairSp, CutPairTl
<1>6. \A a: ~Paired(Recovery(a))
  BY <1>3 DEF Paired, PairSp, PairTl, CutPairSp, CutPairTl
<1> QED
  BY <1>4, <1>5, <1>6

LEMMA PairScripts ==
  /\ \A p, d: AddsSp(p, d)' => client'.steps = PairSp(p, d)
  /\ \A p, d: CutsSp(p, d)' => client'.steps = CutPairSp(p, d)
  /\ \A u, p, d: AddsTl(u, p, d)' => client'.steps = PairTl(u, p, d)
  /\ \A u, p, d: CutsTl(u, p, d)' => client'.steps = CutPairTl(u, p, d)
BY DEF AddsSp, CutsSp, AddsTl, CutsTl, Script, PairSp, CutPairSp, PairTl, CutPairTl

LEMMA LinksNone ==
  ASSUME ~Paired(client'.steps)
  PROVE  LinksNext'
BY PairScripts DEF LinksNext, Paired

\* A command is sent.
LEMMA LinkedSends ==
  ASSUME Typed, NEW c \in Commandos, Sends(c), UNCHANGED <<file, up, listed>>, Linked,
         \A f \in Parents: up /\ Stores1(c, f) =>
           IF Busy THEN c[1][3] \subseteq listed[f] /\ \A j \in Slots: ~Stores1(Todo(j), f)
                   ELSE \A x \in c[1][3]: x \in listed[f] \/ ChildStored(f, x)
  PROVE  Linked'
<1>1. \A f, x: ChildStored(f, x)' <=> ChildStored(f, x)
  BY DEF ChildStored, IsWhole
<1>2. CASE ~up
  <2>1. job' = job /\ queued' = queued
    BY <1>2, SendsJobs DEF Typed
  <2> QED
    BY <1>1, <2>1 DEF Linked, Slots, Todo, Stores1
<1>3. CASE up /\ ~Busy
  <2>1. job' = [todo |-> c, wanted |-> TRUE] /\ queued' = <<>>
    BY <1>3, SendsJobs DEF Typed
  <2>4. job'.todo = c
    BY <2>1
  <2>2. \A f \in Parents: Stores1(job'.todo, f) =>
          \A x \in job'.todo[1][3]: x \in listed'[f] \/ ChildStored(f, x)'
    BY <1>1, <1>3, <2>4
  <2>3. DOMAIN queued' = {}
    BY <2>1
  <2> QED
    BY <2>2, <2>3 DEF Linked
<1>4. CASE up /\ Busy
  <2>1. job' = job /\ queued' \in Seq(Jobs) /\ Len(queued') = Len(queued) + 1
    BY <1>4, SendsJobs DEF Typed
  <2>2. \A i \in Slots': \/ i \in Slots /\ Todo(i)' = Todo(i) /\ i # Len(queued')
                         \/ i \notin Slots /\ i = Len(queued') /\ Todo(i)' = c
    BY <1>4, SendsJobs DEF Typed
  <2>3. \A i \in DOMAIN queued': i \in Slots' /\ i # 0 /\ Todo(i)' = queued'[i].todo
    BY <2>1 DEF Slots, Todo
  <2>4. \A i \in Slots: i # 0 => i \in DOMAIN queued /\ Todo(i) = queued[i].todo
    BY DEF Slots, Todo, Typed, Types
  <2>5. ASSUME NEW i \in DOMAIN queued', NEW f \in Parents, Stores1(queued'[i].todo, f)
        PROVE  /\ queued'[i].todo[1][3] \subseteq listed'[f]
               /\ \A j \in Slots': Stores1(Todo(j)', f) => i = j
    <3>1. i \in Slots' /\ i # 0 /\ Stores1(Todo(i)', f) /\ Todo(i)' = queued'[i].todo
      BY <2>3, <2>5
    <3>2. CASE i \in Slots /\ Todo(i)' = Todo(i)
      <4>1. Todo(i) = queued[i].todo /\ i \in DOMAIN queued
        BY <2>4, <3>1, <3>2
      <4>2. Todo(i)[1][3] \subseteq listed[f] /\ \A j \in Slots: Stores1(Todo(j), f) => i = j
        BY <3>1, <3>2, <4>1 DEF Linked
      <4>3. ~Stores1(c, f)
        BY <1>4, <3>1, <3>2
      <4> QED
        BY <2>2, <3>1, <3>2, <4>2, <4>3
    <3>3. CASE i = Len(queued') /\ Todo(i)' = c
      <4>1. c[1][3] \subseteq listed[f] /\ \A j \in Slots: ~Stores1(Todo(j), f)
        BY <1>4, <3>1, <3>3
      <4> QED
        BY <2>2, <3>1, <3>3, <4>1
    <3> QED
      BY <2>2, <3>1, <3>2, <3>3
  <2>6. \A f \in Parents: Stores1(job'.todo, f) =>
          \A x \in job'.todo[1][3]: x \in listed'[f] \/ ChildStored(f, x)'
    BY <1>1, <2>1 DEF Linked
  <2> QED
    BY <2>5, <2>6 DEF Linked
<1> QED
  BY <1>2, <1>3, <1>4

\* What each command stores.
LEMMA StoresOf ==
  /\ \A f, c, g: Stores1(Store(f, c), g) => g = f /\ Store(f, c)[1][3] = c
  /\ \A u, p, f: ~Stores1(CleanupTrustlet(u, p), f)
  /\ \A p, f: ~Stores1(CleanupSp(p), f)
  /\ \A c \in {CleanupRoot, Refused, ReadAuthToken, DeleteAuthToken}: \A f: ~Stores1(c, f)
  /\ \A u, p: \A f \in Parents: ~Stores1(StoreTABlob(u, p), f)
BY FileNames DEF Stores1, Store, CleanupTrustlet, CleanupSp, CleanupRoot, Refused, ReadAuthToken,
   DeleteAuthToken, StoreTABlob, Parents

\* Another command than the second of a pair stores no parent that is not listed.
StoresListed(c) == \A f \in Parents: ~Stores1(c, f) \/ (~Busy /\ c[1][3] \subseteq listed[f])

LEMMA ChildrenTurn ==
  ASSUME Typed, Children, NEW steps, NEW regardless, NEW undo, Turns(steps, regardless, undo),
         Head(steps) \in Commandos, StoresListed(Head(steps)), ~Paired(steps),
         UNCHANGED <<file, up, failed, listed>>
  PROVE  Children'
<1>1. client'.steps = steps /\ Sends(Head(steps))
  BY DEF Turns
<1>2. LinksNext'
  BY <1>1, LinksNone
<1>3. ListedIsStored'
  BY DEF Children, ListedIsStored, IsWhole
<1>4. ASSUME Linked
      PROVE  Linked'
  <2>1. \A f \in Parents: up /\ Stores1(Head(steps), f) =>
          IF Busy THEN /\ Head(steps)[1][3] \subseteq listed[f]
                       /\ \A j \in Slots: ~Stores1(Todo(j), f)
                  ELSE \A x \in Head(steps)[1][3]: x \in listed[f] \/ ChildStored(f, x)
    BY DEF StoresListed
  <2> QED
    BY <1>1, <1>4, <2>1, LinkedSends
<1>5. Honest' => Honest
  BY DEF Honest
<1> QED
  BY <1>2, <1>3, <1>4, <1>5 DEF Children

\* A pair begins.
LEMMA ChildrenPair ==
  ASSUME Typed, Children, Fresh, NEW c \in Commandos, NEW e, NEW regardless, NEW undo,
         Turns(<<c, e>>, regardless, undo), StoresListed(c),
         LinksNext', UNCHANGED <<file, up, failed, listed>>
  PROVE  Children'
<1>1. Sends(c)
  <2>1. Head(<<c, e>>) = c
    OBVIOUS
  <2> QED
    BY <2>1 DEF Turns
<1>3. ListedIsStored'
  BY DEF Children, ListedIsStored, IsWhole
<1>4. ASSUME Linked
      PROVE  Linked'
  <2>1. \A f \in Parents: up /\ Stores1(c, f) =>
          IF Busy THEN c[1][3] \subseteq listed[f] /\ \A j \in Slots: ~Stores1(Todo(j), f)
                  ELSE \A x \in c[1][3]: x \in listed[f] \/ ChildStored(f, x)
    BY DEF StoresListed
  <2> QED
    BY <1>1, <1>4, <2>1, LinkedSends
<1>5. Honest' => Honest
  BY DEF Honest
<1> QED
  BY <1>3, <1>4, <1>5 DEF Children

\* The first command of a pair is in execution.
LEMMA FreshTurn ==
  ASSUME Typed, Fresh, NEW c \in Commandos, NEW e, NEW regardless, NEW undo,
         Turns(<<c, e>>, regardless, undo)
  PROVE  /\ queued' = <<>> /\ job'.todo = c /\ client'.answer = "none"
         /\ client'.steps = <<c, e>>
<1>1. Sends(c) /\ up /\ ~Busy
  <2>1. Head(<<c, e>>) = c
    OBVIOUS
  <2> QED
    BY <2>1 DEF Turns, Fresh
<1>2. job' = [todo |-> c, wanted |-> TRUE] /\ queued' = <<>>
  BY <1>1, SendsJobs DEF Typed
<1> QED
  BY <1>1, <1>2 DEF Turns

LEMMA ListedIs ==
  ASSUME Children, NEW f \in Parents, IsWhole(f)
  PROVE  listed[f] = file[f]
BY DEF Children, ListedIsStored

LEMMA ChildrenBegins ==
  ASSUME Typed, Children, Beginning, UNCHANGED <<file, up, failed, listed>>
  PROVE  Children'
<1>1. Root \in Parents /\ \A p \in SPs: Sp(p) \in Parents
  BY DEF Parents
<1>2. Fresh /\ up /\ ~Busy
  BY DEF Beginning, Fresh
<1>3. \A f, c: (\A g \in Parents: g = f => c \subseteq listed[g]) => StoresListed(Store(f, c))
  BY <1>2, StoresOf DEF StoresListed
<1>4. \A f: StoresListed(Store(f, {}))
  BY <1>3
<1>5. ASSUME NEW c \in Single, BeginsSingle(c)
      PROVE  Children'
  <2>1. Turns(<<c>>, FALSE, <<>>) /\ Head(<<c>>) = c /\ c \in Commandos
    <3>1. Head(<<c>>) = c
      OBVIOUS
    <3> QED
      BY <1>5, <3>1, CommandsSound DEF BeginsSingle
  <2>2. StoresListed(c)
    <3>1. IsWhole(Root) => StoresListed(Store(Root, file[Root]))
      BY <1>1, <1>3, ListedIs
    <3>2. \A p \in SPs: IsWhole(Sp(p)) => StoresListed(Store(Sp(p), file[Sp(p)]))
      BY <1>1, <1>3, ListedIs
    <3>3. StoresListed(CleanupRoot) /\ \A u, p: StoresListed(StoreTABlob(u, p))
      BY StoresOf DEF StoresListed
    <3> QED
      BY <1>4, <1>5, <3>1, <3>2, <3>3 DEF BeginsSingle
  <2> QED
    BY <2>1, <2>2, NotPaired, ChildrenTurn
<1>6. CASE BeginsRegistering
  <2>1. Head(Registering) = Store(Root, {}) /\ Store(Root, {}) \in Commandos
    BY CommandsSound, FitsAlways DEF Registering
  <2> QED
    BY <1>4, <1>6, <2>1, NotPaired, ChildrenTurn DEF BeginsRegistering
<1>7. ASSUME NEW p \in SPs, BeginsAddSp(p)
      PROVE  Children'
  <2>1. PICK c, d: c = Store(Sp(p), {}) /\ d = file[Root] \cup {p}
    OBVIOUS
  <2>2. /\ Turns(<<c, Store(Root, d)>>, FALSE, <<>>) /\ c \in Commandos
        /\ StoresListed(c) /\ listed[Root] = file[Root]
    BY <1>1, <1>4, <1>7, <2>1, CommandsSound, FitsAlways, ListedIs DEF BeginsAddSp
  <2>3. /\ queued' = <<>> /\ job'.todo = c /\ client'.answer = "none"
        /\ client'.steps = PairSp(p, d)
    BY <1>2, <2>1, <2>2, FreshTurn DEF PairSp
  <2>4. AddingSp(p, d)'
    BY <2>1, <2>2, <2>3 DEF AddingSp, StoresChild, Store, Stores1
  <2>5. LinksNext'
    BY <2>3, <2>4, PairScripts, PairsAre DEF LinksNext
  <2> QED
    BY <1>2, <2>2, <2>5, ChildrenPair
<1>8. ASSUME NEW u \in TAs, NEW p \in SPs, BeginsAddTl(u, p)
      PROVE  Children'
  <2>1. PICK c, d: c = Store(Tl(u, p), {}) /\ d = file[Sp(p)] \cup {u}
    OBVIOUS
  <2>2. /\ Turns(<<c, Store(Sp(p), d)>>, FALSE, <<CleanupTrustlet(u, p)>>) /\ c \in Commandos
        /\ StoresListed(c) /\ listed[Sp(p)] = file[Sp(p)]
    BY <1>1, <1>4, <1>8, <2>1, CommandsSound, FitsAlways, ListedIs DEF BeginsAddTl
  <2>3. /\ queued' = <<>> /\ job'.todo = c /\ client'.answer = "none"
        /\ client'.steps = PairTl(u, p, d)
    BY <1>2, <2>1, <2>2, FreshTurn DEF PairTl
  <2>4. AddingTl(u, p, d)'
    BY <2>1, <2>2, <2>3 DEF AddingTl, StoresChild, Store, Stores1
  <2>5. LinksNext'
    BY <2>3, <2>4, PairScripts, PairsAre DEF LinksNext
  <2> QED
    BY <1>2, <2>2, <2>5, ChildrenPair
<1>9. ASSUME NEW p \in SPs, BeginsCutSp(p)
      PROVE  Children'
  <2>1. PICK c, d: c = CleanupSp(p) /\ d = file[Root] \ {p}
    OBVIOUS
  <2>2. /\ Turns(<<c, Store(Root, d)>>, TRUE, <<>>) /\ c \in Commandos
        /\ StoresListed(c) /\ listed[Root] = file[Root]
    BY <1>1, <1>9, <2>1, CommandsSound, StoresOf, ListedIs DEF BeginsCutSp, RootLists, StoresListed
  <2>3. /\ queued' = <<>> /\ job'.todo = c /\ client'.answer = "none"
        /\ client'.steps = CutPairSp(p, d)
    BY <1>2, <2>1, <2>2, FreshTurn DEF CutPairSp
  <2>4. CuttingSp(d)'
    BY <2>1, <2>2, <2>3 DEF CuttingSp, RemovesChild, CleanupSp
  <2>5. LinksNext'
    BY <2>3, <2>4, PairScripts, PairsAre DEF LinksNext
  <2> QED
    BY <1>2, <2>2, <2>5, ChildrenPair
<1>10. ASSUME NEW u \in TAs, NEW p \in SPs, BeginsCutTl(u, p)
       PROVE  Children'
  <2>1. PICK c, d: c = CleanupTrustlet(u, p) /\ d = file[Sp(p)] \ {u}
    OBVIOUS
  <2>2. /\ Turns(<<c, Store(Sp(p), d)>>, TRUE, <<>>) /\ c \in Commandos
        /\ StoresListed(c) /\ listed[Sp(p)] = file[Sp(p)]
    BY <1>1, <1>10, <2>1, CommandsSound, StoresOf, ListedIs DEF BeginsCutTl, SpLists, StoresListed
  <2>3. /\ queued' = <<>> /\ job'.todo = c /\ client'.answer = "none"
        /\ client'.steps = CutPairTl(u, p, d)
    BY <1>2, <2>1, <2>2, FreshTurn DEF CutPairTl
  <2>4. CuttingTl(p, d)'
    BY <2>1, <2>2, <2>3 DEF CuttingTl, RemovesChild, CleanupTrustlet
  <2>5. LinksNext'
    BY <2>3, <2>4, PairScripts, PairsAre DEF LinksNext
  <2> QED
    BY <1>2, <2>2, <2>5, ChildrenPair
<1> QED
  BY <1>5, <1>6, <1>7, <1>8, <1>9, <1>10 DEF Beginning

\* The second command of a pair.
LEMMA ChildrenSecond ==
  ASSUME Typed, Children, NEW c \in Commandos, NEW regardless, NEW undo,
         Turns(<<c>>, regardless, undo), UNCHANGED <<file, up, failed, listed>>,
         Honest => \A f \in Parents: Stores1(c, f) =>
           IF Busy THEN c[1][3] \subseteq listed[f] /\ \A j \in Slots: ~Stores1(Todo(j), f)
                   ELSE \A x \in c[1][3]: x \in listed[f] \/ ChildStored(f, x)
  PROVE  Children'
<1>1. client'.steps = <<c>> /\ Sends(c)
  <2>1. Head(<<c>>) = c
    OBVIOUS
  <2> QED
    BY <2>1 DEF Turns
<1>2. LinksNext'
  BY <1>1, NotPaired, LinksNone
<1>3. ListedIsStored'
  BY DEF Children, ListedIsStored, IsWhole
<1>4. Honest' => Honest
  BY DEF Honest
<1>5. Honest' => Linked'
  BY <1>1, <1>4, LinkedSends DEF Children
<1> QED
  BY <1>2, <1>3, <1>5 DEF Children

LEMMA NothingRemovedStores ==
  ASSUME Typed, NEW kinds, kinds \subseteq {"cleanSp", "cleanTl", "remove", "discard"}, NEW fs,
         RemovesChild(kinds, fs), queued = <<>>
  PROVE  \A f: \A j \in Slots: ~Stores1(Todo(j), f)
<1>1. Slots = {0} /\ Todo(0) = job.todo
  BY DEF Slots, Todo
<1>2. \A f: ~Stores1(job.todo, f)
  <2>1. SUFFICES ASSUME NEW f, Stores1(job.todo, f)
                 PROVE  FALSE
    OBVIOUS
  <2>2. 1 \in DOMAIN job.todo /\ job.todo[1][1] \in {"open", "fill"}
    BY <2>1, JobSound DEF Stores1, Busy
  <2> QED
    BY <2>2 DEF RemovesChild
<1> QED
  BY <1>1, <1>2

LEMMA ChildrenGoesOn ==
  ASSUME Typed, Children, client.answer # "none", GoingOn,
         UNCHANGED <<file, up, failed, listed>>
  PROVE  Children'
<1>1. Root \in Parents /\ \A p \in SPs: Sp(p) \in Parents
  BY DEF Parents
<1>2. \A c: (\A f \in Parents: ~Stores1(c, f)) => StoresListed(c)
  BY DEF StoresListed
<1>3. ASSUME NEW c \in Commandos, NEW r, NEW undo, Turns(<<c>>, r, undo), StoresListed(c)
      PROVE  Children'
  <2>1. Head(<<c>>) = c
    OBVIOUS
  <2> QED
    BY <1>3, <2>1, NotPaired, ChildrenTurn
<1>4. CASE GoesReading
  <2>1. Head(Reading) = ReadAuthToken
    BY DEF Reading
  <2> QED
    BY <1>2, <1>4, <2>1, StoresOf, CommandsSound, NotPaired, ChildrenTurn DEF GoesReading
<1>5. CASE GoesDeleting
  <2>1. Head(Deleting) = DeleteAuthToken
    BY DEF Deleting
  <2> QED
    BY <1>2, <1>5, <2>1, StoresOf, CommandsSound, NotPaired, ChildrenTurn DEF GoesDeleting
<1>6. ASSUME NEW a \in Answered, GoesRecovering(a)
      PROVE  Children'
  <2>1. Head(Recovery(a)) \in {Store(Auth, {}), Store(Auth, GARBAGE), Refused}
    BY DEF Recovery
  <2>2. \A f \in Parents: f # Auth
    BY FileNames DEF Parents
  <2>3. StoresListed(Head(Recovery(a)))
    BY <1>2, <2>1, <2>2, StoresOf
  <2> QED
    BY <1>6, <2>3, CommandsSound, NotPaired, ChildrenTurn DEF GoesRecovering
<1>7. ASSUME NEW a \in Answered, GoesCleaning(a)
      PROVE  Children'
  BY <1>2, <1>3, <1>7, StoresOf, CommandsSound DEF GoesCleaning
<1>8. ASSUME NEW u \in TAs, NEW p \in SPs, NEW d, GoesUndoing(u, p, d)
      PROVE  Children'
  BY <1>2, <1>3, <1>8, StoresOf, CommandsSound DEF GoesUndoing
<1>9. client.answer = "ok" => ~Busy
  BY DEF Typed, Flow
<1>10. ASSUME NEW p \in SPs, NEW d \in SUBSET SPs, IsFiniteSet(d), GoesAddSp(p, d)
       PROVE  Children'
  <2>1. AddingSp(p, d) /\ client.answer = "ok"
    BY <1>10 DEF GoesAddSp, Children, LinksNext
  <2>2. Honest => \A x \in d: x \in listed[Root] \/ ChildStored(Root, x)
    BY <2>1, SaysWhole DEF AddingSp, StoresChild, ChildStored, IsWhole
  <2>3. PICK c \in Commandos: c = Store(Root, d)
    BY <1>10, CommandsSound, FitsAlways
  <2>4. Turns(<<c>>, FALSE, <<>>)
    BY <1>10, <2>3 DEF GoesAddSp
  <2>5. \A f: Stores1(c, f) => f = Root /\ c[1][3] = d
    BY <2>3, StoresOf
  <2> QED
    BY <1>9, <2>1, <2>2, <2>4, <2>5, ChildrenSecond
<1>11. ASSUME NEW u \in TAs, NEW p \in SPs, NEW d \in SUBSET TAs, IsFiniteSet(d),
              GoesAddTl(u, p, d)
       PROVE  Children'
  <2>1. AddingTl(u, p, d) /\ client.answer = "ok"
    BY <1>11 DEF GoesAddTl, Children, LinksNext
  <2>2. Honest => \A x \in d: x \in listed[Sp(p)] \/ ChildStored(Sp(p), x)
    BY <2>1, SaysWhole DEF AddingTl, StoresChild, ChildStored, IsWhole
  <2>3. PICK c \in Commandos: c = Store(Sp(p), d)
    BY <1>11, CommandsSound, FitsAlways
  <2>4. Turns(<<c>>, FALSE, <<CleanupTrustlet(u, p)>>)
    BY <1>11, <2>3 DEF GoesAddTl
  <2>5. \A f: Stores1(c, f) => f = Sp(p) /\ c[1][3] = d
    BY <2>3, StoresOf
  <2> QED
    BY <1>9, <2>1, <2>2, <2>4, <2>5, ChildrenSecond
<1>12. ASSUME NEW p \in SPs, NEW d \in SUBSET SPs, IsFiniteSet(d), GoesCutSp(p, d)
       PROVE  Children'
  <2>1. CuttingSp(d)
    BY <1>12 DEF GoesCutSp, Children, LinksNext
  <2>2. d \subseteq listed[Root] /\ \A f: \A j \in Slots: ~Stores1(Todo(j), f)
    <3>1. PICK kinds: kinds = {"cleanSp", "cleanTl", "remove", "discard"}
      OBVIOUS
    <3>2. RemovesChild(kinds, Containers \ {Root}) /\ queued = <<>>
      BY <2>1, <3>1 DEF CuttingSp
    <3>3. \A f: \A j \in Slots: ~Stores1(Todo(j), f)
      BY <3>1, <3>2, NothingRemovedStores
    <3> QED
      BY <2>1, <3>3 DEF CuttingSp
  <2>3. PICK c \in Commandos: c = Store(Root, d)
    BY <1>12, CommandsSound, FitsAlways
  <2>4. Turns(<<c>>, TRUE, <<>>)
    BY <1>12, <2>3 DEF GoesCutSp
  <2>5. \A f: Stores1(c, f) => f = Root /\ c[1][3] = d
    BY <2>3, StoresOf
  <2>6. \A f \in Parents: Stores1(c, f) =>
          IF Busy THEN c[1][3] \subseteq listed[f] /\ \A j \in Slots: ~Stores1(Todo(j), f)
                  ELSE \A x \in c[1][3]: x \in listed[f] \/ ChildStored(f, x)
    BY <2>2, <2>5
  <2> QED
    BY <2>4, <2>6, ChildrenSecond
<1>13. ASSUME NEW u \in TAs, NEW p \in SPs, NEW d \in SUBSET TAs, IsFiniteSet(d),
              GoesCutTl(u, p, d)
       PROVE  Children'
  <2>1. CuttingTl(p, d)
    BY <1>13 DEF GoesCutTl, Children, LinksNext
  <2>2. d \subseteq listed[Sp(p)] /\ \A f: \A j \in Slots: ~Stores1(Todo(j), f)
    <3>1. PICK kinds: kinds = {"cleanTl", "remove", "discard"}
      OBVIOUS
    <3>2. RemovesChild(kinds, Containers \ Parents) /\ queued = <<>>
      BY <2>1, <3>1 DEF CuttingTl
    <3>3. \A f: \A j \in Slots: ~Stores1(Todo(j), f)
      BY <3>1, <3>2, NothingRemovedStores
    <3> QED
      BY <2>1, <3>3 DEF CuttingTl
  <2>3. PICK c \in Commandos: c = Store(Sp(p), d)
    BY <1>13, CommandsSound, FitsAlways
  <2>4. Turns(<<c>>, TRUE, <<>>)
    BY <1>13, <2>3 DEF GoesCutTl
  <2>5. \A f: Stores1(c, f) => f = Sp(p) /\ c[1][3] = d
    BY <2>3, StoresOf
  <2>6. \A f \in Parents: Stores1(c, f) =>
          IF Busy THEN c[1][3] \subseteq listed[f] /\ \A j \in Slots: ~Stores1(Todo(j), f)
                  ELSE \A x \in c[1][3]: x \in listed[f] \/ ChildStored(f, x)
    BY <2>2, <2>5
  <2> QED
    BY <2>4, <2>6, ChildrenSecond
<1> QED
  BY <1>4, <1>5, <1>6, <1>7, <1>8, <1>10, <1>11, <1>12, <1>13 DEF GoingOn

-----------------------------------------------------------------------------
(* The children: the other steps.                                          *)

LEMMA LinkedStays ==
  ASSUME Linked, UNCHANGED <<file, listed>>,
         \/ job'.todo = <<>> /\ queued' = <<>>
         \/ /\ job'.todo = job.todo /\ DOMAIN queued' = DOMAIN queued /\ Slots' = Slots
            /\ \A i \in DOMAIN queued: queued'[i].todo = queued[i].todo
            /\ \A i \in Slots: Todo(i)' = Todo(i)
  PROVE  Linked'
<1>1. \A f, x: ChildStored(f, x)' <=> ChildStored(f, x)
  BY DEF ChildStored, IsWhole
<1>2. CASE job'.todo = <<>> /\ queued' = <<>>
  BY <1>2 DEF Linked, Stores1
<1>3. CASE /\ job'.todo = job.todo /\ DOMAIN queued' = DOMAIN queued /\ Slots' = Slots
           /\ \A i \in DOMAIN queued: queued'[i].todo = queued[i].todo
           /\ \A i \in Slots: Todo(i)' = Todo(i)
  BY <1>1, <1>3 DEF Linked, Stores1
<1> QED
  BY <1>2, <1>3

LEMMA LinksNextStays ==
  ASSUME LinksNext, UNCHANGED <<file, listed>>,
         client'.steps = client.steps, client'.regardless = client.regardless,
         client'.undo = client.undo, client'.answer = "ok" => client.answer = "ok",
         Honest' => Honest, queued = <<>> => queued' = <<>>,
         job'.todo \in {job.todo, <<>>}
  PROVE  LinksNext'
<1>1. \A s, r, u: Script(s, r, u)' => Script(s, r, u)
  BY DEF Script
<1>2. /\ \A p, d: (AddsSp(p, d)' => AddsSp(p, d)) /\ (CutsSp(p, d)' => CutsSp(p, d))
      /\ \A u, p, d: (AddsTl(u, p, d)' => AddsTl(u, p, d)) /\ (CutsTl(u, p, d)' => CutsTl(u, p, d))
  BY <1>1 DEF AddsSp, CutsSp, AddsTl, CutsTl
<1>3. \A f: StoresChild(f) => StoresChild(f)'
  BY DEF StoresChild, Busy, Stores1
<1>4. \A kinds, fs: RemovesChild(kinds, fs) => RemovesChild(kinds, fs)'
  BY DEF RemovesChild
<1>5. /\ \A p, d: AddingSp(p, d) => AddingSp(p, d)'
      /\ \A u, p, d: AddingTl(u, p, d) => AddingTl(u, p, d)'
  BY <1>3 DEF AddingSp, AddingTl
<1>6. (\A d: CuttingSp(d) => CuttingSp(d)') /\ \A p, d: CuttingTl(p, d) => CuttingTl(p, d)'
  BY <1>4 DEF CuttingSp, CuttingTl
<1> QED
  BY <1>2, <1>5, <1>6 DEF LinksNext

LEMMA ChildrenSteps ==
  ASSUME Typed, Typed', Token, Children, [Next]_vars
  PROVE  Children'
<1>1. failed \in Nat
  BY FailuresAssumption DEF Typed, Types, FailuresAssumption
<1>2. FailStep => (Honest' => Honest)
  BY <1>1 DEF FailStep, Honest
<1>3. \A kind: Fails(kind) => FailStep
  BY DEF Fails, FailStep
<1>4. UNCHANGED <<file, listed>> => ListedIsStored'
  BY DEF Children, ListedIsStored, IsWhole
<1>5. CASE Beginnings
  BY <1>5, ChildrenBegins DEF Beginnings
<1>6. CASE Continuing
  <2>1. CASE GoingOn
    BY <1>6, <2>1, ChildrenGoesOn DEF Continuing
  <2>2. CASE Dismisses
    <3>1. /\ client' = NoCommand /\ job' = job /\ queued' = queued
          /\ UNCHANGED <<file, listed>> /\ failed' = failed
      BY <1>6, <2>2 DEF Continuing, Dismisses
    <3>2. LinksNext'
      BY <3>1, NotPaired, LinksNone DEF NoCommand
    <3>3. Linked => Linked'
      BY <3>1, LinkedStays DEF Slots, Todo
    <3>4. Honest' => Honest
      BY <3>1 DEF Honest
    <3> QED
      BY <1>4, <3>1, <3>2, <3>3, <3>4 DEF Children
  <2> QED
    BY <1>6, <2>1, <2>2 DEF Continuing
<1>7. CASE TimeOut
  <2>1. /\ client'.steps = client.steps /\ client'.regardless = client.regardless
        /\ client'.undo = client.undo /\ client'.answer = "lost"
    BY <1>7 DEF TimeOut, Typed, Types, Clients
  <2>2. Unwanted /\ UNCHANGED <<file, listed>> /\ FailStep
    BY <1>3, <1>7 DEF TimeOut
  <2>3. /\ job'.todo = job.todo /\ DOMAIN queued' = DOMAIN queued /\ Slots' = Slots
        /\ \A i \in DOMAIN queued: queued'[i].todo = queued[i].todo
        /\ \A i \in Slots: Todo(i)' = Todo(i)
        /\ Len(queued') = Len(queued) /\ queued' \in Seq(Jobs)
    BY <2>2, UnwantedJobs DEF Typed
  <2>4. queued = <<>> => queued' = <<>>
    BY <2>3, EmptySeq, LenProperties
  <2>5. LinksNext'
    BY <1>2, <2>1, <2>2, <2>3, <2>4, LinksNextStays DEF Children
  <2>6. Linked => Linked'
    BY <2>2, <2>3, LinkedStays
  <2> QED
    BY <1>2, <1>4, <2>2, <2>5, <2>6 DEF Children
<1>8. CASE RootPADies
  <2>1. client' = NoCommand
    BY <1>8 DEF RootPADies
  <2>2. Unwanted /\ UNCHANGED <<file, listed>> /\ FailStep
    BY <1>3, <1>8 DEF RootPADies
  <2>3. /\ job'.todo = job.todo /\ DOMAIN queued' = DOMAIN queued /\ Slots' = Slots
        /\ \A i \in DOMAIN queued: queued'[i].todo = queued[i].todo
        /\ \A i \in Slots: Todo(i)' = Todo(i)
    BY <2>2, UnwantedJobs DEF Typed
  <2>4. LinksNext'
    BY <2>1, NotPaired, LinksNone DEF NoCommand
  <2>5. Linked => Linked'
    BY <2>2, <2>3, LinkedStays
  <2> QED
    BY <1>2, <1>4, <2>2, <2>4, <2>5 DEF Children
<1>9. CASE Executing
  <2>1. FailStep
    BY <1>9, ExecutesInPart DEF Executing, Typed
  <2>2. ListedIsStored' /\ LinksNext'
    BY <1>9, ListedStays, LinksNextExecutes DEF Children
  <2>3. Honest => Linked'
    BY <1>9, LinkedExecutes DEF Typed
  <2> QED
    BY <1>2, <2>1, <2>2, <2>3 DEF Children
<1>10. CASE DaemonDies
  <2>1. /\ client'.steps = client.steps /\ client'.regardless = client.regardless
        /\ client'.undo = client.undo /\ (client'.answer = "ok" => client.answer = "ok")
    BY <1>10 DEF DaemonDies, Typed, Types, Clients
  <2>2. /\ job'.todo = <<>> /\ queued' = <<>> /\ UNCHANGED <<file, listed>> /\ FailStep
    BY <1>3, <1>10 DEF DaemonDies, NoJob, Keep
  <2>3. LinksNext'
    BY <1>2, <2>1, <2>2, LinksNextStays DEF Children
  <2>4. Linked => Linked'
    BY <2>2, LinkedStays
  <2> QED
    BY <1>2, <1>4, <2>2, <2>3, <2>4 DEF Children
<1>11. CASE DaemonStarts \/ UNCHANGED vars
  <2>1. UNCHANGED <<file, job, queued, client, failed, listed>>
    BY <1>11 DEF DaemonStarts, vars
  <2>2. LinksNext'
    BY <2>1, LinksNextStays DEF Children, Honest
  <2>3. Linked => Linked'
    BY <2>1, LinkedStays DEF Slots, Todo
  <2> QED
    BY <1>4, <2>1, <2>2, <2>3 DEF Children, Honest
<1> QED
  BY <1>5, <1>6, <1>7, <1>8, <1>9, <1>10, <1>11, Stepped

LEMMA ChildrenInit == Init => Children
<1> SUFFICES ASSUME Init
             PROVE  Children
  OBVIOUS
<1>1. \A f \in Parents: f \in Files /\ ~IsWhole(f)
  BY FilesAre, SaysWhole DEF Init, IsWhole
<1>2. job.todo = <<>> /\ queued = <<>> /\ client.steps = <<>>
  BY DEF Init, NoJob, NoCommand
<1>3. LinksNext
  <2>1. \A c, d: <<c, d>> # <<>>
    OBVIOUS
  <2> QED
    BY <1>2, <2>1 DEF LinksNext, AddsSp, CutsSp, AddsTl, CutsTl, Script
<1>4. Linked
  BY <1>2 DEF Linked, Stores1
<1> QED
  BY <1>1, <1>3, <1>4 DEF Children, ListedIsStored

\* What is newly listed has been stored.
LEMMA ListedChildren ==
  ASSUME Typed, Children, Honest, [Next]_vars, NEW f \in Parents,
         NEW x \in listed'[f] \ listed[f]
  PROVE  ChildStored(f, x)
<1>1. Executing
  BY Stepped DEF Beginnings, Continuing, TimeOut, RootPADies, DaemonDies, Keep, DaemonStarts, vars
<1>2. PICK g \in Files, c \in Contents:
        Fits(g, c) /\ Now(<<"fill", g, c>>) /\ listed' = [listed EXCEPT ![g] = c]
  BY <1>1, ListedAfter
<1>3. g = f /\ x \in c
  BY <1>2, FilesAre DEF Typed, Types
<1>4. Stores1(job.todo, f) /\ job.todo[1][3] = c
  BY <1>1, <1>2, <1>3 DEF Stores1, Now, Executing, Busy
<1> QED
  BY <1>3, <1>4 DEF Children, Linked

-----------------------------------------------------------------------------
(* The tree: what goes on in a step that does not fail.                    *)

LEMMA NoFailure ==
  ASSUME failed = 0, failed' = 0, NEW kind
  PROVE  ~Fails(kind)
BY DEF Fails

\* The tasks of a job that has gone on.
LEMMA TodoAfter ==
  ASSUME Typed, Smooth, Busy, NEW more, GoesOn(more)
  PROVE  /\ job'.todo = more \o Tail(job.todo) /\ job'.todo \in Seq(Tasks)
         /\ more \in Seq(Tasks) /\ Sound(more)
         /\ Len(job'.todo) = Len(more) + Len(job.todo) - 1
         /\ \A i \in DOMAIN more: i \in DOMAIN job'.todo /\ job'.todo[i] = more[i]
         /\ \A i \in DOMAIN job'.todo:
              \/ i \in DOMAIN more
              \/ /\ i - Len(more) + 1 \in DOMAIN job.todo /\ i - Len(more) + 1 > 1
                 /\ job'.todo[i] = job.todo[i - Len(more) + 1]
         /\ \A k \in DOMAIN job.todo: k > 1 =>
              k - 1 + Len(more) \in DOMAIN job'.todo /\ job'.todo[k - 1 + Len(more)] = job.todo[k]
<1>1. more \in Seq(Tasks) /\ Sound(more) /\ job.todo \in Seq(Tasks) /\ job.todo # <<>>
  BY JobSound DEF GoesOn
<1>2. job'.todo = more \o Tail(job.todo)
  <2>1. CASE Answers("ok") /\ more = <<>> /\ Len(job.todo) = 1
    <3>1. job'.todo = <<>>
      BY <2>1, EndsJobs DEF Typed, Smooth, NoJob
    <3>2. Tail(job.todo) \in Seq(Tasks) /\ Len(Tail(job.todo)) = 0
      BY <1>1, <2>1, HeadTailProperties
    <3>3. Tail(job.todo) = <<>>
      BY <3>2, EmptySeq, LenProperties
    <3> QED
      BY <2>1, <3>1, <3>3
  <2> QED
    BY <2>1, GoesOnJobs DEF Typed
<1>3. PICK t, new: t = job.todo /\ new = job'.todo
  OBVIOUS
<1>4. /\ new = more \o Tail(t) /\ t \in Seq(Tasks) /\ t # <<>> /\ more \in Seq(Tasks)
  BY <1>1, <1>2, <1>3
<1>5. /\ new \in Seq(Tasks) /\ Len(new) = Len(more) + Len(t) - 1
      /\ \A i \in DOMAIN more: i \in DOMAIN new /\ new[i] = more[i]
      /\ \A i \in DOMAIN new: \/ i \in DOMAIN more
                              \/ /\ i - Len(more) + 1 \in DOMAIN t /\ i - Len(more) + 1 > 1
                                 /\ new[i] = t[i - Len(more) + 1]
      /\ \A k \in DOMAIN t: k > 1 =>
           k - 1 + Len(more) \in DOMAIN new /\ new[k - 1 + Len(more)] = t[k]
  BY ONLY <1>4, ProceedOf
<1> QED
  BY <1>1, <1>2, <1>3, <1>5

LEMMA HasAfter ==
  ASSUME Typed, Smooth, Busy, NEW more, GoesOn(more)
  PROVE  /\ \A t: Has(t)' => Has(t) \/ \E i \in DOMAIN more: more[i] = t
         /\ \A t: Has(t) => Has(t)' \/ Now(t)
         /\ \A i \in DOMAIN more: Has(more[i])'
<1>1. \A i \in DOMAIN job.todo: i \in Nat /\ (i > 1 \/ i = 1)
  BY JobSound
<1>2. \A i \in DOMAIN more: i \in DOMAIN job'.todo /\ job'.todo[i] = more[i]
  BY TodoAfter
<1>3. \A i \in DOMAIN job'.todo: \/ i \in DOMAIN more
                                 \/ \E k \in DOMAIN job.todo: job'.todo[i] = job.todo[k]
  BY TodoAfter
<1>4. \A k \in DOMAIN job.todo: k > 1 => \E i \in DOMAIN job'.todo: job'.todo[i] = job.todo[k]
  BY TodoAfter
<1> QED
  BY <1>1, <1>2, <1>3, <1>4 DEF Has, Now

\* RootPA's command is the same one after a step of the daemon.
LEMMA SmoothAfter ==
  ASSUME Typed, Smooth, up' = up, Busy, NEW more, GoesOn(more), Leads(more)
  PROVE  /\ Smooth'
         /\ client'.steps = client.steps /\ client'.regardless = client.regardless
         /\ client'.undo = client.undo
         /\ Busy' => job'.todo[1][1] \notin {"refuse", "read", "cleanRoot"}
<1>1. /\ queued' = <<>> /\ client'.steps = client.steps /\ client'.regardless = client.regardless
      /\ client'.undo = client.undo /\ client'.answer \in {"none", "ok"}
      /\ Busy' => client' = client
  <2>1. CASE Answers("ok")
    BY <2>1, EndsJobs DEF Typed, Smooth, Busy, NoJob
  <2>2. CASE ~Answers("ok")
    BY <2>2, GoesOnJobs DEF Typed, Smooth
  <2> QED
    BY <2>1, <2>2
<1>2. Busy' => job'.todo[1][1] \notin {"refuse", "read", "cleanRoot"}
  <2>1. SUFFICES ASSUME job'.todo # <<>>
                 PROVE  job'.todo[1][1] \notin {"refuse", "read", "cleanRoot"}
    BY DEF Busy
  <2>2. CASE more = <<>>
    <3>1. 1 \in DOMAIN job'.todo /\ 1 \notin DOMAIN more /\ Len(more) = 0
      BY <2>1, <2>2, TodoAfter
    <3>2. 2 \in DOMAIN job.todo /\ job'.todo[1] = job.todo[2]
      BY <3>1, TodoAfter
    <3>3. Follows(job.todo[2])
      BY <3>2, JobSound DEF Sound
    <3> QED
      BY <3>2, <3>3 DEF Follows
  <2>3. CASE more # <<>>
    <3>1. 1 \in DOMAIN more
      BY <2>3 DEF GoesOn
    <3>2. job'.todo[1] = more[1]
      BY <3>1, TodoAfter
    <3> QED
      BY <2>3, <3>2 DEF Leads
  <2> QED
    BY <2>2, <2>3
<1> QED
  BY <1>1, <1>2 DEF Smooth, Waiting

\* The scripts, when RootPA's command is the same.
LEMMA ScriptsSame ==
  ASSUME client'.steps = client.steps, client'.regardless = client.regardless,
         client'.undo = client.undo
  PROVE  /\ \A p, d: (AddsSp(p, d)' <=> AddsSp(p, d)) /\ (CutsSp(p, d)' <=> CutsSp(p, d))
         /\ \A u, p, d: (AddsTl(u, p, d)' <=> AddsTl(u, p, d)) /\ (CutsTl(u, p, d)' <=> CutsTl(u, p, d))
         /\ \A p: CutsSpOf(p)' <=> CutsSpOf(p)
         /\ \A u, p: CutsTlOf(u, p)' <=> CutsTlOf(u, p)
<1>1. \A s, r, u: Script(s, r, u)' <=> Script(s, r, u)
  BY DEF Script
<1>2. /\ \A p, d: (AddsSp(p, d)' <=> AddsSp(p, d)) /\ (CutsSp(p, d)' <=> CutsSp(p, d))
      /\ \A u, p, d: (AddsTl(u, p, d)' <=> AddsTl(u, p, d)) /\ (CutsTl(u, p, d)' <=> CutsTl(u, p, d))
  BY <1>1 DEF AddsSp, CutsSp, AddsTl, CutsTl
<1> QED
  BY <1>2 DEF CutsSpOf, CutsTlOf

\* What RootPA sends next fits the first command of the pair.
LEMMA PairAtWork ==
  ASSUME Typed, Children, Busy
  PROVE  /\ \A p \in SPs, d \in SUBSET SPs: AddsSp(p, d) => Stores1(job.todo, Sp(p))
         /\ \A u \in TAs, p \in SPs, d \in SUBSET TAs: AddsTl(u, p, d) => Stores1(job.todo, Tl(u, p))
         /\ \A p \in SPs: CutsSpOf(p) =>
              /\ job.todo[1][1] \in {"cleanSp", "cleanTl", "remove", "discard"}
              /\ job.todo[1][1] = "remove" => job.todo[1][2] # Root
         /\ \A u \in TAs, p \in SPs: CutsTlOf(u, p) =>
              /\ job.todo[1][1] \in {"cleanTl", "remove", "discard"}
              /\ job.todo[1][1] = "remove" => job.todo[1][2] \notin Parents
<1>1. 1 \in DOMAIN job.todo
  BY JobSound
<1>2. \A p \in SPs, d \in SUBSET SPs: AddsSp(p, d) => Stores1(job.todo, Sp(p))
  BY DEF Children, LinksNext, AddingSp, StoresChild
<1>3. \A u \in TAs, p \in SPs, d \in SUBSET TAs: AddsTl(u, p, d) => Stores1(job.todo, Tl(u, p))
  BY DEF Children, LinksNext, AddingTl, StoresChild
<1>4. ASSUME NEW p \in SPs, CutsSpOf(p)
      PROVE  /\ job.todo[1][1] \in {"cleanSp", "cleanTl", "remove", "discard"}
             /\ job.todo[1][1] = "remove" => job.todo[1][2] # Root
  <2>1. PICK d \in SUBSET SPs: CuttingSp(d)
    BY <1>4 DEF CutsSpOf, Children, LinksNext
  <2> QED
    BY <1>1, <2>1 DEF CuttingSp, RemovesChild
<1>5. ASSUME NEW u \in TAs, NEW p \in SPs, CutsTlOf(u, p)
      PROVE  /\ job.todo[1][1] \in {"cleanTl", "remove", "discard"}
             /\ job.todo[1][1] = "remove" => job.todo[1][2] \notin Parents
  <2>1. PICK d \in SUBSET TAs: CuttingTl(p, d)
    BY <1>5 DEF CutsTlOf, Children, LinksNext
  <2> QED
    BY <1>1, <2>1 DEF CuttingTl, RemovesChild
<1> QED
  BY <1>2, <1>3, <1>4, <1>5

-----------------------------------------------------------------------------
(* The tree: a file is stored.                                             *)

LEMMA KindsAlike ==
  ASSUME Typed, BlobStores, Busy
  PROVE  /\ job.todo[1][1] \in {"open", "fill"} =>
              \A i \in DOMAIN job.todo: job.todo[i][1] \in {"open", "fill"}
         /\ job.todo[1][1] \notin {"open", "fill"} =>
              \A i \in DOMAIN job.todo: job.todo[i][1] \notin {"open", "fill"}
BY JobSound DEF BlobStores

\* A job that only stores removes nothing.
OnlyStores == \A i \in DOMAIN job.todo: job.todo[i][1] \in {"open", "fill"}
RemovesNothing ==
  /\ \A p: ~Has(<<"cleanSp", p>>) /\ \A u: ~Has(<<"cleanTl", u, p>>)
  /\ \A f: ~Has(<<"remove", f>>) /\ ~Has(<<"discard", f>>)
  /\ Apart /\ Removals /\ Discards
  /\ (Busy => 1 \in DOMAIN job.todo) => Ready

LEMMA StoresRemoveNothing == OnlyStores => RemovesNothing
<1> SUFFICES ASSUME OnlyStores
             PROVE  RemovesNothing
  OBVIOUS
<1>1. /\ \A p: ~Has(<<"cleanSp", p>>) /\ \A u: ~Has(<<"cleanTl", u, p>>)
      /\ \A f: ~Has(<<"remove", f>>) /\ ~Has(<<"discard", f>>)
  BY DEF Has, OnlyStores
<1>2. \A i \in DOMAIN job.todo: About(job.todo[i]) = {}
  BY DEF About, OnlyStores
<1>3. Apart /\ Removals /\ Discards
  BY <1>1, <1>2 DEF Apart, Removals, Discards, OnlyStores
<1>4. (Busy => 1 \in DOMAIN job.todo) => Ready
  BY DEF Ready, Needs, OnlyStores
<1> QED
  BY <1>1, <1>3, <1>4 DEF RemovesNothing

LEMMA StoresRemoveNothingNext == OnlyStores' => RemovesNothing'
BY StoresRemoveNothing, PTL

LEMMA FileSet ==
  ASSUME Typed, NEW f \in Files, NEW c, SetFile(f, c)
  PROVE  /\ \A g \in Files: file'[g] = IF g = f THEN c ELSE file[g]
         /\ \A g \in Files: g # f => (IsWhole(g)' <=> IsWhole(g))
         /\ IsWhole(f)' <=> Whole(c)
BY DEF SetFile, Typed, Types, IsWhole

\* The file is opened.
LEMMA TreeOpens ==
  ASSUME Typed, Children, Grown, Executing, failed = 0, failed' = 0,
         NEW f \in Files, NEW c, Fits(f, c), Now(<<"open", f, c>>), ExecutesOpen(f, c)
  PROVE  Grown'
<1>1. /\ SetFile(f, EMPTY) /\ GoesOn(<<<<"fill", f, c>>>>)
      /\ up' = up /\ Busy /\ Leads(<<<<"fill", f, c>>>>)
  BY NoFailure DEF ExecutesOpen, Executing, Leads, Now
<1>2. /\ \A g \in Files: file'[g] = IF g = f THEN EMPTY ELSE file[g]
      /\ \A g \in Files: IsWhole(g)' <=> g # f /\ IsWhole(g)
  BY <1>1, FileSet, SaysWhole
<1>3. /\ Smooth' /\ client'.steps = client.steps /\ client'.regardless = client.regardless
      /\ client'.undo = client.undo
  BY <1>1, SmoothAfter DEF Grown
<1>4. /\ 1 \in DOMAIN job'.todo /\ job'.todo[1] = <<"fill", f, c>>
      /\ \A i \in DOMAIN job'.todo: i # 1 => i \in DOMAIN job.todo /\ job'.todo[i] = job.todo[i]
      /\ \A i \in DOMAIN job'.todo: i \in Nat /\ DOMAIN job'.todo = DOMAIN job.todo
  <2>1. PICK more: more = <<<<"fill", f, c>>>>
    OBVIOUS
  <2>2. DOMAIN more = {1} /\ Len(more) = 1 /\ more[1] = <<"fill", f, c>>
    BY <2>1
  <2>3. /\ \A i \in DOMAIN more: i \in DOMAIN job'.todo /\ job'.todo[i] = more[i]
        /\ \A i \in DOMAIN job'.todo:
              \/ i \in DOMAIN more
              \/ i - Len(more) + 1 \in DOMAIN job.todo /\ job'.todo[i] = job.todo[i - Len(more) + 1]
        /\ job'.todo \in Seq(Tasks) /\ Len(job'.todo) = Len(more) + Len(job.todo) - 1
    BY <1>1, <2>1, TodoAfter DEF Grown
  <2>4. \A i \in DOMAIN job'.todo: i \in Nat
    BY <2>3
  <2>5. DOMAIN job'.todo = 1..Len(job'.todo) /\ DOMAIN job.todo = 1..Len(job.todo)
        /\ Len(job.todo) \in Nat
    BY <1>1, <2>3, JobSound
  <2>6. DOMAIN job'.todo = DOMAIN job.todo
    BY <2>2, <2>3, <2>5
  <2>7. \A i \in Nat: i - 1 + 1 = i
    OBVIOUS
  <2> QED
    BY <2>2, <2>3, <2>4, <2>6, <2>7
<1>5. OnlyStores /\ OnlyStores'
  BY <1>1, <1>4, KindsAlike DEF Grown, Now, OnlyStores
<1>6. RemovesNothing /\ RemovesNothing' /\ Busy'
  BY <1>4, <1>5, StoresRemoveNothing, StoresRemoveNothingNext DEF Busy
<1>7. (\A g: ~Fills(g)) /\ \A g: Fills(g)' <=> g = f
  BY <1>4, <1>6 DEF Fills, Now
<1>8. \A g: Stores1(job.todo, g) <=> g = f
  BY <1>1 DEF Stores1, Now, Busy
<1>9. \A g: Stores1(job'.todo, g) <=> g = f
  BY <1>4, <1>6 DEF Stores1, Busy
<1>10. job.todo[1][3] = c /\ job'.todo[1][3] = c
  BY <1>4 DEF Now
<1>11. NoneBroken'
  BY <1>2, <1>7, BrokenDiffer, SaysWhole DEF Grown, NoneBroken
<1>12. StoresWhole'
  <2>1. f = Root => \A p \in c: p \in SPs
    BY FitsWhat
  <2>2. \A p \in SPs: f = Sp(p) => \A u \in c: u \in TAs
    BY FitsWhat
  <2>3. ASSUME f = Root, NEW p \in c
        PROVE  Subtree(p)'
    <3>1. Subtree(p) /\ p \in SPs
      BY <1>8, <1>10, <2>1, <2>3 DEF Grown, StoresWhole
    <3>2. file[Sp(p)] \subseteq TAs
      BY <3>1, WholeFits DEF Subtree, SubtreeBut
    <3> QED
      BY <1>2, <2>3, <3>1, <3>2, FilesAre, FileNames DEF Subtree, SubtreeBut
  <2>4. ASSUME NEW p \in SPs, f = Sp(p), NEW u \in c
        PROVE  IsWhole(Tl(u, p))'
    BY <1>2, <1>8, <1>10, <2>2, <2>4, FilesAre, FileNames DEF Grown, StoresWhole
  <2> QED
    BY <1>9, <1>10, <2>3, <2>4 DEF StoresWhole
<1>13. BlobStores'
  <2>1. ASSUME NEW i \in DOMAIN job'.todo, NEW u \in TAs, OpensSpid(i, u)'
        PROVE  /\ \A p \in job'.todo[i][3]: IsWhole(Tl(u, p))'
               /\ \/ i = 1 /\ IsWhole(Tabin(u))'
                  \/ i = 2 /\ job'.todo[1][2] = Tabin(u)
    <3>1. i \in DOMAIN job.todo /\ OpensSpid(i, u) /\ job'.todo[i][3] = job.todo[i][3]
      BY <1>1, <1>4, <1>10, <2>1 DEF OpensSpid, Now
    <3>2. /\ \A p \in job.todo[i][3]: IsWhole(Tl(u, p))
          /\ \/ i = 1 /\ IsWhole(Tabin(u))
             \/ i = 2 /\ job.todo[1][2] = Tabin(u)
      BY <3>1 DEF Grown, BlobStores
    <3>3. \A p \in job.todo[i][3]: p \in SPs
      <4>1. Fits(Spid(u), job.todo[i][3])
        BY <1>1, <3>1, JobSound DEF Sound, OpensSpid
      <4> QED
        BY <4>1, FitsWhat
    <3>4. f = Spid(u) \/ f = Tabin(u)
      BY <3>1, <3>2 DEF OpensSpid, Now
    <3> QED
      BY <1>1, <1>2, <1>4, <3>1, <3>2, <3>3, <3>4, FilesAre, FileNames DEF OpensSpid, Now
  <2> QED
    BY <1>5, <2>1 DEF BlobStores, OnlyStores
<1>14. BlobsKept'
  <2>1. ASSUME NEW u \in TAs, NEW p \in SPs, Names(u, p)'
        PROVE  /\ IsWhole(Tl(u, p))' \/ Fills(Tl(u, p))'
               /\ IsWhole(Tabin(u))' \/ Fills(Tabin(u))'
    <3>1. f # Spid(u) /\ Names(u, p)
      <4>1. {p} # EMPTY
        BY SaysWhole
      <4> QED
        BY <1>2, <2>1, <4>1, FilesAre DEF Names
    <3>2. IsWhole(Tl(u, p)) /\ IsWhole(Tabin(u))
      BY <1>6, <1>7, <3>1 DEF Grown, BlobsKept, RemovesNothing
    <3> QED
      BY <1>2, <1>7, <3>2, FilesAre
  <2> QED
    BY <2>1 DEF BlobsKept
<1>15. /\ \A p, d: (AddsSp(p, d)' <=> AddsSp(p, d)) /\ (CutsSp(p, d)' <=> CutsSp(p, d))
       /\ \A u, p, d: (AddsTl(u, p, d)' <=> AddsTl(u, p, d)) /\ (CutsTl(u, p, d)' <=> CutsTl(u, p, d))
       /\ \A p \in SPs: ~CutsSpOf(p) /\ ~CutsSpOf(p)'
       /\ \A u \in TAs, p \in SPs: ~CutsTlOf(u, p) /\ ~CutsTlOf(u, p)'
  <2>1. job.todo[1][1] = "open"
    BY DEF Now
  <2> QED
    BY <1>1, <1>3, <2>1, ScriptsSame, PairAtWork
<1>16. TreeHolds'
  <2>1. SUFFICES ASSUME NEW p \in SPs, RootLists(p)'
                 PROVE  SubtreeBut(p, Missing(p))' \/ Changing(p)'
    BY DEF TreeHolds
  <2>2. f # Root /\ RootLists(p)
    BY <1>2, <2>1, FilesAre DEF RootLists
  <2>3. CASE f = Sp(p)
    BY <1>9, <2>3 DEF Changing
  <2>4. CASE f # Sp(p)
    <3>1. ~Changing(p)
      BY <1>6, <1>8, <1>15, <2>2, <2>4 DEF Changing, Cutting, RemovesNothing
    <3>2. Missing(p) = {} /\ \A u \in TAs: f = Tl(u, p) => u \in Missing(p)'
      BY <1>7, <1>15 DEF Missing
    <3>3. SubtreeBut(p, {})
      BY <2>2, <3>1, <3>2 DEF Grown, TreeHolds
    <3>4. file[Sp(p)] \subseteq TAs
      BY <3>3, WholeFits DEF SubtreeBut
    <3>5. IsWhole(Sp(p))' /\ file'[Sp(p)] = file[Sp(p)]
      BY <1>2, <2>4, <3>3, FilesAre DEF SubtreeBut
    <3> QED
      BY <1>2, <3>2, <3>3, <3>4, <3>5, FilesAre DEF SubtreeBut
  <2> QED
    BY <2>3, <2>4
<1>17. SendsNext'
  <2>1. ASSUME NEW p \in SPs, NEW d \in SUBSET SPs, AddsSp(p, d)'
        PROVE  IsWhole(Root)' /\ p \notin file'[Root] /\ d = file'[Root] \cup {p}
    <3>1. f = Sp(p)
      BY <1>1, <1>8, <1>15, <2>1, PairAtWork
    <3> QED
      BY <1>2, <1>15, <2>1, <3>1, FilesAre, FileNames DEF Grown, SendsNext
  <2>2. ASSUME NEW u \in TAs, NEW p \in SPs, NEW d \in SUBSET TAs, AddsTl(u, p, d)'
        PROVE  RootLists(p)' /\ IsWhole(Sp(p))' /\ d = file'[Sp(p)] \cup {u}
    <3>1. f = Tl(u, p)
      BY <1>1, <1>8, <1>15, <2>2, PairAtWork
    <3>2. RootLists(p) /\ IsWhole(Sp(p)) /\ d = file[Sp(p)] \cup {u}
      BY <1>15, <2>2 DEF Grown, SendsNext
    <3>3. Root # f /\ Sp(p) # f /\ Root \in Files /\ Sp(p) \in Files
      BY <3>1, FilesAre, FileNames
    <3> QED
      BY <1>2, <3>2, <3>3 DEF RootLists
  <2> QED
    BY <1>15, <2>1, <2>2 DEF SendsNext, CutsSpOf, CutsTlOf
<1> QED
  BY <1>3, <1>4, <1>6, <1>11, <1>12, <1>13, <1>14, <1>16, <1>17 DEF Grown, RemovesNothing

\* The file is written.
LEMMA TreeFills ==
  ASSUME Typed, Token, Children, Grown, Executing, failed = 0, failed' = 0,
         NEW f \in Files, NEW c, Fits(f, c), Now(<<"fill", f, c>>), ExecutesFill(f, c)
  PROVE  Grown'
<1>1. SetFile(f, c) /\ GoesOn(<<>>) /\ up' = up /\ Busy /\ Leads(<<>>)
  BY NoFailure DEF ExecutesFill, Executing, Leads
<1>2. Whole(c)
  <2>1. 0 \in Slots /\ Todo(0) = job.todo
    BY DEF Slots, Todo, Typed, Types
  <2>2. f = Auth => c # GARBAGE
    BY <1>1, <2>1 DEF Token, NoGarbage, Garbage, Stores1, Now, Busy
  <2> QED
    BY <2>2, FitsWhat
<1>3. /\ \A g \in Files: file'[g] = IF g = f THEN c ELSE file[g]
      /\ \A g \in Files: IsWhole(g)' <=> g = f \/ IsWhole(g)
  BY <1>1, <1>2, FileSet
<1>4. /\ Smooth' /\ client'.steps = client.steps /\ client'.regardless = client.regardless
      /\ client'.undo = client.undo
  BY <1>1, SmoothAfter DEF Grown
<1>5. /\ \A i \in DOMAIN job'.todo: /\ i \in Nat /\ i >= 1 /\ i + 1 \in DOMAIN job.todo
                                    /\ job'.todo[i] = job.todo[i + 1]
      /\ Busy' => 1 \in DOMAIN job'.todo
  <2>1. PICK more: more = <<>>
    OBVIOUS
  <2>2. DOMAIN more = {} /\ Len(more) = 0
    BY <2>1
  <2>3. /\ \A i \in DOMAIN job'.todo:
              \/ i \in DOMAIN more
              \/ i - Len(more) + 1 \in DOMAIN job.todo /\ job'.todo[i] = job.todo[i - Len(more) + 1]
        /\ job'.todo \in Seq(Tasks)
    BY <1>1, <2>1, TodoAfter DEF Grown
  <2>4. (\A i \in DOMAIN job'.todo: i \in Nat /\ i >= 1) /\ (Busy' => 1 \in DOMAIN job'.todo)
    BY <2>3 DEF Busy
  <2>5. \A i \in Nat: i - 0 + 1 = i + 1
    OBVIOUS
  <2> QED
    BY <2>2, <2>3, <2>4, <2>5
<1>6. OnlyStores /\ OnlyStores'
  <2>1. OnlyStores
    BY <1>1, KindsAlike DEF Grown, Now, OnlyStores
  <2> QED
    BY <1>5, <2>1 DEF OnlyStores
<1>7. RemovesNothing /\ RemovesNothing' /\ Ready'
  BY <1>5, <1>6, StoresRemoveNothing, StoresRemoveNothingNext DEF RemovesNothing
<1>8. \A i \in DOMAIN job'.todo: \E u \in TAs:
        /\ job'.todo[i][1] = "open" /\ job'.todo[i][2] = Spid(u) /\ OpensSpid(i + 1, u)
        /\ i + 1 = 2 /\ f = Tabin(u)
  <2>1. SUFFICES ASSUME NEW i \in DOMAIN job'.todo
                 PROVE  \E u \in TAs:
                          /\ job'.todo[i][1] = "open" /\ job'.todo[i][2] = Spid(u)
                          /\ OpensSpid(i + 1, u) /\ i + 1 = 2 /\ f = Tabin(u)
    OBVIOUS
  <2>2. Follows(job.todo[i + 1]) /\ job.todo[i + 1][1] \in {"open", "fill"}
    BY <1>1, <1>5, <1>6, JobSound DEF Sound, OnlyStores
  <2>3. PICK u \in TAs: job.todo[i + 1][1] = "open" /\ job.todo[i + 1][2] = Spid(u)
    BY <2>2 DEF Follows
  <2>4. OpensSpid(i + 1, u)
    BY <2>3 DEF OpensSpid
  <2>5. i + 1 # 1
    BY <1>5
  <2>6. i + 1 = 2 /\ job.todo[1][2] = Tabin(u)
    BY <1>5, <2>4, <2>5 DEF Grown, BlobStores
  <2> QED
    BY <1>5, <2>3, <2>4, <2>6 DEF Now
<1>9. (\A g: ~Fills(g)') /\ \A g: Fills(g) <=> g = f
  BY <1>1, <1>5, <1>8 DEF Fills, Now
<1>10. /\ \A g: Stores1(job.todo, g) <=> g = f
       /\ \A g: Stores1(job'.todo, g) => \E u \in TAs: g = Spid(u)
       /\ job.todo[1][3] = c
  BY <1>1, <1>5, <1>8 DEF Stores1, Now, Busy
<1>11. NoneBroken'
  BY <1>3, <1>9 DEF Grown, NoneBroken
<1>12. StoresWhole'
  BY <1>10, FileNames DEF StoresWhole
<1>13. BlobStores'
  <2>1. ASSUME NEW i \in DOMAIN job'.todo, NEW u \in TAs, OpensSpid(i, u)'
        PROVE  /\ \A p \in job'.todo[i][3]: IsWhole(Tl(u, p))'
               /\ i = 1 /\ IsWhole(Tabin(u))'
    <3>1. PICK v \in TAs: /\ job'.todo[i][2] = Spid(v) /\ OpensSpid(i + 1, v)
                          /\ i + 1 = 2 /\ f = Tabin(v)
      BY <1>8
    <3>2. v = u
      BY <2>1, <3>1, FileNames DEF OpensSpid
    <3>3. i = 1 /\ IsWhole(Tabin(u))'
      BY <1>3, <1>5, <3>1, <3>2, FilesAre
    <3>4. \A p \in job.todo[i + 1][3]: IsWhole(Tl(u, p)) /\ p \in SPs
      <4>1. Fits(Spid(u), job.todo[i + 1][3])
        BY <1>1, <1>5, <3>1, <3>2, JobSound DEF Sound, OpensSpid
      <4> QED
        BY <1>5, <3>1, <3>2, <4>1, FitsWhat DEF Grown, BlobStores
    <3> QED
      BY <1>3, <1>5, <3>3, <3>4, FilesAre
  <2> QED
    BY <1>6, <2>1 DEF BlobStores, OnlyStores
<1>14. BlobsKept'
  <2>1. ASSUME NEW u \in TAs, NEW p \in SPs, Names(u, p)'
        PROVE  IsWhole(Tl(u, p))' /\ IsWhole(Tabin(u))'
    <3>1. CASE f = Spid(u)
      <4>1. c = {p}
        BY <1>3, <2>1, <3>1 DEF Names
      <4>2. OpensSpid(1, u) /\ 1 \in DOMAIN job.todo
        BY <1>1, <3>1, JobSound DEF OpensSpid, Now
      <4>3. IsWhole(Tl(u, p)) /\ IsWhole(Tabin(u))
        BY <1>10, <4>1, <4>2 DEF Grown, BlobStores
      <4> QED
        BY <1>3, <4>3, FilesAre
    <3>2. CASE f # Spid(u)
      <4>1. Names(u, p)
        BY <1>3, <2>1, <3>2, FilesAre DEF Names
      <4>2. /\ IsWhole(Tl(u, p)) \/ f = Tl(u, p)
            /\ IsWhole(Tabin(u)) \/ f = Tabin(u)
        BY <1>7, <1>9, <4>1 DEF Grown, BlobsKept, RemovesNothing
      <4> QED
        BY <1>3, <4>2, FilesAre
    <3> QED
      BY <3>1, <3>2
  <2> QED
    BY <2>1 DEF BlobsKept
<1>15. /\ \A p, d: (AddsSp(p, d)' <=> AddsSp(p, d)) /\ (CutsSp(p, d)' <=> CutsSp(p, d))
       /\ \A u, p, d: (AddsTl(u, p, d)' <=> AddsTl(u, p, d)) /\ (CutsTl(u, p, d)' <=> CutsTl(u, p, d))
       /\ \A p \in SPs: ~CutsSpOf(p) /\ ~CutsSpOf(p)'
       /\ \A u \in TAs, p \in SPs: ~CutsTlOf(u, p) /\ ~CutsTlOf(u, p)'
  <2>1. job.todo[1][1] = "fill"
    BY DEF Now
  <2> QED
    BY <1>1, <1>4, <2>1, ScriptsSame, PairAtWork
<1>16. TreeHolds'
  <2>1. SUFFICES ASSUME NEW p \in SPs, RootLists(p)'
                 PROVE  IsWhole(Sp(p))' /\ \A u \in file'[Sp(p)]: IsWhole(Tl(u, p))'
    BY DEF TreeHolds, SubtreeBut
  <2>2. CASE f = Root
    <3>1. p \in c
      BY <1>3, <2>1, <2>2 DEF RootLists
    <3>2. Subtree(p)
      BY <1>10, <2>2, <3>1 DEF Grown, StoresWhole
    <3>3. file[Sp(p)] \subseteq TAs /\ IsWhole(Sp(p)) /\ \A u \in file[Sp(p)]: IsWhole(Tl(u, p))
      BY <3>2, WholeFits DEF Subtree, SubtreeBut
    <3>4. file'[Sp(p)] = file[Sp(p)]
      BY <1>3, <2>2, FilesAre, FileNames
    <3> QED
      BY <1>3, <3>3, <3>4, FilesAre
  <2>3. CASE f = Sp(p)
    <3>1. c \subseteq TAs
      BY <2>3, FitsWhat
    <3>2. \A u \in c: IsWhole(Tl(u, p))
      BY <1>10, <2>3 DEF Grown, StoresWhole
    <3> QED
      BY <1>3, <2>3, <3>1, <3>2, FilesAre
  <2>4. CASE f # Root /\ f # Sp(p)
    <3>1. RootLists(p)
      BY <1>3, <2>1, <2>4, FilesAre DEF RootLists
    <3>2. ~Changing(p)
      BY <1>7, <1>10, <1>15, <2>4 DEF Changing, Cutting, RemovesNothing
    <3>3. \A u \in Missing(p): f = Tl(u, p)
      BY <1>9, <1>15 DEF Missing
    <3>4. SubtreeBut(p, Missing(p))
      BY <3>1, <3>2 DEF Grown, TreeHolds
    <3>5. file[Sp(p)] \subseteq TAs /\ file'[Sp(p)] = file[Sp(p)]
      BY <1>3, <2>4, <3>4, WholeFits, FilesAre DEF SubtreeBut
    <3> QED
      BY <1>3, <3>3, <3>4, <3>5, FilesAre DEF SubtreeBut
  <2> QED
    BY <2>2, <2>3, <2>4
<1>17. SendsNext'
  <2>1. ASSUME NEW p \in SPs, NEW d \in SUBSET SPs, AddsSp(p, d)'
        PROVE  IsWhole(Root)' /\ p \notin file'[Root] /\ d = file'[Root] \cup {p}
    <3>1. f = Sp(p)
      BY <1>1, <1>10, <1>15, <2>1, PairAtWork
    <3> QED
      BY <1>3, <1>15, <2>1, <3>1, FilesAre, FileNames DEF Grown, SendsNext
  <2>2. ASSUME NEW u \in TAs, NEW p \in SPs, NEW d \in SUBSET TAs, AddsTl(u, p, d)'
        PROVE  RootLists(p)' /\ IsWhole(Sp(p))' /\ d = file'[Sp(p)] \cup {u}
    <3>1. f = Tl(u, p)
      BY <1>1, <1>10, <1>15, <2>2, PairAtWork
    <3>2. RootLists(p) /\ IsWhole(Sp(p)) /\ d = file[Sp(p)] \cup {u}
      BY <1>15, <2>2 DEF Grown, SendsNext
    <3>3. Root # f /\ Sp(p) # f /\ Root \in Files /\ Sp(p) \in Files
      BY <3>1, FilesAre, FileNames
    <3> QED
      BY <1>3, <3>2, <3>3 DEF RootLists
  <2> QED
    BY <1>15, <2>1, <2>2 DEF SendsNext, CutsSpOf, CutsTlOf
<1> QED
  BY <1>4, <1>7, <1>11, <1>12, <1>13, <1>14, <1>16, <1>17 DEF Grown, RemovesNothing

-----------------------------------------------------------------------------
(* The tree: the token is renamed or read.                                 *)

LEMMA TreeEnds ==
  ASSUME Typed, Children, Grown, Busy, Len(job.todo) = 1,
         job.todo[1][1] \in {"rename", "read"},
         job' = NoJob, Smooth', client'.steps = client.steps,
         client'.regardless = client.regardless, client'.undo = client.undo,
         \A f \in Files \ {Auth, Backup}: file'[f] = file[f],
         \A f \in {Auth, Backup}: IsWhole(f)' \/ file'[f] = NONE
  PROVE  Grown'
<1>1. job'.todo = <<>> /\ DOMAIN job'.todo = {} /\ ~Busy'
  BY DEF NoJob, Busy
<1>2. /\ \A f \in Files \ {Auth, Backup}: IsWhole(f)' <=> IsWhole(f)
      /\ \A p \in SPs: Sp(p) \in Files \ {Auth, Backup}
      /\ \A u \in TAs: Tabin(u) \in Files \ {Auth, Backup} /\ Spid(u) \in Files \ {Auth, Backup}
      /\ \A u \in TAs, p \in SPs: Tl(u, p) \in Files \ {Auth, Backup}
      /\ Root \in Files \ {Auth, Backup}
  BY FilesAre, FileNames DEF IsWhole
<1>3. RemovesNothing'
  BY <1>1, StoresRemoveNothingNext DEF OnlyStores
<1>4. \A i \in DOMAIN job.todo: i = 1
  BY JobSound
<1>5. \A g: ~Fills(g) /\ ~Fills(g)' /\ ~Stores1(job.todo, g) /\ ~Stores1(job'.todo, g)
  BY <1>1 DEF Fills, Stores1
<1>6. \A f: ~Has(<<"remove", f>>) /\ ~Has(<<"discard", f>>)
  BY <1>4 DEF Has
<1>7. /\ \A p \in SPs, d \in SUBSET SPs: ~AddsSp(p, d)' /\ ~CutsSp(p, d)'
      /\ \A u \in TAs, p \in SPs, d \in SUBSET TAs: ~AddsTl(u, p, d)' /\ ~CutsTl(u, p, d)'
      /\ \A p \in SPs: ~CutsSpOf(p)
      /\ \A u \in TAs, p \in SPs: ~CutsTlOf(u, p)
  <2>1. /\ \A p \in SPs, d \in SUBSET SPs: ~AddsSp(p, d)
        /\ \A u \in TAs, p \in SPs, d \in SUBSET TAs: ~AddsTl(u, p, d)
        /\ \A p \in SPs: ~CutsSpOf(p)
        /\ \A u \in TAs, p \in SPs: ~CutsTlOf(u, p)
    BY <1>5, PairAtWork
  <2> QED
    BY <2>1, ScriptsSame DEF CutsSpOf, CutsTlOf
<1>8. NoneBroken'
  BY <1>2, <1>5 DEF Grown, NoneBroken
<1>9. TreeHolds'
  <2>1. SUFFICES ASSUME NEW p \in SPs, RootLists(p)'
                 PROVE  IsWhole(Sp(p))' /\ \A u \in file'[Sp(p)]: IsWhole(Tl(u, p))'
    BY DEF TreeHolds, SubtreeBut
  <2>2. RootLists(p)
    BY <1>2, <2>1 DEF RootLists
  <2>3. ~Changing(p) /\ Missing(p) = {}
    BY <1>5, <1>6, <1>7 DEF Changing, Cutting, Missing
  <2>4. SubtreeBut(p, {})
    BY <2>2, <2>3 DEF Grown, TreeHolds
  <2>5. file[Sp(p)] \subseteq TAs
    BY <2>4, WholeFits DEF SubtreeBut
  <2> QED
    BY <1>2, <2>4, <2>5 DEF SubtreeBut
<1>10. BlobsKept'
  BY <1>2, <1>5, <1>6 DEF Grown, BlobsKept, Names
<1>11. StoresWhole' /\ BlobStores' /\ SendsNext'
  BY <1>1, <1>5, <1>7 DEF StoresWhole, BlobStores, SendsNext
<1>12. (Busy' => 1 \in DOMAIN job'.todo)
  BY <1>1
<1> QED
  BY <1>3, <1>8, <1>9, <1>10, <1>11, <1>12 DEF Grown, RemovesNothing

LEMMA TreeEndsSmooth ==
  ASSUME Typed, Smooth, Busy, up' = up, Answers("ok")
  PROVE  /\ job' = NoJob /\ Smooth' /\ client'.steps = client.steps
         /\ client'.regardless = client.regardless /\ client'.undo = client.undo
<1>1. /\ job' = NoJob /\ queued' = <<>> /\ client'.steps = client.steps
      /\ client'.regardless = client.regardless /\ client'.undo = client.undo
      /\ client'.answer \in {"none", "ok"}
  BY EndsJobs DEF Typed, Smooth
<1>2. ~Busy'
  BY <1>1 DEF NoJob, Busy
<1> QED
  BY <1>1, <1>2 DEF Smooth

LEMMA TreeRenames ==
  ASSUME Typed, Token, Children, Grown, Executing, failed = 0, failed' = 0,
         job.todo[1][1] = "rename", ExecutesRename
  PROVE  Grown'
<1>1. Busy /\ up' = up
  BY DEF Executing
<1>2. file[Auth] = {} /\ Len(job.todo) = 1
  <2>1. 0 \in Slots /\ Todo(0) = job.todo
    BY DEF Slots, Todo, Typed, Types
  <2> QED
    BY <1>1, <2>1 DEF Token, RenameOnce, Renames, Busy
<1>3. /\ file' = [file EXCEPT ![Backup] = file[Auth], ![Auth] = NONE]
      /\ GoesOn(<<>>)
  BY <1>2, NoFailure, SaysWhole DEF ExecutesRename
<1>4. Answers("ok")
  BY <1>1, <1>2, <1>3, EndsAlone DEF Typed
<1>5. /\ file'[Auth] = NONE /\ file'[Backup] = {}
      /\ \A f \in Files \ {Auth, Backup}: file'[f] = file[f]
  BY <1>2, <1>3, FilesAre, FileNames DEF Typed, Types
<1>6. IsWhole(Backup)'
  BY <1>5, SaysWhole DEF IsWhole
<1>7. /\ job' = NoJob /\ Smooth' /\ client'.steps = client.steps
      /\ client'.regardless = client.regardless /\ client'.undo = client.undo
  BY <1>1, <1>4, TreeEndsSmooth DEF Grown
<1> QED
  BY <1>1, <1>2, <1>5, <1>6, <1>7, TreeEnds

LEMMA TreeReads ==
  ASSUME Typed, Token, Children, Grown, Executing, failed = 0, failed' = 0,
         job.todo[1][1] = "read", ExecutesRead
  PROVE  Grown'
<1>1. Busy /\ up' = up
  BY DEF Executing
<1>2. file[Auth] = {} /\ Len(job.todo) = 1
  BY <1>1 DEF Grown, Smooth, Ready, Token, RenameOnce, TokenNeeded
<1>3. Answers("ok") /\ file' = file
  BY <1>2, NoFailure DEF ExecutesRead, TokenSize, Keep
<1>4. \A f \in Files: IsWhole(f)' \/ file'[f] = NONE
  BY <1>3 DEF Grown, NoneBroken, Fills, IsWhole
<1>5. /\ job' = NoJob /\ Smooth' /\ client'.steps = client.steps
      /\ client'.regardless = client.regardless /\ client'.undo = client.undo
  BY <1>1, <1>3, TreeEndsSmooth DEF Grown
<1> QED
  BY <1>1, <1>2, <1>3, <1>4, <1>5, TreeEnds, FilesAre

-----------------------------------------------------------------------------
(* The tree: containers are cleaned up.                                    *)

LEMMA NeedsKept ==
  ASSUME Typed, NEW t \in Tasks, Needs(t), t[1] # "cleanRoot",
         \A f \in About(t): file'[f] = file[f]
  PROVE  Needs(t)'
<1>1. CASE t[1] = "cleanSp"
  <2>1. t[2] \in SPs /\ IsWhole(Sp(t[2])) /\ \A u \in file[Sp(t[2])]: IsWhole(Tl(u, t[2]))
    BY <1>1, TaskKinds DEF Needs, Subtree, SubtreeBut
  <2>2. file[Sp(t[2])] \subseteq TAs
    BY <2>1, WholeFits
  <2>3. file'[Sp(t[2])] = file[Sp(t[2])] /\ \A u \in TAs: file'[Tl(u, t[2])] = file[Tl(u, t[2])]
    BY <1>1 DEF About
  <2> QED
    BY <1>1, <2>1, <2>2, <2>3 DEF Needs, Subtree, SubtreeBut, IsWhole
<1>2. CASE t[1] = "cleanTl"
  <2>1. file'[Tl(t[2], t[3])] = file[Tl(t[2], t[3])]
    BY <1>2 DEF About
  <2> QED
    BY <1>2, <2>1 DEF Needs, IsWhole
<1>3. CASE t[1] = "remove"
  <2>1. file'[t[2]] = file[t[2]]
    BY <1>3 DEF About
  <2> QED
    BY <1>3, <2>1 DEF Needs, IsWhole
<1> QED
  BY <1>1, <1>2, <1>3 DEF Needs

LEMMA AboutFiles ==
  ASSUME NEW t \in Tasks
  PROVE  About(t) \subseteq Containers
BY TaskKinds DEF About, Containers

\* A task of a clean-up is replaced by the ones it stands for.
LEMMA CleaningGoesOn ==
  ASSUME Typed, Grown, Executing, NEW more, GoesOn(more), Leads(more),
         job.todo[1][1] \notin {"open", "fill"},
         \A i \in DOMAIN more: more[i][1] \notin {"open", "fill", "cleanRoot", "read"},
         Len(job.todo) = 1 \/ \A i \in DOMAIN more: About(more[i]) \subseteq About(job.todo[1]),
         \A i, j \in DOMAIN more: i # j => About(more[i]) \cap About(more[j]) = {},
         \A f \in Containers: f \in About(job.todo[1]) \/ file'[f] = file[f],
         \A i \in DOMAIN more: Needs(more[i])'
  PROVE  /\ Smooth' /\ client'.steps = client.steps
         /\ client'.regardless = client.regardless /\ client'.undo = client.undo
         /\ Apart' /\ Ready' /\ StoresWhole' /\ BlobStores'
         /\ \A g: ~Fills(g) /\ ~Fills(g)' /\ ~Stores1(job.todo, g) /\ ~Stores1(job'.todo, g)
<1>1. Busy /\ up' = up
  BY DEF Executing
<1>2. /\ Smooth' /\ client'.steps = client.steps
      /\ client'.regardless = client.regardless /\ client'.undo = client.undo
      /\ Busy' => job'.todo[1][1] \notin {"refuse", "read", "cleanRoot"}
  BY <1>1, SmoothAfter DEF Grown
<1>3. \A i \in DOMAIN job'.todo:
        \/ i \in DOMAIN more /\ job'.todo[i] = more[i]
        \/ /\ i - Len(more) + 1 \in DOMAIN job.todo /\ i - Len(more) + 1 > 1
           /\ job'.todo[i] = job.todo[i - Len(more) + 1]
  BY <1>1, TodoAfter DEF Grown
<1>4. /\ \A i \in DOMAIN job'.todo: i \in Int /\ (Busy' => 1 \in DOMAIN job'.todo)
      /\ Len(more) \in Int /\ Len(job.todo) \in Nat /\ DOMAIN job.todo = 1..Len(job.todo)
      /\ DOMAIN job'.todo = 1..Len(job'.todo) /\ (Busy' => 1 \in DOMAIN job'.todo)
  <2>1. job'.todo \in Seq(Tasks) /\ more \in Seq(Tasks) /\ job.todo \in Seq(Tasks)
    BY <1>1, TodoAfter, JobSound DEF Grown
  <2> QED
    BY <2>1 DEF Busy
<1>5. \A k \in DOMAIN job.todo:
        /\ job.todo[k][1] \notin {"open", "fill"} /\ job.todo[k] \in Tasks
        /\ k > 1 => job.todo[k][1] # "cleanRoot"
  BY <1>1, JobSound, KindsAlike DEF Grown, Sound, Follows
<1>6. \A k \in DOMAIN job.todo: k > 1 => About(job.todo[k]) \cap About(job.todo[1]) = {}
  <2>1. 1 \in DOMAIN job.todo
    BY <1>1, JobSound
  <2>2. SUFFICES ASSUME NEW k \in DOMAIN job.todo, k > 1
                 PROVE  About(job.todo[k]) \cap About(job.todo[1]) = {}
    OBVIOUS
  <2>3. k # 1
    BY <2>2
  <2>4. Apart
    BY DEF Grown
  <2> QED
    BY <2>1, <2>3, <2>4 DEF Apart
<1>7. Apart'
  <2>1. SUFFICES ASSUME NEW i \in DOMAIN job'.todo, NEW j \in DOMAIN job'.todo, i # j
                 PROVE  About(job'.todo[i]) \cap About(job'.todo[j]) = {}
    BY DEF Apart, About
  <2>2. CASE i \in DOMAIN more /\ job'.todo[i] = more[i]
    <3>1. CASE j \in DOMAIN more /\ job'.todo[j] = more[j]
      BY <2>1, <2>2, <3>1
    <3>2. CASE ~(j \in DOMAIN more /\ job'.todo[j] = more[j])
      <4>1. PICK k \in DOMAIN job.todo: k > 1 /\ job'.todo[j] = job.todo[k]
        BY <1>3, <3>2
      <4>2. About(job.todo[k]) \cap About(job.todo[1]) = {}
        BY <1>6, <4>1
      <4>3. Len(job.todo) # 1
        BY <1>4, <4>1
      <4> QED
        BY <2>2, <4>1, <4>2, <4>3
    <3> QED
      BY <3>1, <3>2
  <2>3. CASE ~(i \in DOMAIN more /\ job'.todo[i] = more[i])
    <3>1. PICK k \in DOMAIN job.todo: /\ k = i - Len(more) + 1 /\ k > 1
                                      /\ job'.todo[i] = job.todo[k]
      BY <1>3, <2>3
    <3>2. CASE j \in DOMAIN more /\ job'.todo[j] = more[j]
      <4>1. About(job.todo[k]) \cap About(job.todo[1]) = {}
        BY <1>6, <3>1
      <4>2. Len(job.todo) # 1
        BY <1>4, <3>1
      <4> QED
        BY <3>1, <3>2, <4>1, <4>2
    <3>3. CASE ~(j \in DOMAIN more /\ job'.todo[j] = more[j])
      <4>1. PICK l \in DOMAIN job.todo: l = j - Len(more) + 1 /\ job'.todo[j] = job.todo[l]
        BY <1>3, <3>3
      <4>2. k # l
        BY <1>4, <2>1, <3>1, <4>1
      <4>3. Apart
        BY DEF Grown
      <4>4. About(job.todo[k]) \cap About(job.todo[l]) = {}
        BY <4>2, <4>3 DEF Apart
      <4> QED
        BY <3>1, <4>1, <4>4
    <3> QED
      BY <3>2, <3>3
  <2> QED
    BY <2>2, <2>3
<1>8. Ready'
  <2>1. SUFFICES ASSUME NEW i \in DOMAIN job'.todo
                 PROVE  Needs(job.todo[i])'
    BY <1>2 DEF Ready
  <2>2. PICK t: t = job'.todo[i]
    OBVIOUS
  <2>3. Needs(t)'
    <3>1. CASE i \in DOMAIN more /\ job'.todo[i] = more[i]
      BY <2>2, <3>1
    <3>2. CASE ~(i \in DOMAIN more /\ job'.todo[i] = more[i])
      <4>1. PICK k \in DOMAIN job.todo: k > 1 /\ job'.todo[i] = job.todo[k]
        BY <1>3, <3>2
      <4>2. Needs(t) /\ t \in Tasks /\ t[1] # "cleanRoot"
        BY <1>5, <2>2, <4>1 DEF Grown, Ready
      <4>3. About(t) \cap About(job.todo[1]) = {}
        BY <1>6, <2>2, <4>1
      <4>4. \A f \in About(t): file'[f] = file[f]
        BY <4>2, <4>3, AboutFiles
      <4> QED
        BY <4>2, <4>4, NeedsKept
    <3> QED
      BY <3>1, <3>2
  <2> QED
    BY <2>2, <2>3 DEF Needs, Subtree, SubtreeBut, IsWhole
<1>9. \A i \in DOMAIN job'.todo: job'.todo[i][1] \notin {"open", "fill"}
  BY <1>3, <1>5
<1>10. \A g: ~Fills(g) /\ ~Fills(g)' /\ ~Stores1(job.todo, g) /\ ~Stores1(job'.todo, g)
  BY <1>4, <1>9 DEF Fills, Stores1, Busy
<1>11. StoresWhole' /\ BlobStores'
  BY <1>9, <1>10 DEF StoresWhole, BlobStores, OpensSpid
<1> QED
  BY <1>2, <1>7, <1>8, <1>10, <1>11

\* A clean-up task that changes no file.
Cleans == job.todo[1][1] \in {"cleanRoot", "cleanSp", "cleanTl"}

LEMMA CleaningKeeps ==
  ASSUME Typed, Children, Grown, Executing, NEW more, GoesOn(more), Cleans, file' = file,
         client'.steps = client.steps, client'.regardless = client.regardless,
         client'.undo = client.undo,
         \A g: ~Fills(g) /\ ~Fills(g)' /\ ~Stores1(job.todo, g) /\ ~Stores1(job'.todo, g)
  PROVE  /\ NoneBroken' /\ TreeHolds' /\ BlobsKept' /\ SendsNext'
         /\ \A p \in SPs: (Cutting(p) => Cutting(p)') /\ (RootLists(p)' <=> RootLists(p))
         /\ \A u \in TAs, p \in SPs: /\ CutsTlOf(u, p)' <=> CutsTlOf(u, p)
                                     /\ Names(u, p)' <=> Names(u, p)
         /\ \A i \in DOMAIN job.todo: job.todo[i][1] # "discard"
<1>1. \A f: IsWhole(f)' <=> IsWhole(f)
  BY DEF IsWhole
<1>2. \A i \in DOMAIN job.todo: job.todo[i][1] # "discard"
  BY DEF Grown, Discards, Cleans
<1>3. /\ \A p, d: (AddsSp(p, d)' <=> AddsSp(p, d)) /\ (CutsSp(p, d)' <=> CutsSp(p, d))
      /\ \A u, p, d: (AddsTl(u, p, d)' <=> AddsTl(u, p, d)) /\ (CutsTl(u, p, d)' <=> CutsTl(u, p, d))
      /\ \A p: CutsSpOf(p)' <=> CutsSpOf(p)
      /\ \A u, p: CutsTlOf(u, p)' <=> CutsTlOf(u, p)
  BY ScriptsSame
<1>4. ASSUME NEW p \in SPs, Cutting(p)
      PROVE  Cutting(p)'
  <2>1. ~Now(<<"remove", Root>>)
    BY DEF Now, Cleans
  <2>2. Has(<<"remove", Root>>) => Has(<<"remove", Root>>)'
    BY <2>1, HasAfter DEF Executing, Grown
  <2> QED
    BY <1>3, <1>4, <2>2 DEF Cutting
<1>5. NoneBroken'
  BY <1>1 DEF Grown, NoneBroken
<1>6. \A p: RootLists(p)' <=> RootLists(p)
  BY <1>1 DEF RootLists
<1>7. TreeHolds'
  <2>1. SUFFICES ASSUME NEW p \in SPs, RootLists(p)'
                 PROVE  SubtreeBut(p, Missing(p))' \/ Changing(p)'
    BY DEF TreeHolds
  <2>2. SubtreeBut(p, Missing(p)) \/ Changing(p)
    BY <1>6, <2>1 DEF Grown, TreeHolds
  <2>3. CASE Changing(p)
    BY <1>4, <2>3 DEF Changing
  <2>4. CASE SubtreeBut(p, Missing(p))
    <3>1. Missing(p)' = Missing(p)
      BY <1>3 DEF Missing
    <3> QED
      BY <1>1, <2>4, <3>1 DEF SubtreeBut
  <2> QED
    BY <2>2, <2>3, <2>4
<1>8. BlobsKept'
  <2>1. \A f: ~Has(<<"discard", f>>)
    BY <1>2 DEF Has
  <2> QED
    BY <1>1, <2>1 DEF Grown, BlobsKept, Names
<1>9. SendsNext'
  BY <1>1, <1>3, <1>6 DEF Grown, SendsNext
<1> QED
  BY <1>2, <1>3, <1>4, <1>5, <1>6, <1>7, <1>8, <1>9 DEF Names

\* The root is cleaned up: its providers, then the root itself.
LEMMA TreeCleansRoot ==
  ASSUME Typed, Children, Grown, Executing, failed = 0, failed' = 0,
         job.todo[1][1] = "cleanRoot", ExecutesCleanRoot
  PROVE  Grown'
<1>1. Busy /\ up' = up /\ 1 \in DOMAIN job.todo
  BY JobSound DEF Executing
<1>2. IsWhole(Root) /\ Len(job.todo) = 1
  BY <1>1 DEF Grown, Ready, Needs
<1>3. PICK s \in Orders(file[Root]): GoesOn(RootTasks(s)) /\ file' = file
  BY <1>2, BrokenDiffer DEF ExecutesCleanRoot, CleansNothing, IsWhole, Whole, Broken, Keep
<1>4. PICK more: more = RootTasks(s)
  OBVIOUS
<1>5. /\ GoesOn(more) /\ more # <<>> /\ DOMAIN s = 1..Len(s) /\ Len(s) \in Nat
      /\ DOMAIN more = 1..(Len(s) + 1) /\ Len(more) = Len(s) + 1
      /\ \A i \in DOMAIN s: s[i] \in file[Root] /\ s[i] \in SPs /\ more[i] = <<"cleanSp", s[i]>>
      /\ more[Len(s) + 1] = <<"remove", Root>>
      /\ \A i, j \in DOMAIN s: s[i] = s[j] => i = j
  BY <1>2, <1>3, <1>4, RootTasksAre
<1>6. \A i \in DOMAIN more: i \in DOMAIN s \/ i = Len(s) + 1
  BY <1>5
<1>7. \A i \in DOMAIN more: more[i][1] \in {"cleanSp", "remove"}
  BY <1>5, <1>6
<1>8. Leads(more)
  <2>1. 1 \in DOMAIN more
    BY <1>5
  <2> QED
    BY <1>7, <2>1 DEF Leads
<1>9. \A i, j \in DOMAIN more: i # j => About(more[i]) \cap About(more[j]) = {}
  <2>1. \A i \in DOMAIN s: About(more[i]) = {Sp(s[i])} \cup {Tl(u, s[i]): u \in TAs}
    BY <1>5 DEF About
  <2>2. About(more[Len(s) + 1]) = {Root}
    BY <1>5 DEF About
  <2>3. \A p, q: p # q =>
          ({Sp(p)} \cup {Tl(u, p): u \in TAs}) \cap ({Sp(q)} \cup {Tl(u, q): u \in TAs}) = {}
    BY FileNames
  <2>4. \A p: ({Sp(p)} \cup {Tl(u, p): u \in TAs}) \cap {Root} = {}
    BY FileNames
  <2> SUFFICES ASSUME NEW i \in DOMAIN more, NEW j \in DOMAIN more, i # j
               PROVE  About(more[i]) \cap About(more[j]) = {}
    OBVIOUS
  <2>5. CASE i \in DOMAIN s /\ j \in DOMAIN s
    <3>1. s[i] # s[j]
      BY <1>5, <2>5
    <3> QED
      BY <2>1, <2>3, <2>5, <3>1
  <2>6. CASE i = Len(s) + 1
    <3>1. j \in DOMAIN s
      BY <1>6, <2>6
    <3>2. /\ About(more[i]) = {Root}
          /\ About(more[j]) = {Sp(s[j])} \cup {Tl(u, s[j]): u \in TAs}
      BY <2>1, <2>2, <2>6, <3>1
    <3> QED
      BY <2>4, <3>2
  <2>7. CASE j = Len(s) + 1
    <3>1. i \in DOMAIN s
      BY <1>6, <2>7
    <3>2. /\ About(more[j]) = {Root}
          /\ About(more[i]) = {Sp(s[i])} \cup {Tl(u, s[i]): u \in TAs}
      BY <2>1, <2>2, <2>7, <3>1
    <3> QED
      BY <2>4, <3>2
  <2> QED
    BY <1>6, <2>5, <2>6, <2>7
<1>10. \A f: ~Has(<<"remove", f>>)
  BY <1>2, JobSound, <1>1 DEF Has
<1>11. \A g: ~Stores1(job.todo, g) /\ ~Fills(g)
  BY DEF Stores1, Fills
<1>12. \A p \in SPs: ~CutsSpOf(p) /\ \A u \in TAs: ~CutsTlOf(u, p)
  BY <1>1, PairAtWork
<1>13. \A p \in SPs: p \in file[Root] => Subtree(p)
  <2>1. SUFFICES ASSUME NEW p \in SPs, p \in file[Root]
                 PROVE  Subtree(p)
    OBVIOUS
  <2>2. ~Changing(p) /\ Missing(p) = {}
    BY <1>10, <1>11, <1>12 DEF Changing, Cutting, Missing
  <2> QED
    BY <1>2, <2>1, <2>2 DEF Grown, TreeHolds, Subtree, RootLists
<1>14. \A i \in DOMAIN more: Needs(more[i])'
  <2>1. \A p \in SPs: p \in file[Root] => Subtree(p)'
    BY <1>3, <1>13 DEF Subtree, SubtreeBut, IsWhole
  <2>2. IsWhole(Root)'
    BY <1>2, <1>3 DEF IsWhole
  <2>3. \A i \in DOMAIN s: Needs(more[i])'
    BY <1>5, <2>1 DEF Needs
  <2>4. Needs(more[Len(s) + 1])'
    BY <1>5, <2>2 DEF Needs
  <2> QED
    BY <1>6, <2>3, <2>4
<1>15. /\ Smooth' /\ client'.steps = client.steps
       /\ client'.regardless = client.regardless /\ client'.undo = client.undo
       /\ Apart' /\ Ready' /\ StoresWhole' /\ BlobStores'
       /\ \A g: ~Fills(g) /\ ~Fills(g)' /\ ~Stores1(job.todo, g) /\ ~Stores1(job'.todo, g)
  BY <1>2, <1>3, <1>5, <1>7, <1>8, <1>9, <1>14, CleaningGoesOn
<1>16. /\ NoneBroken' /\ TreeHolds' /\ BlobsKept' /\ SendsNext'
       /\ \A i \in DOMAIN job.todo: job.todo[i][1] # "discard"
  BY <1>3, <1>5, <1>15, CleaningKeeps DEF Cleans
<1>17. \A i \in DOMAIN job'.todo: i \in DOMAIN more /\ job'.todo[i] = more[i]
  <2>1. \A i \in DOMAIN job'.todo:
          \/ i \in DOMAIN more
          \/ i - Len(more) + 1 \in DOMAIN job.todo /\ i - Len(more) + 1 > 1
    BY <1>1, <1>5, TodoAfter DEF Grown
  <2>2. \A k \in DOMAIN job.todo: ~(k > 1)
    BY <1>1, <1>2, JobSound
  <2>3. \A i \in DOMAIN more: job'.todo[i] = more[i]
    BY <1>1, <1>5, TodoAfter DEF Grown
  <2> QED
    BY <2>1, <2>2, <2>3
<1>18. Has(<<"remove", Root>>)'
  <2>1. Len(s) + 1 \in DOMAIN more
    BY <1>5
  <2>2. Has(more[Len(s) + 1])'
    BY <1>1, <1>5, <2>1, HasAfter DEF Grown
  <2> QED
    BY <1>5, <2>2
<1>19. Removals'
  BY <1>18 DEF Removals, Cutting
<1>20. Discards'
  <2>1. \A i \in DOMAIN job'.todo: job'.todo[i][1] # "discard"
    BY <1>7, <1>17
  <2>2. \A u \in TAs, p \in SPs: ~Has(<<"remove", Tl(u, p)>>)'
    <3>1. \A u, p: <<"remove", Tl(u, p)>> # <<"remove", Root>>
      BY FileNames
    <3>2. \A i \in DOMAIN job'.todo: job'.todo[i][1] = "cleanSp" \/ job'.todo[i] = <<"remove", Root>>
      BY <1>5, <1>6, <1>17
    <3> QED
      BY <3>1, <3>2 DEF Has
  <2> QED
    BY <2>1, <2>2 DEF Discards
<1> QED
  BY <1>15, <1>16, <1>19, <1>20 DEF Grown

\* A provider is cleaned up: its Trustlets, then its own container.
LEMMA TreeCleansSp ==
  ASSUME Typed, Children, Grown, Executing, failed = 0, failed' = 0,
         NEW p \in SPs, Now(<<"cleanSp", p>>), ExecutesCleanSp(p)
  PROVE  Grown'
<1>1. Busy /\ up' = up /\ 1 \in DOMAIN job.todo /\ job.todo[1] = <<"cleanSp", p>>
  BY JobSound DEF Executing, Now
<1>2. Subtree(p) /\ IsWhole(Sp(p))
  <2>1. Needs(job.todo[1])
    BY <1>1 DEF Grown, Ready
  <2> QED
    BY <1>1, <2>1 DEF Needs, Subtree, SubtreeBut
<1>3. PICK s \in Orders(file[Sp(p)]): GoesOn(SpTasks(s, p)) /\ file' = file
  BY <1>2, BrokenDiffer DEF ExecutesCleanSp, CleansNothing, IsWhole, Whole, Broken, Keep
<1>4. PICK more: more = SpTasks(s, p)
  OBVIOUS
<1>5. /\ GoesOn(more) /\ more # <<>> /\ DOMAIN s = 1..Len(s) /\ Len(s) \in Nat
      /\ DOMAIN more = 1..(Len(s) + 1) /\ Len(more) = Len(s) + 1
      /\ \A i \in DOMAIN s: s[i] \in file[Sp(p)] /\ s[i] \in TAs /\ more[i] = <<"cleanTl", s[i], p>>
      /\ more[Len(s) + 1] = <<"remove", Sp(p)>>
      /\ \A i, j \in DOMAIN s: s[i] = s[j] => i = j
  BY <1>2, <1>3, <1>4, SpTasksAre
<1>6. \A i \in DOMAIN more: i \in DOMAIN s \/ i = Len(s) + 1
  BY <1>5
<1>7. \A i \in DOMAIN more: more[i][1] \in {"cleanTl", "remove"}
  BY <1>5, <1>6
<1>8. Leads(more)
  <2>1. 1 \in DOMAIN more
    BY <1>5
  <2> QED
    BY <1>7, <2>1 DEF Leads
<1>9. /\ \A i \in DOMAIN s: About(more[i]) = {Tl(s[i], p)}
      /\ About(more[Len(s) + 1]) = {Sp(p)}
  BY <1>5 DEF About
<1>10. \A i, j \in DOMAIN more: i # j => About(more[i]) \cap About(more[j]) = {}
  <2> SUFFICES ASSUME NEW i \in DOMAIN more, NEW j \in DOMAIN more, i # j
               PROVE  About(more[i]) \cap About(more[j]) = {}
    OBVIOUS
  <2>1. CASE i \in DOMAIN s /\ j \in DOMAIN s
    <3>1. Tl(s[i], p) # Tl(s[j], p)
      BY <1>5, <2>1, FileNames
    <3> QED
      BY <1>9, <2>1, <3>1
  <2>2. \A k \in DOMAIN s: {Sp(p)} \cap {Tl(s[k], p)} = {}
    BY FileNames
  <2>3. CASE i \notin DOMAIN s
    <3>1. i = Len(s) + 1 /\ j \in DOMAIN s
      BY <1>6, <2>3
    <3> QED
      BY <1>9, <2>2, <3>1
  <2>4. CASE j \notin DOMAIN s
    <3>1. j = Len(s) + 1 /\ i \in DOMAIN s
      BY <1>6, <2>4
    <3> QED
      BY <1>9, <2>2, <3>1
  <2> QED
    BY <2>1, <2>3, <2>4
<1>11. \A i \in DOMAIN more: About(more[i]) \subseteq About(job.todo[1])
  <2>1. About(job.todo[1]) = {Sp(p)} \cup {Tl(u, p): u \in TAs}
    BY <1>1 DEF About
  <2>2. ASSUME NEW i \in DOMAIN s
        PROVE  About(more[i]) \subseteq About(job.todo[1])
    <3>1. \A u \in TAs: Tl(u, p) \in About(job.todo[1])
      BY <2>1
    <3>2. s[i] \in TAs /\ About(more[i]) = {Tl(s[i], p)}
      BY <1>5, <1>9
    <3> QED
      BY <3>1, <3>2
  <2>3. About(more[Len(s) + 1]) \subseteq About(job.todo[1])
    BY <1>9, <2>1
  <2> QED
    BY <1>6, <2>2, <2>3
<1>12. \A i \in DOMAIN more: Needs(more[i])'
  <2>1. IsWhole(Sp(p))' /\ \A u \in TAs: u \in file[Sp(p)] => IsWhole(Tl(u, p))'
    BY <1>2, <1>3 DEF Subtree, SubtreeBut, IsWhole
  <2>2. \A i \in DOMAIN s: Needs(more[i])'
    BY <1>5, <2>1 DEF Needs
  <2>3. Needs(more[Len(s) + 1])'
    BY <1>5, <2>1 DEF Needs
  <2> QED
    BY <1>6, <2>2, <2>3
<1>13. /\ Smooth' /\ client'.steps = client.steps
       /\ client'.regardless = client.regardless /\ client'.undo = client.undo
       /\ Apart' /\ Ready' /\ StoresWhole' /\ BlobStores'
       /\ \A g: ~Fills(g) /\ ~Fills(g)' /\ ~Stores1(job.todo, g) /\ ~Stores1(job'.todo, g)
  <2>1. /\ job.todo[1][1] \notin {"open", "fill"} /\ GoesOn(more)
        /\ \A i \in DOMAIN more: more[i][1] \notin {"open", "fill", "cleanRoot", "read"}
        /\ \A f \in Containers: file'[f] = file[f]
    BY <1>1, <1>3, <1>5, <1>7
  <2> QED
    BY <1>8, <1>10, <1>11, <1>12, <2>1, CleaningGoesOn
<1>14. /\ NoneBroken' /\ TreeHolds' /\ BlobsKept' /\ SendsNext'
       /\ \A q \in SPs: (Cutting(q) => Cutting(q)') /\ (RootLists(q)' <=> RootLists(q))
       /\ \A u \in TAs, q \in SPs: /\ CutsTlOf(u, q)' <=> CutsTlOf(u, q)
                                   /\ Names(u, q)' <=> Names(u, q)
       /\ \A i \in DOMAIN job.todo: job.todo[i][1] # "discard"
  BY <1>1, <1>3, <1>5, <1>13, CleaningKeeps DEF Cleans
<1>15. \A t: Has(t)' => \/ Has(t)
                        \/ \E u \in TAs: t = <<"cleanTl", u, p>>
                        \/ t = <<"remove", Sp(p)>>
  <2>1. \A t: Has(t)' => Has(t) \/ \E i \in DOMAIN more: more[i] = t
    BY <1>1, <1>5, HasAfter DEF Grown
  <2>2. \A i \in DOMAIN more: \/ \E u \in TAs: more[i] = <<"cleanTl", u, p>>
                              \/ more[i] = <<"remove", Sp(p)>>
    BY <1>5, <1>6
  <2> QED
    BY <2>1, <2>2
<1>16. Has(<<"cleanSp", p>>)
  BY <1>1 DEF Has
<1>17. Removals'
  <2>1. SUFFICES ASSUME NEW q \in SPs, RootLists(q)'
                 PROVE  /\ Has(<<"cleanSp", q>>)' \/ Has(<<"remove", Sp(q)>>)' => Cutting(q)'
                        /\ \A u \in TAs:
                             Has(<<"cleanTl", u, q>>)' \/ Has(<<"remove", Tl(u, q)>>)' =>
                               Cutting(q)' \/ CutsTlOf(u, q)'
    BY DEF Removals
  <2>2. RootLists(q) /\ (Has(<<"cleanSp", q>>) => Cutting(q)')
    BY <1>14, <2>1 DEF Grown, Removals
  <2>3. Has(<<"cleanSp", q>>)' \/ Has(<<"remove", Sp(q)>>)' => Cutting(q)'
    <3>1. Has(<<"cleanSp", q>>)' => Has(<<"cleanSp", q>>)
      BY <1>15
    <3>2. Has(<<"remove", Sp(q)>>)' => Has(<<"remove", Sp(q)>>) \/ q = p
      BY <1>15, FileNames
    <3> QED
      BY <1>14, <1>16, <2>2, <3>1, <3>2 DEF Grown, Removals
  <2>4. ASSUME NEW u \in TAs, Has(<<"cleanTl", u, q>>)' \/ Has(<<"remove", Tl(u, q)>>)'
        PROVE  Cutting(q)' \/ CutsTlOf(u, q)'
    <3>1. Has(<<"cleanTl", u, q>>)' => Has(<<"cleanTl", u, q>>) \/ q = p
      BY <1>15
    <3>2. Has(<<"remove", Tl(u, q)>>)' => Has(<<"remove", Tl(u, q)>>)
      BY <1>15, FileNames
    <3> QED
      BY <1>14, <1>16, <2>2, <2>4, <3>1, <3>2 DEF Grown, Removals
  <2> QED
    BY <2>3, <2>4
<1>18. Discards'
  <2>1. \A i \in DOMAIN job'.todo: job'.todo[i][1] # "discard"
    <3>1. \A i \in DOMAIN job'.todo:
            \/ i \in DOMAIN more
            \/ i - Len(more) + 1 \in DOMAIN job.todo /\ job'.todo[i] = job.todo[i - Len(more) + 1]
      BY <1>1, <1>5, TodoAfter DEF Grown
    <3>2. \A i \in DOMAIN more: job'.todo[i] = more[i]
      BY <1>1, <1>5, TodoAfter DEF Grown
    <3> QED
      BY <1>7, <1>14, <3>1, <3>2
  <2>2. ASSUME NEW u \in TAs, NEW q \in SPs, Has(<<"remove", Tl(u, q)>>)'
        PROVE  ~Names(u, q)'
    <3>1. Has(<<"remove", Tl(u, q)>>)
      BY <1>15, <2>2, FileNames
    <3>2. ~Has(<<"discard", Spid(u)>>)
      BY <1>14 DEF Has
    <3> QED
      BY <1>14, <3>1, <3>2 DEF Grown, Discards
  <2> QED
    BY <2>1, <2>2 DEF Discards
<1> QED
  BY <1>13, <1>14, <1>17, <1>18 DEF Grown

\* A Trustlet is cleaned up: its blob, if there is one, then its container.
LEMMA TreeCleansTl ==
  ASSUME Typed, Children, Grown, Executing, failed = 0, failed' = 0,
         NEW u \in TAs, NEW p \in SPs, Now(<<"cleanTl", u, p>>), ExecutesCleanTl(u, p)
  PROVE  Grown'
<1>1. Busy /\ up' = up /\ 1 \in DOMAIN job.todo /\ job.todo[1] = <<"cleanTl", u, p>>
  BY JobSound DEF Executing, Now
<1>2. IsWhole(Tl(u, p))
  <2>1. Needs(job.todo[1])
    BY <1>1 DEF Grown, Ready
  <2> QED
    BY <1>1, <2>1 DEF Needs
<1>3. /\ \A i \in DOMAIN job.todo: job.todo[i][1] # "discard"
      /\ \A g: ~Fills(g)
  BY <1>1 DEF Grown, Discards, Fills
<1>4. Names(u, p) => BlobFound(u, p)
  <2>1. ~Has(<<"discard", Spid(u)>>)
    BY <1>3 DEF Has
  <2>2. Names(u, p) => IsWhole(Tabin(u))
    BY <1>3, <2>1 DEF Grown, BlobsKept
  <2> QED
    BY <2>2 DEF BlobFound, Names, IsWhole, Whole, Broken
<1>5. file[Tabin(u)] # TORN
  <2>1. Tabin(u) \in Files
    BY FilesAre
  <2> QED
    BY <1>3, <2>1, BrokenDiffer DEF Grown, NoneBroken, IsWhole, Whole, Broken
<1>6. PICK more: /\ GoesOn(more) /\ file' = file
                 /\ more = TlTasks(u, p) \/ (~Names(u, p) /\ more = <<<<"remove", Tl(u, p)>>>>)
  BY <1>4, <1>5 DEF ExecutesCleanTl, Keep
<1>7. \/ /\ DOMAIN more = {1, 2, 3} /\ Len(more) = 3 /\ more[1] = <<"discard", Tabin(u)>>
         /\ more[2] = <<"discard", Spid(u)>> /\ more[3] = <<"remove", Tl(u, p)>>
      \/ ~Names(u, p) /\ DOMAIN more = {1} /\ Len(more) = 1 /\ more[1] = <<"remove", Tl(u, p)>>
  <2>1. CASE more = TlTasks(u, p)
    <3>1. /\ DOMAIN TlTasks(u, p) = 1..3 /\ Len(TlTasks(u, p)) = 3
          /\ TlTasks(u, p)[1] = <<"discard", Tabin(u)>>
          /\ TlTasks(u, p)[2] = <<"discard", Spid(u)>> /\ TlTasks(u, p)[3] = <<"remove", Tl(u, p)>>
      BY DEF TlTasks
    <3>2. 1..3 = {1, 2, 3}
      OBVIOUS
    <3> QED
      BY <2>1, <3>1, <3>2
  <2>2. CASE ~Names(u, p) /\ more = <<<<"remove", Tl(u, p)>>>>
    <3>1. PICK t: t = <<"remove", Tl(u, p)>>
      OBVIOUS
    <3>2. more = <<t>>
      BY <2>2, <3>1
    <3>3. DOMAIN more = {1} /\ Len(more) = 1 /\ more[1] = t
      BY <3>2
    <3> QED
      BY <2>2, <3>1, <3>3
  <2> QED
    BY <1>6, <2>1, <2>2
<1>8. \A i \in DOMAIN more: more[i][1] \in {"discard", "remove"}
  BY <1>7
<1>9. Leads(more)
  BY <1>7, <1>8 DEF Leads
<1>10. \A i \in DOMAIN more: \/ more[i][1] = "discard" /\ About(more[i]) = {}
                             \/ /\ more[i] = <<"remove", Tl(u, p)>>
                                /\ About(more[i]) = {Tl(u, p)} /\ i = Len(more)
  <2>1. /\ \A f: About(<<"discard", f>>) = {} /\ <<"discard", f>>[1] = "discard"
        /\ \A f: About(<<"remove", f>>) = {f}
    BY DEF About
  <2> SUFFICES ASSUME NEW i \in DOMAIN more
               PROVE  \/ more[i][1] = "discard" /\ About(more[i]) = {}
                      \/ /\ more[i] = <<"remove", Tl(u, p)>>
                         /\ About(more[i]) = {Tl(u, p)} /\ i = Len(more)
    OBVIOUS
  <2>2. \/ more[i] = <<"discard", Tabin(u)>>
        \/ more[i] = <<"discard", Spid(u)>>
        \/ more[i] = <<"remove", Tl(u, p)>> /\ i = Len(more)
    BY <1>7
  <2>3. CASE more[i] = <<"discard", Tabin(u)>>
    BY <2>1, <2>3
  <2>4. CASE more[i] = <<"discard", Spid(u)>>
    BY <2>1, <2>4
  <2>5. CASE more[i] = <<"remove", Tl(u, p)>> /\ i = Len(more)
    BY <2>1, <2>5
  <2> QED
    BY <2>2, <2>3, <2>4, <2>5
<1>11. About(job.todo[1]) = {Tl(u, p)}
  BY <1>1 DEF About
<1>12. \A i \in DOMAIN more: Needs(more[i])'
  <2>1. IsWhole(Tl(u, p))'
    BY <1>2, <1>6 DEF IsWhole
  <2> QED
    BY <1>10, <2>1 DEF Needs
<1>13. \A i, j \in DOMAIN more: i # j => About(more[i]) \cap About(more[j]) = {}
  BY <1>10
<1>14. \A i \in DOMAIN more: About(more[i]) \subseteq About(job.todo[1])
  BY <1>10, <1>11
<1>15. /\ Smooth' /\ client'.steps = client.steps
       /\ client'.regardless = client.regardless /\ client'.undo = client.undo
       /\ Apart' /\ Ready' /\ StoresWhole' /\ BlobStores'
       /\ \A g: ~Fills(g) /\ ~Fills(g)' /\ ~Stores1(job.todo, g) /\ ~Stores1(job'.todo, g)
  BY <1>1, <1>6, <1>8, <1>9, <1>12, <1>13, <1>14, CleaningGoesOn
<1>16. /\ NoneBroken' /\ TreeHolds' /\ BlobsKept' /\ SendsNext'
       /\ \A q \in SPs: (Cutting(q) => Cutting(q)') /\ (RootLists(q)' <=> RootLists(q))
       /\ \A v \in TAs, q \in SPs: /\ CutsTlOf(v, q)' <=> CutsTlOf(v, q)
                                   /\ Names(v, q)' <=> Names(v, q)
  BY <1>1, <1>6, <1>15, CleaningKeeps DEF Cleans
<1>17. /\ \A t: Has(t)' => \/ Has(t) \/ t[1] = "discard" \/ t = <<"remove", Tl(u, p)>>
       /\ \A i \in DOMAIN more: Has(more[i])'
  <2>1. /\ \A t: Has(t)' => Has(t) \/ \E i \in DOMAIN more: more[i] = t
        /\ \A i \in DOMAIN more: Has(more[i])'
    BY <1>1, <1>6, HasAfter DEF Grown
  <2> QED
    BY <1>10, <2>1
<1>18. Has(<<"cleanTl", u, p>>)
  BY <1>1 DEF Has
<1>19. Removals'
  <2>1. SUFFICES ASSUME NEW q \in SPs, RootLists(q)'
                 PROVE  /\ Has(<<"cleanSp", q>>)' \/ Has(<<"remove", Sp(q)>>)' => Cutting(q)'
                        /\ \A v \in TAs:
                             Has(<<"cleanTl", v, q>>)' \/ Has(<<"remove", Tl(v, q)>>)' =>
                               Cutting(q)' \/ CutsTlOf(v, q)'
    BY DEF Removals
  <2>2. RootLists(q)
    BY <1>16, <2>1
  <2>3. Has(<<"cleanSp", q>>)' \/ Has(<<"remove", Sp(q)>>)' => Cutting(q)'
    <3>1. Has(<<"cleanSp", q>>)' => Has(<<"cleanSp", q>>)
      BY <1>17
    <3>2. Has(<<"remove", Sp(q)>>)' => Has(<<"remove", Sp(q)>>)
      BY <1>17, FileNames
    <3> QED
      BY <1>16, <2>2, <3>1, <3>2 DEF Grown, Removals
  <2>4. ASSUME NEW v \in TAs, Has(<<"cleanTl", v, q>>)' \/ Has(<<"remove", Tl(v, q)>>)'
        PROVE  Cutting(q)' \/ CutsTlOf(v, q)'
    <3>1. Has(<<"cleanTl", v, q>>)' => Has(<<"cleanTl", v, q>>)
      BY <1>17
    <3>2. Has(<<"remove", Tl(v, q)>>)' => Has(<<"remove", Tl(v, q)>>) \/ (v = u /\ q = p)
      BY <1>17, FileNames
    <3> QED
      BY <1>16, <1>18, <2>2, <2>4, <3>1, <3>2 DEF Grown, Removals
  <2> QED
    BY <2>3, <2>4
<1>20. Discards'
  <2>1. \A i \in DOMAIN job'.todo:
          \/ i \in DOMAIN more /\ job'.todo[i] = more[i]
          \/ job'.todo[i][1] # "discard"
    <3>1. \A i \in DOMAIN job'.todo:
            \/ i \in DOMAIN more
            \/ i - Len(more) + 1 \in DOMAIN job.todo /\ job'.todo[i] = job.todo[i - Len(more) + 1]
      BY <1>1, <1>6, TodoAfter DEF Grown
    <3>2. \A i \in DOMAIN more: job'.todo[i] = more[i]
      BY <1>1, <1>6, TodoAfter DEF Grown
    <3> QED
      BY <1>3, <3>1, <3>2
  <2>2. \A i \in DOMAIN more: i \in DOMAIN job'.todo /\ job'.todo[i] = more[i]
    BY <1>1, <1>6, TodoAfter DEF Grown
  <2>3. \A i \in DOMAIN job'.todo: job'.todo[i][1] = "discard" =>
          /\ i \in {1, 2} /\ 2 \in DOMAIN job'.todo
          /\ job'.todo[1] = <<"discard", Tabin(u)>> /\ job'.todo[2] = <<"discard", Spid(u)>>
    BY <1>7, <2>1, <2>2
  <2>4. ASSUME NEW v \in TAs, NEW q \in SPs, Has(<<"remove", Tl(v, q)>>)'
        PROVE  ~Names(v, q)' \/ Has(<<"discard", Spid(v)>>)'
    <3>1. CASE v = u /\ q = p
      BY <1>7, <1>16, <1>17, <3>1
    <3>2. CASE ~(v = u /\ q = p)
      <4>1. Has(<<"remove", Tl(v, q)>>)
        BY <1>17, <2>4, <3>2, FileNames
      <4>2. ~Has(<<"discard", Spid(v)>>)
        BY <1>3 DEF Has
      <4> QED
        BY <1>16, <4>1, <4>2 DEF Grown, Discards
    <3> QED
      BY <3>1, <3>2
  <2> QED
    BY <2>3, <2>4 DEF Discards
<1> QED
  BY <1>15, <1>16, <1>19, <1>20 DEF Grown

\* The next task of the job is taken up.
LEMMA NoMore ==
  ASSUME Typed, Grown, Executing, GoesOn(<<>>), job.todo[1][1] \notin {"open", "fill"},
         \A f \in Containers: f \in About(job.todo[1]) \/ file'[f] = file[f]
  PROVE  /\ Smooth' /\ Apart' /\ Ready' /\ StoresWhole' /\ BlobStores'
         /\ \A g: ~Fills(g) /\ ~Fills(g)' /\ ~Stores1(job.todo, g) /\ ~Stores1(job'.todo, g)
         /\ \A t: (Has(t)' => Has(t)) /\ (Has(t) => Has(t)' \/ Now(t))
         /\ \A i \in DOMAIN job'.todo: /\ i \in Nat /\ i >= 1 /\ i + 1 \in DOMAIN job.todo
                                       /\ job'.todo[i] = job.todo[i + 1]
         /\ 2 \in DOMAIN job.todo => 1 \in DOMAIN job'.todo
         /\ \A p, d: (AddsSp(p, d)' <=> AddsSp(p, d)) /\ (CutsSp(p, d)' <=> CutsSp(p, d))
         /\ \A u, p, d: /\ AddsTl(u, p, d)' <=> AddsTl(u, p, d)
                        /\ CutsTl(u, p, d)' <=> CutsTl(u, p, d)
         /\ \A p: CutsSpOf(p)' <=> CutsSpOf(p)
         /\ \A u, p: CutsTlOf(u, p)' <=> CutsTlOf(u, p)
<1>1. PICK more: more = <<>>
  OBVIOUS
<1>2. DOMAIN more = {} /\ Len(more) = 0 /\ GoesOn(more) /\ Leads(more)
  BY <1>1 DEF Leads
<1>3. Busy /\ Smooth
  BY DEF Executing, Grown
<1>4. /\ Smooth' /\ client'.steps = client.steps
      /\ client'.regardless = client.regardless /\ client'.undo = client.undo
      /\ Apart' /\ Ready' /\ StoresWhole' /\ BlobStores'
      /\ \A g: ~Fills(g) /\ ~Fills(g)' /\ ~Stores1(job.todo, g) /\ ~Stores1(job'.todo, g)
  BY <1>2, CleaningGoesOn
<1>5. \A t: (Has(t)' => Has(t)) /\ (Has(t) => Has(t)' \/ Now(t))
  BY <1>2, <1>3, HasAfter
<1>6. /\ \A i \in DOMAIN job'.todo: /\ i \in Nat /\ i >= 1 /\ i + 1 \in DOMAIN job.todo
                                    /\ job'.todo[i] = job.todo[i + 1]
      /\ 2 \in DOMAIN job.todo => 1 \in DOMAIN job'.todo
  <2>1. /\ \A i \in DOMAIN job'.todo:
              \/ i \in DOMAIN more
              \/ i - Len(more) + 1 \in DOMAIN job.todo /\ job'.todo[i] = job.todo[i - Len(more) + 1]
        /\ \A k \in DOMAIN job.todo: k > 1 => k - 1 + Len(more) \in DOMAIN job'.todo
        /\ job'.todo \in Seq(Tasks)
    BY <1>2, <1>3, TodoAfter
  <2>2. \A i \in DOMAIN job'.todo: i \in Nat /\ i >= 1
    BY <2>1
  <2>3. (\A i \in Nat: i - 0 + 1 = i + 1) /\ 2 - 1 + 0 = 1 /\ 2 > 1
    OBVIOUS
  <2> QED
    BY <1>2, <2>1, <2>2, <2>3
<1> QED
  BY <1>4, <1>5, <1>6, ScriptsSame

\* A container is removed.
LEMMA TreeRemoves ==
  ASSUME Typed, Children, Grown, Executing, failed = 0, failed' = 0,
         NEW f \in Containers, Now(<<"remove", f>>), ExecutesRemove(f)
  PROVE  Grown'
<1>1. Busy /\ 1 \in DOMAIN job.todo /\ job.todo[1] = <<"remove", f>>
  BY JobSound DEF Executing, Now
<1>2. IsWhole(f)
  <2>1. Needs(job.todo[1])
    BY <1>1 DEF Grown, Ready
  <2> QED
    BY <1>1, <2>1 DEF Needs
<1>3. SetFile(f, NONE) /\ GoesOn(<<>>)
  BY <1>2, NoFailure DEF ExecutesRemove, IsWhole, Whole, Broken
<1>4. f \in Files /\ f \notin BlobFiles
  BY FilesAre
<1>5. /\ \A g \in Files: file'[g] = IF g = f THEN NONE ELSE file[g]
      /\ \A g \in Files: IsWhole(g)' <=> g # f /\ IsWhole(g)
  BY <1>3, <1>4, FileSet, SaysWhole
<1>6. About(job.todo[1]) = {f}
  BY <1>1 DEF About
<1>7. /\ Smooth' /\ Apart' /\ Ready' /\ StoresWhole' /\ BlobStores'
      /\ \A g: ~Fills(g) /\ ~Fills(g)' /\ ~Stores1(job.todo, g) /\ ~Stores1(job'.todo, g)
      /\ \A t: (Has(t)' => Has(t)) /\ (Has(t) => Has(t)' \/ Now(t))
      /\ \A i \in DOMAIN job'.todo: /\ i \in Nat /\ i >= 1 /\ i + 1 \in DOMAIN job.todo
                                    /\ job'.todo[i] = job.todo[i + 1]
      /\ \A p, d: (AddsSp(p, d)' <=> AddsSp(p, d)) /\ (CutsSp(p, d)' <=> CutsSp(p, d))
      /\ \A u, p, d: (AddsTl(u, p, d)' <=> AddsTl(u, p, d)) /\ (CutsTl(u, p, d)' <=> CutsTl(u, p, d))
      /\ \A p: CutsSpOf(p)' <=> CutsSpOf(p)
      /\ \A u, p: CutsTlOf(u, p)' <=> CutsTlOf(u, p)
  <2>1. \A g \in Containers: g \in About(job.todo[1]) \/ file'[g] = file[g]
    BY <1>5, <1>6, FilesAre
  <2>2. job.todo[1][1] \notin {"open", "fill"}
    BY <1>1
  <2> QED
    BY <1>3, <2>1, <2>2, NoMore
<1>8. /\ \A i \in DOMAIN job.todo: job.todo[i][1] # "discard"
      /\ \A g: ~Has(<<"discard", g>>)
  BY <1>1 DEF Grown, Discards, Has
<1>9. Has(<<"remove", f>>)
  BY <1>1 DEF Has
<1>10. NoneBroken'
  BY <1>5, <1>7 DEF Grown, NoneBroken
<1>11. \A p \in SPs: RootLists(p)' => RootLists(p) /\ f # Root
  BY <1>5, FilesAre DEF RootLists
<1>12. \A p \in SPs: Cutting(p) /\ f # Root => Cutting(p)'
  <2>1. f # Root => <<"remove", f>> # <<"remove", Root>>
    OBVIOUS
  <2> QED
    BY <1>1, <1>7, <2>1 DEF Cutting, Now
<1>13. TreeHolds'
  <2>1. SUFFICES ASSUME NEW p \in SPs, RootLists(p)'
                 PROVE  SubtreeBut(p, Missing(p))' \/ Changing(p)'
    BY DEF TreeHolds
  <2>2. RootLists(p) /\ f # Root
    BY <1>11, <2>1
  <2>3. CASE Cutting(p)
    BY <1>12, <2>2, <2>3 DEF Changing
  <2>4. CASE ~Cutting(p)
    <3>1. SubtreeBut(p, Missing(p))
      BY <1>7, <2>2, <2>4 DEF Grown, TreeHolds, Changing
    <3>2. f # Sp(p)
      BY <1>9, <2>2, <2>4 DEF Grown, Removals
    <3>3. IsWhole(Sp(p))' /\ file'[Sp(p)] = file[Sp(p)] /\ file[Sp(p)] \subseteq TAs
      BY <1>5, <3>1, <3>2, FilesAre, WholeFits DEF SubtreeBut
    <3>4. Missing(p)' = Missing(p)
      BY <1>7 DEF Missing
    <3>5. ASSUME NEW u \in file[Sp(p)], u \notin Missing(p)
          PROVE  IsWhole(Tl(u, p))'
      <4>1. IsWhole(Tl(u, p)) /\ u \in TAs /\ ~CutsTlOf(u, p)
        BY <3>1, <3>3, <3>5 DEF SubtreeBut, Missing
      <4>2. f # Tl(u, p)
        BY <1>9, <2>2, <2>4, <4>1 DEF Grown, Removals
      <4> QED
        BY <1>5, <4>1, <4>2, FilesAre
    <3> QED
      BY <3>3, <3>4, <3>5 DEF SubtreeBut
  <2> QED
    BY <2>3, <2>4
<1>14. Removals'
  <2>1. SUFFICES ASSUME NEW p \in SPs, RootLists(p)'
                 PROVE  /\ Has(<<"cleanSp", p>>)' \/ Has(<<"remove", Sp(p)>>)' => Cutting(p)'
                        /\ \A u \in TAs:
                             Has(<<"cleanTl", u, p>>)' \/ Has(<<"remove", Tl(u, p)>>)' =>
                               Cutting(p)' \/ CutsTlOf(u, p)'
    BY DEF Removals
  <2>2. RootLists(p) /\ (Cutting(p) => Cutting(p)')
    BY <1>11, <1>12, <2>1
  <2> QED
    BY <1>7, <2>2 DEF Grown, Removals
<1>15. BlobsKept'
  <2>1. ASSUME NEW u \in TAs, NEW p \in SPs, Names(u, p)'
        PROVE  IsWhole(Tl(u, p))' /\ IsWhole(Tabin(u))'
    <3>1. Tabin(u) \in BlobFiles /\ Spid(u) \in BlobFiles
      BY DEF BlobFiles
    <3>2. Names(u, p)
      BY <1>4, <1>5, <2>1, <3>1, FilesAre DEF Names
    <3>3. IsWhole(Tl(u, p)) /\ IsWhole(Tabin(u))
      BY <1>7, <1>8, <3>2 DEF Grown, BlobsKept
    <3>4. f # Tl(u, p)
      BY <1>8, <1>9, <3>2 DEF Grown, Discards
    <3> QED
      BY <1>4, <1>5, <3>1, <3>3, <3>4, FilesAre
  <2> QED
    BY <2>1 DEF BlobsKept
<1>16. Discards'
  <2>1. \A i \in DOMAIN job'.todo: job'.todo[i][1] # "discard"
    BY <1>7, <1>8
  <2>2. ASSUME NEW u \in TAs, NEW p \in SPs, Has(<<"remove", Tl(u, p)>>)'
        PROVE  ~Names(u, p)'
    <3>1. ~Names(u, p)
      BY <1>7, <1>8, <2>2 DEF Grown, Discards
    <3>2. Spid(u) \in BlobFiles
      BY DEF BlobFiles
    <3> QED
      BY <1>4, <1>5, <3>1, <3>2, FilesAre DEF Names
  <2> QED
    BY <2>1, <2>2 DEF Discards
<1>17. SendsNext'
  <2>1. /\ \A p \in SPs, d \in SUBSET SPs: ~AddsSp(p, d)
        /\ \A u \in TAs, p \in SPs, d \in SUBSET TAs: ~AddsTl(u, p, d)
        /\ \A p \in SPs: CutsSpOf(p) => f # Root
        /\ \A u \in TAs, p \in SPs: CutsTlOf(u, p) => f \notin Parents
    BY <1>1, <1>7, PairAtWork
  <2>2. ASSUME NEW p \in SPs, NEW d \in SUBSET SPs, CutsSp(p, d)
        PROVE  IsWhole(Root)' /\ d = file'[Root] \ {p}
    <3>1. f # Root
      BY <2>1, <2>2 DEF CutsSpOf
    <3> QED
      BY <1>5, <2>2, <3>1, FilesAre DEF Grown, SendsNext
  <2>3. ASSUME NEW u \in TAs, NEW p \in SPs, NEW d \in SUBSET TAs, CutsTl(u, p, d)
        PROVE  RootLists(p)' /\ IsWhole(Sp(p))' /\ d = file'[Sp(p)] \ {u}
    <3>1. f # Root /\ f # Sp(p)
      BY <2>1, <2>3 DEF CutsTlOf, Parents
    <3>2. RootLists(p) /\ IsWhole(Sp(p)) /\ d = file[Sp(p)] \ {u}
      BY <2>3 DEF Grown, SendsNext
    <3> QED
      BY <1>5, <3>1, <3>2, FilesAre DEF RootLists
  <2> QED
    BY <1>7, <2>1, <2>2, <2>3 DEF SendsNext
<1> QED
  BY <1>7, <1>10, <1>13, <1>14, <1>15, <1>16, <1>17 DEF Grown

\* A file of a blob is removed.
LEMMA TreeDiscards ==
  ASSUME Typed, Children, Grown, Executing, failed = 0, failed' = 0,
         NEW f \in BlobFiles, Now(<<"discard", f>>), ExecutesDiscard(f)
  PROVE  Grown'
<1>1. Busy /\ 1 \in DOMAIN job.todo /\ job.todo[1] = <<"discard", f>>
  BY JobSound DEF Executing, Now
<1>2. SetFile(f, NONE) /\ GoesOn(<<>>)
  BY NoFailure DEF ExecutesDiscard
<1>3. f \in Files /\ f \notin Containers
  BY FilesAre
<1>4. /\ \A g \in Files: file'[g] = IF g = f THEN NONE ELSE file[g]
      /\ \A g \in Files: IsWhole(g)' <=> g # f /\ IsWhole(g)
  BY <1>2, <1>3, FileSet, SaysWhole
<1>5. \A g \in Containers: g \in Files /\ file'[g] = file[g] /\ (IsWhole(g)' <=> IsWhole(g))
  BY <1>3, <1>4, FilesAre
<1>6. /\ Root \in Containers /\ \A p \in SPs: Sp(p) \in Containers
      /\ \A u \in TAs, p \in SPs: Tl(u, p) \in Containers
      /\ \A u \in TAs: Tabin(u) \in Files /\ Spid(u) \in Files
  BY FilesAre DEF Containers
<1>7. /\ Smooth' /\ Apart' /\ Ready' /\ StoresWhole' /\ BlobStores'
      /\ \A g: ~Fills(g) /\ ~Fills(g)' /\ ~Stores1(job.todo, g) /\ ~Stores1(job'.todo, g)
      /\ \A t: (Has(t)' => Has(t)) /\ (Has(t) => Has(t)' \/ Now(t))
      /\ \A i \in DOMAIN job'.todo: /\ i \in Nat /\ i >= 1 /\ i + 1 \in DOMAIN job.todo
                                    /\ job'.todo[i] = job.todo[i + 1]
      /\ 2 \in DOMAIN job.todo => 1 \in DOMAIN job'.todo
      /\ \A p, d: (AddsSp(p, d)' <=> AddsSp(p, d)) /\ (CutsSp(p, d)' <=> CutsSp(p, d))
      /\ \A u, p, d: (AddsTl(u, p, d)' <=> AddsTl(u, p, d)) /\ (CutsTl(u, p, d)' <=> CutsTl(u, p, d))
      /\ \A p: CutsSpOf(p)' <=> CutsSpOf(p)
      /\ \A u, p: CutsTlOf(u, p)' <=> CutsTlOf(u, p)
  <2>1. job.todo[1][1] \notin {"open", "fill"}
    BY <1>1
  <2> QED
    BY <1>2, <1>5, <2>1, NoMore
<1>8. PICK u \in TAs:
        \/ f = Spid(u)
        \/ f = Tabin(u) /\ 2 \in DOMAIN job.todo /\ job.todo[2] = <<"discard", Spid(u)>>
  BY <1>1 DEF Grown, Discards
<1>9. \A i \in DOMAIN job.todo: job.todo[i][1] = "discard" =>
        i = 1 \/ (i = 2 /\ f = Tabin(u) /\ job.todo[2] = <<"discard", Spid(u)>>)
  <2>1. SUFFICES ASSUME NEW i \in DOMAIN job.todo, job.todo[i][1] = "discard", i # 1
                 PROVE  i = 2 /\ f = Tabin(u) /\ job.todo[2] = <<"discard", Spid(u)>>
    OBVIOUS
  <2>2. PICK v \in TAs: /\ i = 2 /\ job.todo[1] = <<"discard", Tabin(v)>>
                        /\ job.todo[2] = <<"discard", Spid(v)>>
    BY <2>1 DEF Grown, Discards
  <2>3. f = Tabin(v)
    BY <1>1, <2>2
  <2>4. v = u
    BY <1>8, <2>3, FileNames
  <2> QED
    BY <2>2, <2>3, <2>4
<1>10. \A v \in TAs: Has(<<"discard", Spid(v)>>) => v = u
  <2>1. ASSUME NEW v \in TAs, NEW i \in DOMAIN job.todo, job.todo[i] = <<"discard", Spid(v)>>
        PROVE  v = u
    <3>1. job.todo[i][1] = "discard"
      BY <2>1
    <3>2. CASE i = 1
      <4>1. f = Spid(v)
        BY <1>1, <2>1, <3>2
      <4> QED
        BY <1>8, <4>1, FileNames
    <3>3. CASE i # 1
      <4>1. <<"discard", Spid(v)>> = <<"discard", Spid(u)>>
        BY <1>9, <2>1, <3>1, <3>3
      <4> QED
        BY <4>1, FileNames
    <3> QED
      BY <3>2, <3>3
  <2> QED
    BY <2>1 DEF Has
<1>11. \A v \in TAs, p \in SPs: Names(v, p)' => Names(v, p) /\ f # Spid(v)
  <2>1. \A p \in SPs: {p} # NONE
    BY SaysWhole
  <2> QED
    BY <1>4, <1>6, <2>1 DEF Names
<1>12. NoneBroken'
  BY <1>4, <1>7 DEF Grown, NoneBroken
<1>13. \A p \in SPs: (RootLists(p)' <=> RootLists(p)) /\ (Cutting(p) => Cutting(p)')
  <2>1. <<"discard", f>> # <<"remove", Root>>
    OBVIOUS
  <2> QED
    BY <1>1, <1>5, <1>6, <1>7, <2>1 DEF RootLists, Cutting, Now
<1>14. TreeHolds'
  <2>1. SUFFICES ASSUME NEW p \in SPs, RootLists(p)'
                 PROVE  SubtreeBut(p, Missing(p))' \/ Changing(p)'
    BY DEF TreeHolds
  <2>2. SubtreeBut(p, Missing(p)) \/ Changing(p)
    BY <1>13, <2>1 DEF Grown, TreeHolds
  <2>3. CASE Changing(p)
    BY <1>7, <1>13, <2>3 DEF Changing
  <2>4. CASE SubtreeBut(p, Missing(p))
    <3>1. Missing(p)' = Missing(p)
      BY <1>7 DEF Missing
    <3>2. file[Sp(p)] \subseteq TAs
      BY <2>4, WholeFits DEF SubtreeBut
    <3> QED
      BY <1>5, <1>6, <2>4, <3>1, <3>2 DEF SubtreeBut
  <2> QED
    BY <2>2, <2>3, <2>4
<1>15. Removals'
  BY <1>7, <1>13 DEF Grown, Removals
<1>16. BlobsKept'
  <2>1. ASSUME NEW v \in TAs, NEW p \in SPs, Names(v, p)'
        PROVE  /\ IsWhole(Tl(v, p))'
               /\ IsWhole(Tabin(v))' \/ Has(<<"discard", Spid(v)>>)'
    <3>1. /\ IsWhole(Tl(v, p))
          /\ IsWhole(Tabin(v)) \/ Has(<<"discard", Spid(v)>>)
      BY <1>7, <1>11, <2>1 DEF Grown, BlobsKept
    <3>2. IsWhole(Tl(v, p))'
      BY <1>5, <1>6, <3>1
    <3>3. Has(<<"discard", Spid(v)>>) => Has(<<"discard", Spid(v)>>)'
      <4>1. <<"discard", f>> # <<"discard", Spid(v)>>
        BY <1>11, <2>1
      <4> QED
        BY <1>1, <1>7, <4>1 DEF Now
    <3>4. CASE f = Tabin(v)
      <4>1. v = u /\ 2 \in DOMAIN job.todo /\ job.todo[2] = <<"discard", Spid(u)>>
        BY <1>8, <3>4, FileNames
      <4> QED
        BY <3>2, <3>3, <4>1 DEF Has
    <3>5. CASE f # Tabin(v)
      BY <1>4, <1>6, <3>1, <3>2, <3>3, <3>5
    <3> QED
      BY <3>4, <3>5
  <2> QED
    BY <2>1 DEF BlobsKept
<1>17. Discards'
  <2>1. ASSUME NEW i \in DOMAIN job'.todo, job'.todo[i][1] = "discard"
        PROVE  i = 1 /\ job'.todo[1] = <<"discard", Spid(u)>>
    <3>1. i + 1 \in DOMAIN job.todo /\ job'.todo[i] = job.todo[i + 1] /\ i \in Nat /\ i >= 1
      BY <1>7
    <3>2. job.todo[i + 1][1] = "discard" /\ i + 1 # 1
      BY <2>1, <3>1
    <3>3. i + 1 = 2 /\ job.todo[i + 1] = <<"discard", Spid(u)>>
      BY <1>9, <3>1, <3>2
    <3>4. i = 1
      BY <3>1, <3>3
    <3> QED
      BY <3>1, <3>3, <3>4
  <2>2. ASSUME NEW v \in TAs, NEW p \in SPs, Has(<<"remove", Tl(v, p)>>)', Names(v, p)'
        PROVE  Has(<<"discard", Spid(v)>>)'
    <3>1. Has(<<"discard", Spid(v)>>)
      BY <1>7, <1>11, <2>2 DEF Grown, Discards
    <3>2. <<"discard", f>> # <<"discard", Spid(v)>>
      BY <1>11, <2>2
    <3> QED
      BY <1>1, <1>7, <3>1, <3>2 DEF Now
  <2> QED
    BY <2>1, <2>2 DEF Discards
<1>18. SendsNext'
  BY <1>5, <1>6, <1>7, <1>13 DEF Grown, SendsNext
<1> QED
  BY <1>7, <1>12, <1>14, <1>15, <1>16, <1>17, <1>18 DEF Grown

\* A step of the daemon.
LEMMA TreeExecutes ==
  ASSUME Typed, Token, Children, Grown, Executing, failed = 0, failed' = 0
  PROVE  Grown'
<1>1. job.todo[1][1] # "refuse"
  BY DEF Executing, Grown, Smooth
<1>2. Executes
  BY DEF Executing
<1>3. CASE \E f \in Files, c \in Contents:
             Fits(f, c) /\ Now(<<"open", f, c>>) /\ ExecutesOpen(f, c)
  BY <1>3, TreeOpens
<1>4. CASE \E f \in Files, c \in Contents:
             Fits(f, c) /\ Now(<<"fill", f, c>>) /\ ExecutesFill(f, c)
  BY <1>4, TreeFills
<1>5. CASE job.todo[1][1] = "rename" /\ ExecutesRename
  BY <1>5, TreeRenames
<1>6. CASE job.todo[1][1] = "read" /\ ExecutesRead
  BY <1>6, TreeReads
<1>7. CASE job.todo[1][1] = "cleanRoot" /\ ExecutesCleanRoot
  BY <1>7, TreeCleansRoot
<1>8. CASE \E p \in SPs: Now(<<"cleanSp", p>>) /\ ExecutesCleanSp(p)
  BY <1>8, TreeCleansSp
<1>9. CASE \E u \in TAs, p \in SPs: Now(<<"cleanTl", u, p>>) /\ ExecutesCleanTl(u, p)
  BY <1>9, TreeCleansTl
<1>10. CASE \E f \in Containers: Now(<<"remove", f>>) /\ ExecutesRemove(f)
  BY <1>10, TreeRemoves
<1>11. CASE \E f \in BlobFiles: Now(<<"discard", f>>) /\ ExecutesDiscard(f)
  BY <1>11, TreeDiscards
<1> QED
  BY <1>1, <1>2, <1>3, <1>4, <1>5, <1>6, <1>7, <1>8, <1>9, <1>10, <1>11 DEF Executes

-----------------------------------------------------------------------------
(* The tree: RootPA sends a command, or has nothing more to send.          *)

\* RootPA's command is no pair of a child and its parent.
NoPair ==
  /\ \A p \in SPs, d \in SUBSET SPs: ~AddsSp(p, d) /\ ~CutsSp(p, d)
  /\ \A u \in TAs, p \in SPs, d \in SUBSET TAs: ~AddsTl(u, p, d) /\ ~CutsTl(u, p, d)
  /\ \A p \in SPs: ~CutsSpOf(p) /\ \A u \in TAs: ~CutsTlOf(u, p)
  /\ SendsNext

LEMMA PairsNow ==
  /\ \A p, d: AddsSp(p, d) => client.steps = PairSp(p, d)
  /\ \A p, d: CutsSp(p, d) => client.steps = CutPairSp(p, d)
  /\ \A u, p, d: AddsTl(u, p, d) => client.steps = PairTl(u, p, d)
  /\ \A u, p, d: CutsTl(u, p, d) => client.steps = CutPairTl(u, p, d)
BY DEF AddsSp, CutsSp, AddsTl, CutsTl, Script, PairSp, CutPairSp, PairTl, CutPairTl

LEMMA PairsNone == ~Paired(client.steps) => NoPair
BY PairsNow DEF NoPair, Paired, CutsSpOf, CutsTlOf, SendsNext

LEMMA PairsNoneNext == ~Paired(client'.steps) => NoPair'
<1>1. (~Paired(client.steps))' => NoPair'
  BY PairsNone, PTL
<1> QED
  BY <1>1 DEF Paired, PairSp, CutPairSp, PairTl, CutPairTl

\* The tree when the daemon has nothing to do.
LEMMA Rests ==
  ASSUME Grown, ~Busy
  PROVE  /\ job.todo = <<>> /\ up /\ queued = <<>>
         /\ \A f \in Files: IsWhole(f) \/ file[f] = NONE
         /\ \A p \in SPs: RootLists(p) =>
              SubtreeBut(p, {u \in TAs: CutsTlOf(u, p)}) \/ CutsSpOf(p)
         /\ \A u \in TAs, p \in SPs: Names(u, p) => IsWhole(Tl(u, p)) /\ IsWhole(Tabin(u))
<1>1. job.todo = <<>> /\ up /\ queued = <<>>
  BY DEF Busy, Grown, Smooth
<1>2. (\A g: ~Fills(g) /\ ~Stores1(job.todo, g)) /\ \A t: ~Has(t)
  BY <1>1 DEF Fills, Stores1, Has
<1>3. \A f \in Files: IsWhole(f) \/ file[f] = NONE
  BY <1>2 DEF Grown, NoneBroken
<1>4. ASSUME NEW p \in SPs, RootLists(p)
      PROVE  SubtreeBut(p, {u \in TAs: CutsTlOf(u, p)}) \/ CutsSpOf(p)
  <2>1. Missing(p) = {u \in TAs: CutsTlOf(u, p)} /\ (Changing(p) => CutsSpOf(p))
    BY <1>2 DEF Missing, Changing, Cutting
  <2> QED
    BY <1>4, <2>1 DEF Grown, TreeHolds
<1>5. \A u \in TAs, p \in SPs: Names(u, p) => IsWhole(Tl(u, p)) /\ IsWhole(Tabin(u))
  BY <1>2 DEF Grown, BlobsKept
<1> QED
  BY <1>1, <1>3, <1>4, <1>5

LEMMA RestsAlone ==
  ASSUME Grown, ~Busy, ~Paired(client.steps)
  PROVE  \A p \in SPs: RootLists(p) => Subtree(p)
<1>1. \A p \in SPs: /\ ~CutsSpOf(p) /\ {u \in TAs: CutsTlOf(u, p)} = {}
  BY PairsNone DEF NoPair
<1>2. \A p \in SPs: RootLists(p) => SubtreeBut(p, {u \in TAs: CutsTlOf(u, p)}) \/ CutsSpOf(p)
  BY Rests
<1> QED
  BY <1>1, <1>2 DEF Subtree

LEMMA TreeTurns ==
  ASSUME Grown, ~Busy, NEW steps, NEW regardless, NEW undo, Turns(steps, regardless, undo),
         UNCHANGED <<file, up>>, steps # <<>>, \A a \in Answered: steps # Recovery(a),
         Head(steps) \in Commandos, Head(steps)[1][1] # "refuse",
         Head(steps)[1][1] = "read" => steps = Reading
  PROVE  /\ Smooth' /\ NoneBroken' /\ BlobsKept'
         /\ job'.todo = Head(steps) /\ client'.steps = steps /\ Script(steps, regardless, undo)'
         /\ \A f: IsWhole(f)' <=> IsWhole(f)
         /\ \A p: (Subtree(p)' <=> Subtree(p)) /\ (RootLists(p)' <=> RootLists(p))
<1>1. /\ job' = [todo |-> Head(steps), wanted |-> TRUE] /\ queued' = <<>> /\ up' /\ file' = file
      /\ client' = [steps |-> steps, regardless |-> regardless, undo |-> undo, answer |-> "none"]
  BY Rests DEF Turns, Sends
<1>2. \A f: IsWhole(f)' <=> IsWhole(f)
  BY <1>1 DEF IsWhole
<1>3. Smooth'
  BY <1>1 DEF Smooth, Waiting, Busy
<1>4. NoneBroken'
  BY <1>1, <1>2, Rests DEF NoneBroken
<1>5. BlobsKept'
  BY <1>1, <1>2, Rests DEF BlobsKept, Names
<1>6. \A p: (Subtree(p)' <=> Subtree(p)) /\ (RootLists(p)' <=> RootLists(p))
  BY <1>1, <1>2 DEF Subtree, SubtreeBut, RootLists
<1> QED
  BY <1>1, <1>2, <1>3, <1>4, <1>5, <1>6 DEF Script

LEMMA CommandFacts ==
  /\ \A f, c: Store(f, c)[1] = <<"open", f, c>> /\ DOMAIN Store(f, c) = {1}
  /\ \A f, c: Store(f, c) # CleanupRoot
  /\ \A u, p: /\ StoreTABlob(u, p)[1] = <<"open", Tabin(u), {}>>
              /\ StoreTABlob(u, p)[2] = <<"open", Spid(u), {p}>>
              /\ DOMAIN StoreTABlob(u, p) = {1, 2}
  /\ \A t: DOMAIN <<t>> = {1} /\ <<t>>[1] = t /\ Len(<<t>>) = 1
<1>1. \A t: DOMAIN <<t>> = {1} /\ <<t>>[1] = t /\ Len(<<t>>) = 1
  OBVIOUS
<1>2. \A f, c: Store(f, c)[1] = <<"open", f, c>> /\ DOMAIN Store(f, c) = {1}
  BY <1>1 DEF Store
<1>3. CleanupRoot[1][1] = "cleanRoot"
  BY DEF CleanupRoot
<1>4. \A s, t: DOMAIN <<s, t>> = {1, 2} /\ <<s, t>>[1] = s /\ <<s, t>>[2] = t
  OBVIOUS
<1> QED
  BY <1>1, <1>2, <1>3, <1>4 DEF StoreTABlob

\* RootPA sends a container or the token.
LEMMA TreeSendsStore ==
  ASSUME Typed, Grown, ~Busy, NEW steps, NEW regardless, NEW undo,
         Turns(steps, regardless, undo), UNCHANGED <<file, up>>, steps # <<>>,
         \A a \in Answered: steps # Recovery(a),
         NEW f, NEW c, Fits(f, c), Head(steps) = Store(f, c), f \notin BlobFiles,
         \A p \in SPs: RootLists(p) => Subtree(p) \/ f = Root \/ f = Sp(p),
         f = Root => \A p \in c: Subtree(p),
         \A p \in SPs: f = Sp(p) => \A u \in c: IsWhole(Tl(u, p)),
         SendsNext'
  PROVE  Grown'
<1>1. Head(steps) \in Commandos /\ Head(steps)[1] = <<"open", f, c>> /\ DOMAIN Head(steps) = {1}
  BY CommandsSound, CommandFacts
<1>2. /\ Smooth' /\ NoneBroken' /\ BlobsKept' /\ job'.todo = Head(steps)
      /\ \A g: IsWhole(g)' <=> IsWhole(g)
      /\ \A p: (Subtree(p)' <=> Subtree(p)) /\ (RootLists(p)' <=> RootLists(p))
  BY <1>1, TreeTurns
<1>3. /\ DOMAIN job'.todo = {1} /\ job'.todo[1] = <<"open", f, c>> /\ job'.todo # <<>>
  BY <1>1, <1>2 DEF Commandos
<1>4. RemovesNothing' /\ Ready'
  <2>1. OnlyStores'
    BY <1>3 DEF OnlyStores
  <2> QED
    BY <1>3, <2>1, StoresRemoveNothingNext DEF RemovesNothing
<1>5. \A g: Stores1(job'.todo, g) <=> g = f
  BY <1>3 DEF Stores1
<1>6. TreeHolds'
  <2>1. SUFFICES ASSUME NEW p \in SPs, RootLists(p)'
                 PROVE  SubtreeBut(p, Missing(p))' \/ Changing(p)'
    BY DEF TreeHolds
  <2>2. CASE Subtree(p)'
    BY <2>2 DEF Subtree, SubtreeBut
  <2>3. CASE f = Root \/ f = Sp(p)
    BY <1>5, <2>3 DEF Changing
  <2> QED
    BY <1>2, <2>1, <2>2, <2>3
<1>7. StoresWhole'
  BY <1>2, <1>3, <1>5 DEF StoresWhole
<1>8. BlobStores'
  <2>1. \A u \in TAs: f # Spid(u)
    BY DEF BlobFiles
  <2> QED
    BY <1>3, <2>1 DEF BlobStores, OpensSpid
<1> QED
  BY <1>2, <1>4, <1>6, <1>7, <1>8 DEF Grown, RemovesNothing

\* RootPA sends the blob of a Trusted Application.
LEMMA TreeSendsBlob ==
  ASSUME Typed, Grown, ~Busy, client = NoCommand, NEW u \in TAs, NEW p \in SPs,
         IsWhole(Tl(u, p)), Turns(<<StoreTABlob(u, p)>>, FALSE, <<>>), UNCHANGED <<file, up>>
  PROVE  Grown'
<1>1. PICK c: c = StoreTABlob(u, p)
  OBVIOUS
<1>2. /\ c \in Commandos /\ Head(<<c>>) = c /\ DOMAIN c = {1, 2} /\ <<c>> # <<>>
      /\ c[1] = <<"open", Tabin(u), {}>> /\ c[2] = <<"open", Spid(u), {p}>>
  <2>1. Head(<<c>>) = c /\ <<c>> # <<>>
    OBVIOUS
  <2>2. c \in Commandos
    BY <1>1, CommandsSound
  <2>3. /\ c[1] = <<"open", Tabin(u), {}>> /\ c[2] = <<"open", Spid(u), {p}>>
        /\ DOMAIN c = {1, 2}
    BY <1>1, CommandFacts
  <2> QED
    BY <2>1, <2>2, <2>3
<1>3. PICK steps: steps = <<c>>
  OBVIOUS
<1>4. /\ Smooth' /\ NoneBroken' /\ BlobsKept' /\ job'.todo = c /\ client'.steps = <<c>>
      /\ \A g: IsWhole(g)' <=> IsWhole(g)
      /\ \A q: (Subtree(q)' <=> Subtree(q)) /\ (RootLists(q)' <=> RootLists(q))
  <2>1. \A a \in Answered: steps # Recovery(a)
    BY <1>3, TokenLists
  <2>2. Head(steps) = c /\ steps # <<>>
    BY <1>3
  <2>3. c[1][1] = "open"
    BY <1>2
  <2>4. Turns(steps, FALSE, <<>>)
    BY <1>1, <1>3
  <2> QED
    BY <1>2, <1>3, <2>1, <2>2, <2>3, <2>4, TreeTurns
<1>5. NoPair'
  BY <1>4, NotPaired, PairsNoneNext
<1>6. RemovesNothing' /\ Ready'
  <2>1. OnlyStores' /\ 1 \in DOMAIN job'.todo
    BY <1>2, <1>4 DEF OnlyStores
  <2> QED
    BY <2>1, StoresRemoveNothingNext DEF RemovesNothing
<1>7. \A g: Stores1(job'.todo, g) <=> g = Tabin(u)
  BY <1>2, <1>4 DEF Stores1, Commandos
<1>8. TreeHolds'
  <2>1. \A q \in SPs: RootLists(q) => Subtree(q)
    BY NotPaired, RestsAlone DEF NoCommand
  <2> QED
    BY <1>4, <2>1 DEF TreeHolds, Subtree, SubtreeBut
<1>9. StoresWhole'
  BY <1>7, FileNames DEF StoresWhole
<1>10. BlobStores'
  <2>1. ASSUME NEW i \in DOMAIN job'.todo, NEW v \in TAs, OpensSpid(i, v)'
        PROVE  i = 2 /\ v = u
    <3>1. i = 1 \/ i = 2
      BY <1>2, <1>4
    <3>2. i # 1
      BY <1>2, <1>4, <2>1, FileNames DEF OpensSpid
    <3> QED
      BY <1>2, <1>4, <2>1, <3>1, <3>2, FileNames DEF OpensSpid
  <2>2. /\ \A q \in job'.todo[2][3]: IsWhole(Tl(u, q))'
        /\ job'.todo[1][2] = Tabin(u)
    BY <1>2, <1>4
  <2>3. \A i \in DOMAIN job'.todo: job'.todo[i][1] \in {"open", "fill"}
    BY <1>2, <1>4
  <2> QED
    BY <2>1, <2>2, <2>3 DEF BlobStores
<1> QED
  BY <1>4, <1>5, <1>6, <1>8, <1>9, <1>10 DEF Grown, RemovesNothing, NoPair

\* RootPA sends a command of one task that stores nothing.
LEMMA TreeSendsTask ==
  ASSUME Typed, Grown, ~Busy, ~Paired(client.steps),
         NEW steps, NEW regardless, NEW undo,
         Turns(steps, regardless, undo), UNCHANGED <<file, up>>, steps # <<>>,
         \A a \in Answered: steps # Recovery(a),
         NEW t \in Tasks, Head(steps) = <<t>>, Head(steps) \in Commandos, Needs(t),
         t[1] \in {"rename", "read", "cleanRoot", "cleanSp", "cleanTl"},
         t[1] = "read" => steps = Reading,
         t[1] = "cleanSp" => CutsSpOf(t[2])',
         t[1] = "cleanTl" => CutsTlOf(t[2], t[3])',
         SendsNext'
  PROVE  Grown'
<1>1. DOMAIN <<t>> = {1} /\ <<t>>[1] = t /\ Len(<<t>>) = 1 /\ <<t>> # <<>>
  BY CommandFacts
<1>2. /\ Smooth' /\ NoneBroken' /\ BlobsKept' /\ job'.todo = <<t>>
      /\ \A g: IsWhole(g)' <=> IsWhole(g)
      /\ \A q: (Subtree(q)' <=> Subtree(q)) /\ (RootLists(q)' <=> RootLists(q))
  BY <1>1, TreeTurns
<1>3. \A i \in DOMAIN job'.todo: i = 1 /\ job'.todo[i] = t
  BY <1>1, <1>2
<1>4. \A x: Has(x)' => x = t
  BY <1>3 DEF Has
<1>5. Ready'
  <2>1. \A i \in DOMAIN job'.todo: Needs(job.todo[i])'
    BY <1>2, <1>3 DEF Needs
  <2> QED
    BY <1>1, <1>2, <2>1 DEF Ready
<1>6. Apart'
  BY <1>3 DEF Apart
<1>7. Removals'
  <2>1. SUFFICES ASSUME NEW p \in SPs
                 PROVE  /\ Has(<<"cleanSp", p>>)' \/ Has(<<"remove", Sp(p)>>)' => Cutting(p)'
                        /\ \A u \in TAs:
                             Has(<<"cleanTl", u, p>>)' \/ Has(<<"remove", Tl(u, p)>>)' =>
                               Cutting(p)' \/ CutsTlOf(u, p)'
    BY DEF Removals
  <2>2. \A f: ~Has(<<"remove", f>>)'
    BY <1>4
  <2>3. Has(<<"cleanSp", p>>)' => Cutting(p)'
    <3>1. Has(<<"cleanSp", p>>)' => t[1] = "cleanSp" /\ t[2] = p
      BY <1>4
    <3> QED
      BY <3>1 DEF Cutting
  <2>4. \A u \in TAs: Has(<<"cleanTl", u, p>>)' => CutsTlOf(u, p)'
    <3>1. \A u \in TAs: Has(<<"cleanTl", u, p>>)' => t[1] = "cleanTl" /\ t[2] = u /\ t[3] = p
      BY <1>4
    <3> QED
      BY <3>1
  <2> QED
    BY <2>2, <2>3, <2>4
<1>8. TreeHolds'
  <2>1. \A q \in SPs: RootLists(q) => Subtree(q)
    BY RestsAlone
  <2> QED
    BY <1>2, <2>1 DEF TreeHolds, Subtree, SubtreeBut
<1>9. \A i \in DOMAIN job'.todo: job'.todo[i][1] \notin {"open", "fill", "discard"}
  BY <1>3
<1>10. StoresWhole' /\ BlobStores'
  BY <1>1, <1>2, <1>9 DEF StoresWhole, BlobStores, OpensSpid, Stores1
<1>11. Discards'
  <2>1. \A f: ~Has(<<"remove", f>>)'
    BY <1>4
  <2> QED
    BY <1>9, <2>1 DEF Discards
<1> QED
  BY <1>2, <1>5, <1>6, <1>7, <1>8, <1>10, <1>11 DEF Grown

\* What RootPA sends next, after one of the four pairs has begun.
LEMMA SendsNextSp ==
  ASSUME file' = file, IsWhole(Root), NEW p \in SPs, NEW d, NEW steps, client'.steps = steps,
         \/ steps = PairSp(p, d) /\ p \notin file[Root] /\ d = file[Root] \cup {p}
         \/ steps = CutPairSp(p, d) /\ d = file[Root] \ {p}
  PROVE  SendsNext'
<1>1. IsWhole(Root)'
  BY DEF IsWhole
<1>2. \A q \in SPs, e \in SUBSET SPs: AddsSp(q, e)' => q = p /\ e = d /\ steps = PairSp(p, d)
  BY PairScripts, PairsAre
<1>3. \A q \in SPs, e \in SUBSET SPs: CutsSp(q, e)' => q = p /\ e = d /\ steps = CutPairSp(p, d)
  BY PairScripts, PairsAre
<1>4. \A u \in TAs, q \in SPs, e \in SUBSET TAs: ~AddsTl(u, q, e)' /\ ~CutsTl(u, q, e)'
  BY PairScripts, PairsAre
<1>5. steps = PairSp(p, d) => p \notin file[Root] /\ d = file[Root] \cup {p}
  BY PairsAre
<1>6. steps = CutPairSp(p, d) => d = file[Root] \ {p}
  BY PairsAre
<1> QED
  BY <1>1, <1>2, <1>3, <1>4, <1>5, <1>6 DEF SendsNext

LEMMA SendsNextTl ==
  ASSUME file' = file, NEW u \in TAs, NEW p \in SPs, RootLists(p), IsWhole(Sp(p)),
         NEW d, NEW steps, client'.steps = steps,
         \/ steps = PairTl(u, p, d) /\ d = file[Sp(p)] \cup {u}
         \/ steps = CutPairTl(u, p, d) /\ d = file[Sp(p)] \ {u}
  PROVE  SendsNext'
<1>1. RootLists(p)' /\ IsWhole(Sp(p))'
  BY DEF IsWhole, RootLists
<1>2. \A v \in TAs, q \in SPs, e \in SUBSET TAs: AddsTl(v, q, e)' =>
        v = u /\ q = p /\ e = d /\ steps = PairTl(u, p, d)
  BY PairScripts, PairsAre
<1>3. \A v \in TAs, q \in SPs, e \in SUBSET TAs: CutsTl(v, q, e)' =>
        v = u /\ q = p /\ e = d /\ steps = CutPairTl(u, p, d)
  BY PairScripts, PairsAre
<1>4. \A q \in SPs, e \in SUBSET SPs: ~AddsSp(q, e)' /\ ~CutsSp(q, e)'
  BY PairScripts, PairsAre
<1>5. steps = PairTl(u, p, d) => d = file[Sp(p)] \cup {u}
  BY PairsAre
<1>6. steps = CutPairTl(u, p, d) => d = file[Sp(p)] \ {u}
  BY PairsAre
<1> QED
  BY <1>1, <1>2, <1>3, <1>4, <1>5, <1>6 DEF SendsNext

LEMMA StepsOf ==
  /\ \A steps, regardless, undo: Turns(steps, regardless, undo) => client'.steps = steps
  /\ \A c: <<c>> # <<>> /\ Head(<<c>>) = c
  /\ \A c, d: <<c, d>> # <<>> /\ Head(<<c, d>>) = c
  /\ \A a, c: <<c>> # Recovery(a)
  /\ \A a, c, f, d: <<c, Store(f, d)>> # Recovery(a)
<1>1. \A c: <<c>> # <<>> /\ Head(<<c>>) = c
  OBVIOUS
<1>2. \A c, d: <<c, d>> # <<>> /\ Head(<<c, d>>) = c
  OBVIOUS
<1>3. \A steps, regardless, undo: Turns(steps, regardless, undo) => client'.steps = steps
  BY DEF Turns
<1>4. \A a, c: <<c>> # Recovery(a)
  BY TokenLists
<1>5. \A a, c, f, d: <<c, Store(f, d)>> # Recovery(a)
  BY TokenLists, CommandFacts
<1> QED
  BY <1>1, <1>2, <1>3, <1>4, <1>5

\* RootPA sends one command, a container or the token; there is nothing else to send.
LEMMA TreeSendsSingle ==
  ASSUME Typed, Grown, ~Busy, NEW f, NEW c, Fits(f, c), NEW regardless, NEW undo,
         Turns(<<Store(f, c)>>, regardless, undo), UNCHANGED <<file, up>>,
         f \notin BlobFiles,
         \A p \in SPs: RootLists(p) => Subtree(p) \/ f = Root \/ f = Sp(p),
         f = Root => \A p \in c: Subtree(p),
         \A p \in SPs: f = Sp(p) => \A u \in c: IsWhole(Tl(u, p))
  PROVE  Grown'
<1>1. PICK steps: steps = <<Store(f, c)>>
  OBVIOUS
<1>2. Turns(steps, regardless, undo)
  BY <1>1
<1>3. steps # <<>> /\ Head(steps) = Store(f, c) /\ client'.steps = steps
      /\ \A a \in Answered: steps # Recovery(a)
  BY <1>1, <1>2, StepsOf
<1>4. SendsNext'
  BY <1>1, <1>3, NotPaired, PairsNoneNext DEF NoPair
<1> QED
  BY <1>2, <1>3, <1>4, TreeSendsStore

\* A CMP command begins.
LEMMA TreeBegins ==
  ASSUME Typed, Token, Children, Grown, Beginning, UNCHANGED <<file, up>>
  PROVE  Grown'
<1>1. client = NoCommand /\ up /\ ~Busy
  BY DEF Beginning, Fresh
<1>2. ~Paired(client.steps)
  BY <1>1, NotPaired DEF NoCommand
<1>3. /\ \A p \in SPs: RootLists(p) => Subtree(p)
      /\ \A f \in Files: IsWhole(f) \/ file[f] = NONE
  BY <1>1, <1>2, Rests, RestsAlone
<1>4. /\ \A p: Sp(p) # Root /\ \A q: Sp(p) = Sp(q) => p = q
      /\ \A u, p: Tl(u, p) # Root /\ \A q: Tl(u, p) # Sp(q)
      /\ Auth # Root /\ \A p: Auth # Sp(p)
      /\ Root \notin BlobFiles /\ Auth \notin BlobFiles
      /\ \A p: Sp(p) \notin BlobFiles
      /\ \A u, p: Tl(u, p) \notin BlobFiles
  BY FileNames DEF BlobFiles
<1>5. ASSUME NEW c \in Single, BeginsSingle(c)
      PROVE  Grown'
  <2>1. Turns(<<c>>, FALSE, <<>>)
    BY <1>5 DEF BeginsSingle
  <2>2. CASE c = Store(Auth, {})
    BY <1>1, <1>3, <1>4, <2>1, <2>2, FitsAlways, TreeSendsSingle
  <2>3. CASE IsWhole(Root) /\ c = Store(Root, file[Root])
    <3>1. PICK d: d = file[Root]
      OBVIOUS
    <3>2. Fits(Root, d) /\ \A p \in d: p \in SPs /\ Subtree(p)
      BY <1>3, <2>3, <3>1, FitsMore DEF RootLists
    <3> QED
      BY <1>1, <1>4, <2>1, <2>3, <3>1, <3>2, TreeSendsSingle
  <2>4. CASE IsWhole(Root) /\ c = CleanupRoot
    <3>1. PICK t: t = <<"cleanRoot">>
      OBVIOUS
    <3>2. PICK steps: steps = <<c>>
      OBVIOUS
    <3>3. c = <<t>> /\ t \in Tasks /\ t[1] = "cleanRoot" /\ c \in Commandos
      BY <2>4, <3>1, CommandsSound DEF CleanupRoot, Tasks
    <3>4. Turns(steps, FALSE, <<>>) /\ steps # <<>> /\ Head(steps) = c /\ client'.steps = steps
          /\ \A a \in Answered: steps # Recovery(a)
      BY <2>1, <3>2, StepsOf
    <3>5. SendsNext'
      BY <3>2, <3>4, NotPaired, PairsNoneNext DEF NoPair
    <3>6. Needs(t)
      BY <2>4, <3>3 DEF Needs
    <3> QED
      BY <1>1, <1>2, <3>3, <3>4, <3>5, <3>6, TreeSendsTask
  <2>5. ASSUME NEW p \in SPs, RootLists(p), IsWhole(Sp(p)), c = Store(Sp(p), file[Sp(p)])
        PROVE  Grown'
    <3>1. PICK d: d = file[Sp(p)]
      OBVIOUS
    <3>2. Fits(Sp(p), d) /\ \A u \in d: IsWhole(Tl(u, p))
      BY <1>3, <2>5, <3>1, FitsMore DEF Subtree, SubtreeBut
    <3>3. \A q \in SPs: Sp(p) = Sp(q) => q = p
      BY <1>4
    <3>4. Turns(<<Store(Sp(p), d)>>, FALSE, <<>>) /\ Sp(p) # Root /\ Sp(p) \notin BlobFiles
      BY <1>4, <2>1, <2>5, <3>1
    <3> QED
      BY <1>1, <1>3, <3>2, <3>3, <3>4, TreeSendsSingle
  <2>6. ASSUME NEW u \in TAs, NEW p \in SPs, c = Store(Tl(u, p), {})
        PROVE  Grown'
    <3>1. Turns(<<Store(Tl(u, p), {})>>, FALSE, <<>>)
      BY <2>1, <2>6
    <3>2. PICK f, e: f = Tl(u, p) /\ e = {}
      OBVIOUS
    <3>3. /\ Fits(f, e) /\ f \notin BlobFiles /\ f # Root /\ (\A q \in SPs: f # Sp(q))
          /\ Turns(<<Store(f, e)>>, FALSE, <<>>)
      BY <1>4, <3>1, <3>2, FitsAlways
    <3> QED
      BY <1>1, <1>3, <3>3, TreeSendsSingle
  <2>7. ASSUME NEW u \in TAs, NEW p \in SPs, file[Tl(u, p)] \notin {NONE, EMPTY},
               c = StoreTABlob(u, p)
        PROVE  Grown'
    <3>1. IsWhole(Tl(u, p))
      BY <1>3, <2>7, FilesAre
    <3> QED
      BY <1>1, <2>1, <2>7, <3>1, TreeSendsBlob
  <2> QED
    BY <1>5, <2>2, <2>3, <2>4, <2>5, <2>6, <2>7 DEF BeginsSingle
<1>6. ASSUME BeginsRegistering
      PROVE  Grown'
  <2>1. PICK steps: steps = Registering
    OBVIOUS
  <2>2. Turns(steps, FALSE, <<>>)
    BY <1>6, <2>1 DEF BeginsRegistering
  <2>3. steps # <<>> /\ Head(steps) = Store(Root, {})
    BY <2>1 DEF Registering
  <2>4. \A a \in Answered: steps # Recovery(a)
    BY <2>1, TokenLists
  <2>5. SendsNext'
    BY <2>1, <2>2, NotPaired, PairsNoneNext, StepsOf DEF NoPair
  <2> QED
    BY <1>1, <1>3, <1>4, <2>2, <2>3, <2>4, <2>5, FitsAlways, TreeSendsStore
<1>7. ASSUME NEW p \in SPs, BeginsAddSp(p)
      PROVE  Grown'
  <2>1. PICK d: d = file[Root] \cup {p}
    OBVIOUS
  <2>2. PICK steps: steps = PairSp(p, d)
    OBVIOUS
  <2>3. IsWhole(Root) /\ p \notin file[Root] /\ Turns(steps, FALSE, <<>>)
    BY <1>7, <2>1, <2>2 DEF BeginsAddSp, PairSp, RootLists
  <2>4. steps # <<>> /\ Head(steps) = Store(Sp(p), {}) /\ client'.steps = steps
        /\ \A a \in Answered: steps # Recovery(a)
    BY <2>2, <2>3, StepsOf DEF PairSp
  <2>5. SendsNext'
    BY <2>1, <2>2, <2>3, <2>4, SendsNextSp
  <2>6. PICK f, e: f = Sp(p) /\ e = {}
    OBVIOUS
  <2>7. Fits(f, e) /\ f \notin BlobFiles /\ f # Root /\ Head(steps) = Store(f, e)
    BY <1>4, <2>4, <2>6, FitsAlways
  <2>8. \A q \in SPs: f = Sp(q) => \A u \in e: IsWhole(Tl(u, q))
    BY <2>6
  <2> QED
    BY <1>1, <1>3, <2>3, <2>4, <2>5, <2>7, <2>8, TreeSendsStore
<1>8. ASSUME NEW p \in SPs, BeginsCutSp(p)
      PROVE  Grown'
  <2>1. PICK d: d = file[Root] \ {p}
    OBVIOUS
  <2>2. PICK steps: steps = CutPairSp(p, d)
    OBVIOUS
  <2>3. RootLists(p) /\ IsWhole(Root) /\ Turns(steps, TRUE, <<>>) /\ d \in SUBSET SPs
    BY <1>8, <2>1, <2>2, FitsMore DEF BeginsCutSp, CutPairSp, RootLists
  <2>4. steps # <<>> /\ Head(steps) = CleanupSp(p) /\ client'.steps = steps
        /\ \A a \in Answered: steps # Recovery(a)
    BY <2>2, <2>3, StepsOf DEF CutPairSp
  <2>5. SendsNext'
    BY <2>1, <2>2, <2>3, <2>4, SendsNextSp
  <2>6. PICK t: t = <<"cleanSp", p>>
    OBVIOUS
  <2>7. CleanupSp(p) = <<t>> /\ t \in Tasks /\ t[1] = "cleanSp" /\ t[2] = p
        /\ CleanupSp(p) \in Commandos
    BY <2>6, CommandsSound, MoreTasks DEF CleanupSp
  <2>8. CutsSpOf(p)'
    <3>1. CutsSp(p, d)'
      BY <2>2, <2>3, TurnsScript DEF CutsSp, CutPairSp
    <3> QED
      BY <2>3, <3>1 DEF CutsSpOf
  <2>9. Needs(t)
    BY <1>3, <2>3, <2>7 DEF Needs
  <2> QED
    BY <1>1, <1>2, <2>3, <2>4, <2>5, <2>7, <2>8, <2>9, TreeSendsTask
<1>9. ASSUME NEW u \in TAs, NEW p \in SPs, BeginsAddTl(u, p)
      PROVE  Grown'
  <2>1. PICK d: d = file[Sp(p)] \cup {u}
    OBVIOUS
  <2>2. PICK steps: steps = PairTl(u, p, d)
    OBVIOUS
  <2>3. RootLists(p) /\ IsWhole(Sp(p)) /\ Turns(steps, FALSE, <<CleanupTrustlet(u, p)>>)
    BY <1>9, <2>1, <2>2 DEF BeginsAddTl, PairTl
  <2>4. steps # <<>> /\ Head(steps) = Store(Tl(u, p), {}) /\ client'.steps = steps
        /\ \A a \in Answered: steps # Recovery(a)
    BY <2>2, <2>3, StepsOf DEF PairTl
  <2>5. SendsNext'
    BY <2>1, <2>2, <2>3, <2>4, SendsNextTl
  <2>6. PICK undo: undo = <<CleanupTrustlet(u, p)>>
    OBVIOUS
  <2>7. Turns(steps, FALSE, undo)
    BY <2>3, <2>6
  <2>8. PICK f, e: f = Tl(u, p) /\ e = {}
    OBVIOUS
  <2>9. /\ Fits(f, e) /\ f \notin BlobFiles /\ f # Root /\ (\A q \in SPs: f # Sp(q))
        /\ Head(steps) = Store(f, e)
    BY <1>4, <2>4, <2>8, FitsAlways
  <2> QED
    BY <1>1, <1>3, <2>4, <2>5, <2>7, <2>9, TreeSendsStore
<1>10. ASSUME NEW u \in TAs, NEW p \in SPs, BeginsCutTl(u, p)
       PROVE  Grown'
  <2>1. PICK d: d = file[Sp(p)] \ {u}
    OBVIOUS
  <2>2. PICK steps: steps = CutPairTl(u, p, d)
    OBVIOUS
  <2>3. RootLists(p) /\ IsWhole(Sp(p)) /\ u \in file[Sp(p)] /\ Turns(steps, TRUE, <<>>)
        /\ d \in SUBSET TAs
    BY <1>10, <2>1, <2>2, FitsMore DEF BeginsCutTl, CutPairTl, SpLists
  <2>4. steps # <<>> /\ Head(steps) = CleanupTrustlet(u, p) /\ client'.steps = steps
        /\ \A a \in Answered: steps # Recovery(a)
    BY <2>2, <2>3, StepsOf DEF CutPairTl
  <2>5. SendsNext'
    BY <2>1, <2>2, <2>3, <2>4, SendsNextTl
  <2>6. PICK t: t = <<"cleanTl", u, p>>
    OBVIOUS
  <2>7. CleanupTrustlet(u, p) = <<t>> /\ t \in Tasks /\ t[1] = "cleanTl" /\ t[2] = u /\ t[3] = p
        /\ CleanupTrustlet(u, p) \in Commandos
    BY <2>6, CommandsSound, MoreTasks DEF CleanupTrustlet
  <2>8. CutsTlOf(u, p)'
    <3>1. CutsTl(u, p, d)'
      BY <2>2, <2>3, TurnsScript DEF CutsTl, CutPairTl
    <3> QED
      BY <2>3, <3>1 DEF CutsTlOf
  <2>9. Needs(t)
    BY <1>3, <2>3, <2>7 DEF Needs, Subtree, SubtreeBut
  <2> QED
    BY <1>1, <1>2, <2>3, <2>4, <2>5, <2>7, <2>8, <2>9, TreeSendsTask
<1> QED
  BY <1>5, <1>6, <1>7, <1>8, <1>9, <1>10 DEF Beginning

\* A CMP command goes on.
LEMMA TreeGoesOn ==
  ASSUME Typed, Token, Children, Grown, failed = 0, GoingOn, UNCHANGED <<file, up>>
  PROVE  Grown'
<1>1. client.answer = "ok" /\ ~Busy /\ \A a \in Answered: client.steps # Recovery(a)
  BY DEF GoingOn, Grown, Smooth, Waiting
<1>2. Honest
  BY DEF Honest
<1>3. /\ \A p \in SPs: RootLists(p) =>
           SubtreeBut(p, {u \in TAs: CutsTlOf(u, p)}) \/ CutsSpOf(p)
  BY <1>1, Rests
<1>4. /\ \A p: Sp(p) # Root /\ \A q: Sp(p) = Sp(q) => p = q
      /\ Root \notin BlobFiles /\ \A p: Sp(p) \notin BlobFiles
  BY FileNames DEF BlobFiles
<1>5. ASSUME GoesReading
      PROVE  Grown'
  <2>1. PICK t: t = <<"read">>
    OBVIOUS
  <2>2. PICK steps: steps = Reading
    OBVIOUS
  <2>3. /\ Head(steps) = <<t>> /\ t \in Tasks /\ t[1] = "read" /\ Head(steps) \in Commandos
        /\ steps # <<>>
    <3>1. ReadAuthToken \in Commandos
      BY CommandsSound
    <3>2. Head(Reading) = ReadAuthToken /\ Reading # <<>>
      BY DEF Reading
    <3>3. ReadAuthToken = <<t>> /\ t \in Tasks /\ t[1] = "read"
      BY <2>1 DEF ReadAuthToken, Tasks
    <3> QED
      BY <2>2, <3>1, <3>2, <3>3
  <2>4. Turns(steps, FALSE, <<>>)
    BY <1>5, <2>2 DEF GoesReading
  <2>5. ~Paired(client.steps)
    BY <1>5, NotPaired DEF GoesReading, Script
  <2>6. SendsNext'
    BY <2>2, <2>4, StepsOf, NotPaired, PairsNoneNext DEF NoPair
  <2>7. Needs(t) /\ \A a \in Answered: steps # Recovery(a)
    BY <2>2, <2>3, TokenLists DEF Needs
  <2> QED
    BY <1>1, <2>2, <2>3, <2>4, <2>5, <2>6, <2>7, TreeSendsTask
<1>6. ASSUME GoesDeleting
      PROVE  Grown'
  <2>1. PICK t: t = <<"rename">>
    OBVIOUS
  <2>2. PICK steps: steps = Deleting
    OBVIOUS
  <2>3. /\ Head(steps) = <<t>> /\ t \in Tasks /\ t[1] = "rename" /\ Head(steps) \in Commandos
        /\ steps # <<>>
    <3>1. DeleteAuthToken \in Commandos
      BY CommandsSound
    <3>2. Head(Deleting) = DeleteAuthToken /\ Deleting # <<>>
      BY DEF Deleting
    <3>3. DeleteAuthToken = <<t>> /\ t \in Tasks /\ t[1] = "rename"
      BY <2>1 DEF DeleteAuthToken, Tasks
    <3> QED
      BY <2>2, <3>1, <3>2, <3>3
  <2>4. PICK undo: undo = Recovery(client.answer)
    OBVIOUS
  <2>5. Turns(steps, FALSE, undo)
    BY <1>6, <2>2, <2>4 DEF GoesDeleting
  <2>6. ~Paired(client.steps)
    BY <1>6, NotPaired DEF GoesDeleting, Script
  <2>7. SendsNext'
    BY <2>2, <2>5, StepsOf, NotPaired, PairsNoneNext DEF NoPair
  <2>8. Needs(t) /\ \A a \in Answered: steps # Recovery(a)
    BY <2>2, <2>3, TokenLists DEF Needs
  <2> QED
    BY <1>1, <2>3, <2>5, <2>6, <2>7, <2>8, TreeSendsTask
<1>7. ASSUME NEW p \in SPs, NEW d \in SUBSET SPs, IsFiniteSet(d), GoesAddSp(p, d)
      PROVE  Grown'
  <2>1. AddsSp(p, d) /\ Turns(<<Store(Root, d)>>, FALSE, <<>>)
    BY <1>7 DEF GoesAddSp
  <2>2. client.steps = PairSp(p, d)
    BY <2>1, PairsNow
  <2>3. (\A q: ~CutsSpOf(q)) /\ \A u, q: ~CutsTlOf(u, q)
    BY <2>2, PairsNow, PairsAre DEF CutsSpOf, CutsTlOf
  <2>4. file[Sp(p)] = {}
    BY <1>1, <1>2, <2>1 DEF Children, LinksNext, AddingSp, StoresChild
  <2>5. IsWhole(Sp(p))
    BY <2>4, SaysWhole DEF IsWhole
  <2>6. IsWhole(Root) /\ d = file[Root] \cup {p}
    BY <2>1 DEF Grown, SendsNext
  <2>7. ASSUME NEW q \in d
        PROVE  Subtree(q)
    <3>1. CASE q = p
      BY <2>4, <2>5, <3>1 DEF Subtree, SubtreeBut
    <3>2. CASE q # p
      <4>1. RootLists(q)
        BY <2>6, <2>7, <3>2 DEF RootLists
      <4>2. {u \in TAs: CutsTlOf(u, q)} = {}
        BY <2>3
      <4> QED
        BY <1>3, <2>3, <4>1, <4>2 DEF Subtree
    <3> QED
      BY <3>1, <3>2
  <2>8. Fits(Root, d)
    BY <1>7, FitsAlways
  <2> QED
    BY <1>1, <1>4, <2>1, <2>7, <2>8, TreeSendsSingle
<1>8. ASSUME NEW p \in SPs, NEW d \in SUBSET SPs, IsFiniteSet(d), GoesCutSp(p, d)
      PROVE  Grown'
  <2>1. CutsSp(p, d) /\ Turns(<<Store(Root, d)>>, TRUE, <<>>)
    BY <1>8 DEF GoesCutSp
  <2>2. client.steps = CutPairSp(p, d)
    BY <2>1, PairsNow
  <2>3. (\A q: CutsSpOf(q) => q = p) /\ \A u, q: ~CutsTlOf(u, q)
    BY <2>2, PairsNow, PairsAre DEF CutsSpOf, CutsTlOf
  <2>4. IsWhole(Root) /\ d = file[Root] \ {p}
    BY <2>1 DEF Grown, SendsNext
  <2>5. ASSUME NEW q \in d
        PROVE  Subtree(q)
    <3>1. RootLists(q) /\ ~CutsSpOf(q)
      BY <2>3, <2>4, <2>5 DEF RootLists
    <3>2. {u \in TAs: CutsTlOf(u, q)} = {}
      BY <2>3
    <3> QED
      BY <1>3, <3>1, <3>2 DEF Subtree
  <2>6. Fits(Root, d)
    BY <1>8, FitsAlways
  <2> QED
    BY <1>1, <1>4, <2>1, <2>5, <2>6, TreeSendsSingle
<1>9. ASSUME NEW u \in TAs, NEW p \in SPs, NEW d \in SUBSET TAs, IsFiniteSet(d), GoesAddTl(u, p, d)
      PROVE  Grown'
  <2>1. AddsTl(u, p, d) /\ Turns(<<Store(Sp(p), d)>>, FALSE, <<CleanupTrustlet(u, p)>>)
    BY <1>9 DEF GoesAddTl
  <2>2. client.steps = PairTl(u, p, d)
    BY <2>1, PairsNow
  <2>3. (\A q: ~CutsSpOf(q)) /\ \A v, q: ~CutsTlOf(v, q)
    BY <2>2, PairsNow, PairsAre DEF CutsSpOf, CutsTlOf
  <2>4. file[Tl(u, p)] = {}
    BY <1>1, <1>2, <2>1 DEF Children, LinksNext, AddingTl, StoresChild
  <2>5. IsWhole(Tl(u, p))
    BY <2>4, SaysWhole DEF IsWhole
  <2>6. RootLists(p) /\ IsWhole(Sp(p)) /\ d = file[Sp(p)] \cup {u}
    BY <2>1 DEF Grown, SendsNext
  <2>7. \A q \in SPs: RootLists(q) => Subtree(q)
    <3>1. \A q: {v \in TAs: CutsTlOf(v, q)} = {}
      BY <2>3
    <3> QED
      BY <1>3, <2>3, <3>1 DEF Subtree
  <2>8. \A v \in d: IsWhole(Tl(v, p))
    BY <2>5, <2>6, <2>7 DEF Subtree, SubtreeBut
  <2>9. Fits(Sp(p), d)
    BY <1>9, FitsAlways
  <2>10. PICK undo: undo = <<CleanupTrustlet(u, p)>>
    OBVIOUS
  <2>11. Turns(<<Store(Sp(p), d)>>, FALSE, undo) /\ Sp(p) # Root /\ Sp(p) \notin BlobFiles
         /\ \A q \in SPs: Sp(p) = Sp(q) => q = p
    BY <1>4, <2>1, <2>10
  <2> QED
    BY <1>1, <2>7, <2>8, <2>9, <2>11, TreeSendsSingle
<1>10. ASSUME NEW u \in TAs, NEW p \in SPs, NEW d \in SUBSET TAs, IsFiniteSet(d), GoesCutTl(u, p, d)
       PROVE  Grown'
  <2>1. CutsTl(u, p, d) /\ Turns(<<Store(Sp(p), d)>>, TRUE, <<>>)
    BY <1>10 DEF GoesCutTl
  <2>2. client.steps = CutPairTl(u, p, d)
    BY <2>1, PairsNow
  <2>3. (\A q: ~CutsSpOf(q)) /\ \A v, q: CutsTlOf(v, q) => v = u /\ q = p
    BY <2>2, PairsNow, PairsAre DEF CutsSpOf, CutsTlOf
  <2>4. RootLists(p) /\ IsWhole(Sp(p)) /\ d = file[Sp(p)] \ {u}
    BY <2>1 DEF Grown, SendsNext
  <2>5. \A q \in SPs: RootLists(q) => Subtree(q) \/ q = p
    <3>1. \A q: q # p => {v \in TAs: CutsTlOf(v, q)} = {}
      BY <2>3
    <3> QED
      BY <1>3, <2>3, <3>1 DEF Subtree
  <2>6. \A v \in d: IsWhole(Tl(v, p))
    BY <1>3, <2>3, <2>4 DEF SubtreeBut
  <2>7. Fits(Sp(p), d)
    BY <1>10, FitsAlways
  <2>8. Sp(p) # Root /\ Sp(p) \notin BlobFiles /\ \A q \in SPs: Sp(p) = Sp(q) => q = p
    BY <1>4
  <2> QED
    BY <1>1, <2>1, <2>5, <2>6, <2>7, <2>8, TreeSendsSingle
<1>11. ASSUME NEW u \in TAs, NEW p \in SPs, NEW d \in SUBSET TAs
       PROVE  ~GoesUndoing(u, p, d)
  BY <1>1 DEF GoesUndoing
<1>12. \A a \in Answered: ~GoesRecovering(a) /\ ~GoesCleaning(a)
  BY <1>1 DEF GoesRecovering, GoesCleaning, Script
<1> QED
  BY <1>5, <1>6, <1>7, <1>8, <1>9, <1>10, <1>11, <1>12 DEF GoingOn

\* A CMP command ends: all of it has been sent.
LEMMA TreeDismisses ==
  ASSUME Typed, Grown, Continue, Dismisses
  PROVE  Grown'
<1>1. client.answer = "ok" /\ ~Busy /\ up' = up /\ file' = file
  BY DEF Continue, Grown, Smooth, Waiting
<1>2. ~Paired(client.steps)
  <2>1. SUFFICES ASSUME NEW c, NEW d, client.steps = <<c, d>>
                 PROVE  FALSE
    BY DEF Paired, PairSp, PairTl, CutPairSp, CutPairTl
  <2>2. Tail(<<c, d>>) # <<>>
    <3>1. Len(Tail(<<c, d>>)) = 1
      OBVIOUS
    <3> QED
      BY <3>1
  <2>3. client'.steps = Tail(client.steps)
    BY <1>1, <2>1, <2>2 DEF Continue, Typed, Types, Clients
  <2>4. client'.steps = <<>>
    BY DEF Dismisses, NoCommand
  <2> QED
    BY <2>1, <2>2, <2>3, <2>4
<1>3. job'.todo = <<>> /\ DOMAIN job'.todo = {} /\ queued' = queued /\ client' = NoCommand
  BY <1>1 DEF Dismisses, Busy
<1>4. Smooth'
  <2>1. \A a \in Answered: Recovery(a) # <<>>
    BY TokenLists
  <2> QED
    BY <1>1, <1>3, <2>1 DEF Grown, Smooth, Busy, NoCommand
<1>5. NoPair'
  BY <1>3, NotPaired, PairsNoneNext DEF NoCommand
<1>6. RemovesNothing' /\ Ready'
  BY <1>3, StoresRemoveNothingNext DEF OnlyStores, RemovesNothing, Busy
<1>7. (\A f: IsWhole(f)' <=> IsWhole(f)) /\ \A f \in Files: IsWhole(f) \/ file[f] = NONE
  BY <1>1, Rests DEF IsWhole
<1>8. NoneBroken'
  BY <1>1, <1>7 DEF NoneBroken
<1>9. TreeHolds'
  BY <1>1, <1>2, <1>7, RestsAlone DEF TreeHolds, RootLists, Subtree, SubtreeBut
<1>10. StoresWhole' /\ BlobStores'
  BY <1>3 DEF StoresWhole, BlobStores, Stores1
<1>11. BlobsKept'
  BY <1>1, <1>7, Rests DEF BlobsKept, Names
<1> QED
  BY <1>4, <1>5, <1>6, <1>8, <1>9, <1>10, <1>11 DEF Grown, RemovesNothing, NoPair

LEMMA TreeStays == Grown /\ UNCHANGED vars => Grown'
<1> SUFFICES ASSUME Grown, UNCHANGED vars
             PROVE  Grown'
  OBVIOUS
<1> USE DEF vars
<1>1. /\ \A p, d: (AddsSp(p, d)' <=> AddsSp(p, d)) /\ (CutsSp(p, d)' <=> CutsSp(p, d))
      /\ \A u, p, d: (AddsTl(u, p, d)' <=> AddsTl(u, p, d)) /\ (CutsTl(u, p, d)' <=> CutsTl(u, p, d))
      /\ \A p: CutsSpOf(p)' <=> CutsSpOf(p)
      /\ \A u, p: CutsTlOf(u, p)' <=> CutsTlOf(u, p)
  BY ScriptsSame
<1>2. /\ \A f: (IsWhole(f)' <=> IsWhole(f)) /\ (Fills(f)' <=> Fills(f))
      /\ \A t: Has(t)' <=> Has(t)
      /\ \A u, p: Names(u, p)' <=> Names(u, p)
      /\ Busy' <=> Busy
  BY DEF IsWhole, Fills, Has, Names, Busy
<1>3. /\ \A p: /\ RootLists(p)' <=> RootLists(p)
               /\ \A U: SubtreeBut(p, U)' <=> SubtreeBut(p, U)
               /\ Subtree(p)' <=> Subtree(p)
  BY <1>2 DEF RootLists, SubtreeBut, Subtree
<1>4. \A p: (Cutting(p)' <=> Cutting(p)) /\ (Changing(p)' <=> Changing(p)) /\ Missing(p)' = Missing(p)
  BY <1>1, <1>2 DEF Cutting, Changing, Missing, Stores1
<1>5. Smooth'
  BY DEF Grown, Smooth, Busy, Waiting
<1>6. NoneBroken' /\ TreeHolds'
  BY <1>2, <1>3, <1>4 DEF Grown, NoneBroken, TreeHolds
<1>7. Ready' /\ Apart' /\ Removals'
  BY <1>1, <1>2, <1>3, <1>4 DEF Grown, Ready, Needs, Apart, Removals
<1>8. StoresWhole' /\ BlobStores' /\ BlobsKept' /\ Discards'
  BY <1>2, <1>3 DEF Grown, StoresWhole, BlobStores, OpensSpid, BlobsKept, Discards, Stores1
<1>9. SendsNext'
  BY <1>1, <1>2, <1>3 DEF Grown, SendsNext
<1> QED
  BY <1>5, <1>6, <1>7, <1>8, <1>9 DEF Grown

\* The tree is the one RootPA and the daemon mean to have, step by step.
LEMMA TreeSteps ==
  ASSUME Typed, Token, Children, Tree, [Next]_vars
  PROVE  Tree'
<1> SUFFICES ASSUME failed' = 0
             PROVE  Grown'
  BY DEF Tree
<1>1. failed \in Nat
  BY DEF Typed, Types
<1>2. CASE CmpCommand
  <2>1. Beginning /\ UNCHANGED <<file, up, failed>>
    BY <1>2, Begun
  <2>2. Grown
    BY <2>1 DEF Tree
  <2> QED
    BY <2>1, <2>2, TreeBegins
<1>3. CASE Continue
  <2>1. (Dismisses \/ GoingOn) /\ UNCHANGED <<file, up, failed>>
    BY <1>3, Continued
  <2>2. Grown /\ failed = 0
    BY <2>1 DEF Tree
  <2> QED
    BY <1>3, <2>1, <2>2, TreeDismisses, TreeGoesOn
<1>4. CASE Daemon
  <2>1. Executing
    BY <1>4, Executed DEF Executing
  <2>2. FailStep
    BY <2>1, ExecutesInPart DEF Executing
  <2>3. Grown /\ failed = 0
    BY <1>1, <2>2 DEF FailStep, Tree
  <2> QED
    BY <2>1, <2>3, TreeExecutes
<1>5. CASE TimeOut \/ RootPADies \/ DaemonDies
  <2>1. failed' = failed + 1
    BY <1>5 DEF TimeOut, RootPADies, DaemonDies, Fails
  <2> QED
    BY <1>1, <2>1
<1>6. CASE DaemonStarts
  BY <1>6 DEF DaemonStarts, Tree, Grown, Smooth
<1>7. CASE UNCHANGED vars
  <2>1. Grown
    BY <1>7 DEF Tree, vars
  <2> QED
    BY <1>7, <2>1, TreeStays
<1> QED
  BY <1>2, <1>3, <1>4, <1>5, <1>6, <1>7 DEF Next

LEMMA TreeInit == Init => Tree
<1> SUFFICES ASSUME Init
             PROVE  Grown
  BY DEF Tree
<1>1. /\ job.todo = <<>> /\ DOMAIN job.todo = {} /\ client.steps = <<>> /\ ~Busy
      /\ \A f \in Files: file[f] = NONE
  BY DEF Init, NoJob, NoCommand, Busy
<1>2. \A f \in Files: ~IsWhole(f)
  BY <1>1 DEF IsWhole, Whole, Broken
<1>3. NoPair
  BY <1>1, NotPaired, PairsNone
<1>4. RemovesNothing /\ Ready
  BY <1>1, StoresRemoveNothing DEF OnlyStores, RemovesNothing
<1>5. Smooth
  <2>1. \A a \in Answered: Recovery(a) # <<>>
    BY TokenLists
  <2> QED
    BY <1>1, <2>1 DEF Init, Smooth, NoCommand
<1>6. NoneBroken /\ TreeHolds
  BY <1>1, <1>2, FilesAre DEF NoneBroken, TreeHolds, RootLists
<1>7. StoresWhole /\ BlobStores
  BY <1>1 DEF StoresWhole, BlobStores, Stores1
<1>8. BlobsKept
  <2>1. \A p \in SPs: {p} # NONE
    BY SaysWhole
  <2> QED
    BY <1>1, <2>1, FilesAre DEF BlobsKept, Names
<1> QED
  BY <1>3, <1>4, <1>5, <1>6, <1>7, <1>8 DEF Grown, RemovesNothing, NoPair

LEMMA TreeFollows == Typed /\ Tree => TreeWhole
<1> SUFFICES ASSUME Typed, Tree, client = NoCommand, failed = 0, NEW p \in SPs
             PROVE  /\ RootLists(p) => IsWhole(Sp(p))
                    /\ \A u \in TAs: /\ SpLists(p, u) => IsWhole(Tl(u, p))
                                     /\ BlobFound(u, p) => IsWhole(Tl(u, p))
  BY DEF TreeWhole
<1>1. Grown /\ ~Busy
  BY DEF Tree, Grown, Smooth, Waiting, NoCommand
<1>2. RootLists(p) => Subtree(p)
  BY <1>1, NotPaired, RestsAlone DEF NoCommand
<1>3. \A u \in TAs: Names(u, p) => IsWhole(Tl(u, p))
  BY <1>1, Rests
<1> QED
  BY <1>2, <1>3 DEF Subtree, SubtreeBut, SpLists, BlobFound, Names

LEMMA TokenInit == Init => Token
<1> SUFFICES ASSUME Init
             PROVE  Token
  OBVIOUS
<1>1. /\ file[Auth] = NONE /\ file[Backup] = NONE /\ job = NoJob /\ queued = <<>>
      /\ client = NoCommand
  BY FilesAre DEF Init
<1>2. Slots = {0} /\ Todo(0) = <<>>
  BY <1>1 DEF Slots, Todo, NoJob
<1>3. client.steps = <<>> /\ client.undo = <<>> /\ ~Busy /\ ~Waiting /\ ~TokenNeeded
  BY <1>1, TokenLists DEF NoCommand, NoJob, Busy, Waiting, TokenNeeded, Registering, Reading
<1>4. \A l \in {Reading, Deleting, Recovery("error")}: l # <<>>
  BY TokenLists DEF Reading, Deleting
<1> QED
  BY <1>1, <1>2, <1>3, <1>4, BrokenDiffer
     DEF Token, RenameOnce, BackupIsToken, AtWork, NoGarbage, Renames, Stores1, Garbage

-----------------------------------------------------------------------------
(* What the invariant says of the registry.                                *)

LEMMA TypedTokenAlways == Spec => [](Typed /\ Token)
<1>1. Init => Typed /\ Token
  BY TypedInit, TokenInit
<1>2. Typed /\ Token /\ [Next]_vars => (Typed /\ Token)'
  BY TypedSteps, TokenSteps DEF Token
<1> QED
  BY <1>1, <1>2, PTL DEF Spec

LEMMA InvFollows == Typed /\ Token => Inv
<1> SUFFICES ASSUME Typed, Token
             PROVE  Inv
  OBVIOUS
<1>1. TypeOK
  BY SaysWhole DEF TypeOK, Typed, Types, Clients, IsWhole
<1>2. OneCommand
  BY AtMostTwo DEF OneCommand, Typed, Flow
<1>3. BackupWhole
  BY SaysWhole DEF BackupWhole, Token, BackupIsToken, IsWhole
<1> QED
  BY <1>1, <1>2, <1>3 DEF Inv

LEMMA TokenKeptFollows == Token /\ failed <= 1 /\ failed \in Nat => TokenKept
<1> SUFFICES ASSUME Token, failed \in Nat, failed <= 1, file[Backup] # NONE
             PROVE  Whole(Endorsed)
  BY DEF TokenKept
<1>1. file[Backup] = {} /\ file[Auth] # GARBAGE /\ Whole({})
  BY SaysWhole DEF Token, BackupIsToken, NoGarbage
<1> QED
  BY <1>1 DEF Endorsed, TokenSize

\* The registry's files say what the daemon can store in them, one command is executed
\* at a time and RootPA waits for the last one, and the backup of the token is a token
\* (PrivateRegistry.cpp: mcRegistryDeleteAuthToken() renames a file nobody checks).
THEOREM RegistryInvariant == Spec => []Inv
BY TypedTokenAlways, InvFollows, PTL

\* Until a second failure the secure world gets a token once a root has been
\* registered: the recovery of pacmp3.c writes something else than the token only if
\* the token could not be read and could not be deleted either.
THEOREM TokenSurvivesOneFailure == Spec => [](failed <= 1 => TokenKept)
<1>1. Typed /\ Token => (failed <= 1 => TokenKept)
  BY TokenKeptFollows, FailuresAssumption DEF Typed, Types, FailuresAssumption
<1> QED
  BY <1>1, TypedTokenAlways, PTL

\* With at most one failure, as the run has it, that is always so.
THEOREM TokenIsKept == ASSUME MaxFailures <= 1 PROVE Spec => []TokenKept
<1>1. Typed /\ Token => TokenKept
  <2>1. Typed => failed \in Nat /\ failed <= 1
    BY FailuresAssumption DEF Typed, Types, FailuresAssumption
  <2> QED
    BY <2>1, TokenKeptFollows
<1> QED
  BY <1>1, TypedTokenAlways, PTL

\* RootPA writes a container with its new child only after the child's container has
\* been stored (pacmp3.c: the parent is the last command), unless the daemon took a
\* short write for a whole one (what fflush() and fclose() return is ignored).
THEOREM AddedChildrenAreStored ==
  ASSUME "unnoticed" \notin Failures
  PROVE  Spec => AddedChildStored
<1>1. Init => IInv
  BY TypedInit, TokenInit, ChildrenInit, TreeInit DEF IInv
<1>2. IInv /\ [Next]_vars => IInv'
  BY TypedSteps, TokenSteps, ChildrenSteps, TreeSteps DEF IInv, Token
<1>3. IInv /\ [Next]_vars =>
        [ /\ \A p \in SPs: p \in listed'[Root] \ listed[Root] => IsWhole(Sp(p))
          /\ \A p \in SPs, u \in TAs:
               u \in listed'[Sp(p)] \ listed[Sp(p)] => IsWhole(Tl(u, p)) ]_vars
  <2> SUFFICES ASSUME IInv, [Next]_vars
               PROVE  /\ \A p \in SPs: p \in listed'[Root] \ listed[Root] => IsWhole(Sp(p))
                      /\ \A p \in SPs, u \in TAs:
                           u \in listed'[Sp(p)] \ listed[Sp(p)] => IsWhole(Tl(u, p))
    OBVIOUS
  <2>1. Honest /\ Typed /\ Children
    BY DEF Honest, IInv
  <2>2. ASSUME NEW p \in SPs, p \in listed'[Root] \ listed[Root]
        PROVE  IsWhole(Sp(p))
    <3>1. Root \in Parents
      BY DEF Parents
    <3>2. ChildStored(Root, p)
      BY <2>1, <2>2, <3>1, ListedChildren
    <3> QED
      BY <3>2, FileNames DEF ChildStored
  <2>3. ASSUME NEW p \in SPs, NEW u \in TAs, u \in listed'[Sp(p)] \ listed[Sp(p)]
        PROVE  IsWhole(Tl(u, p))
    <3>1. Sp(p) \in Parents
      BY DEF Parents
    <3>2. ChildStored(Sp(p), u)
      BY <2>1, <2>3, <3>1, ListedChildren
    <3> QED
      BY <3>2, FileNames DEF ChildStored
  <2> QED
    BY <2>2, <2>3
<1> QED
  BY <1>1, <1>2, <1>3, PTL DEF Spec, AddedChildStored

\* As long as nothing fails, each container that is listed is stored when RootPA has
\* nothing more to send, and a blob goes with its container: what storeContainers()
\* sends, in its order, and what the recursive clean-up of the daemon removes agree.
THEOREM TreeIsWhole == Spec => []TreeWhole
<1>1. Init => IInv
  BY TypedInit, TokenInit, ChildrenInit, TreeInit DEF IInv
<1>2. IInv /\ [Next]_vars => IInv'
  BY TypedSteps, TokenSteps, ChildrenSteps, TreeSteps DEF IInv, Token
<1>3. IInv => TreeWhole
  BY TreeFollows DEF IInv
<1> QED
  BY <1>1, <1>2, <1>3, PTL DEF Spec

=============================================================================
