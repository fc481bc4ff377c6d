---------------------- MODULE AnjutaPmProject_proofs ----------------------
(***************************************************************************)
(* No package is forgotten, whatever the projects, the packages, the        *)
(* changes and the failures.                                                *)
(*                                                                         *)
(* LOADING is what makes it so: a node has it from the moment its job is    *)
(* pushed (LoadingInv) to the successful end of that job, and on_pm_project_*)
(* load_incomplete pushes a job for every INCOMPLETE child that does not    *)
(* have it.  So a node has at most one job (OnceInv), and a package of the  *)
(* open project that has the flag has either its job in the queue or failed *)
(* (PendingInv).                                                            *)
(***************************************************************************)
EXTENDS AnjutaPmProject, FiniteSetTheorems, SequenceTheorems, TLAPS

\* The node n has a job in queues.
HasJob(queues, n) ==
    \E q \in Project : \E i \in DOMAIN queues[q] : queues[q][i] = n

\* No package has two jobs in queues.
Once(queues) ==
    \A q, r \in Project : \A i \in DOMAIN queues[q], j \in DOMAIN queues[r] :
        queues[q][i] \in Package /\ queues[q][i] = queues[r][j]
            => q = r /\ i = j

\* What is known of a project that has not been opened, and of the open one.
LifeInv ==
    /\ project \in Project => life[project] = "live"
    /\ \A p \in Project :
           life[p] = "new" =>
               /\ Children(p) = {}
               /\ ~HasJob(queue, p)
               /\ changes[p] = 0
               /\ p \notin rooted

ReadInv == \A q \in Project : proxy[q].read => queue[q] # <<>>

LoadingInv ==
    /\ loading \subseteq incomplete
    /\ \A n \in Package : HasJob(queue, n) => n \in loading

OnceInv == Once(queue)

PendingInv ==
    project \in Project =>
        /\ \A n \in (Children(project) \cap loading) \ failed :
               \E i \in DOMAIN queue[project] : queue[project][i] = n
        /\ project \in rooted \ failed => Children(project) \cap incomplete \subseteq loading

IInv == TypeOK /\ LifeInv /\ ReadInv /\ LoadingInv /\ OnceInv /\ PendingInv

-----------------------------------------------------------------------------
(* Finite sets, and the sequence that lists one                            *)

\* There are finitely many packages.
LEMMA PackageFinite == IsFiniteSet(Package)
<1> DEFINE T == (Project \X Name) \X (0 .. MaxGen)
           f == [t \in T |-> [of |-> t[1][1], name |-> t[1][2], gen |-> t[2]]]
<1>1. IsFiniteSet(0 .. MaxGen)
    BY FS_Interval, ConstantsAssumption
<1>2. IsFiniteSet(T)
    BY <1>1, FS_Product, ConstantsAssumption
<1>3. f \in [T -> Package]
    BY DEF Package
<1>4. ASSUME NEW c \in Package PROVE \E t \in T : f[t] = c
    <2>1. <<<<c.of, c.name>>, c.gen>> \in T
        BY DEF Package
    <2>2. f[<<<<c.of, c.name>>, c.gen>>] = c
        BY <2>1 DEF Package
    <2>3. QED
        BY <2>1, <2>2
<1>5. f \in Surjection(T, Package)
    BY <1>3, <1>4 DEF Surjection
<1>6. QED
    BY <1>2, <1>5, FS_Surjection

\* SetToSeq lists a finite set, each element once.
LEMMA SetToSeqProperties ==
    ASSUME NEW S, IsFiniteSet(S)
    PROVE  /\ SetToSeq(S) \in Seq(S)
           /\ \A i, j \in DOMAIN SetToSeq(S) :
                  SetToSeq(S)[i] = SetToSeq(S)[j] => i = j
           /\ \A s \in S : \E i \in DOMAIN SetToSeq(S) : SetToSeq(S)[i] = s
<1> DEFINE n == Cardinality(S)
           f == SetToSeq(S)
<1>1. n \in Nat /\ ExistsBijection(1 .. n, S)
    BY FS_CardinalityType
<1>2. \E g \in [1 .. n -> S] : IsInjective(g)
    BY <1>1 DEF ExistsBijection, Bijection, Injection
<1>3. f \in [1 .. n -> S] /\ IsInjective(f)
    BY <1>2 DEF SetToSeq
<1>4. f \in Injection(1 .. n, S)
    BY <1>3 DEF Injection
<1>5. IsFiniteSet(1 .. n) /\ Cardinality(1 .. n) = n
    BY <1>1, FS_Interval
<1>6. f \in Surjection(1 .. n, S)
    <2> HIDE DEF f
    <2>1. QED
        BY <1>4, <1>5, FS_Injection
<1>7. f \in Seq(S)
    BY <1>1, <1>3, SeqDef
<1>8. QED
    BY <1>3, <1>6, <1>7 DEF IsInjective, Surjection

-----------------------------------------------------------------------------
(* The queues                                                              *)

\* What a push changes: nothing moves, and a package that has no job gets one.
LEMMA LoadProperties ==
    ASSUME NEW queues \in [Project -> Seq(Node)],
           NEW ns \in Seq(Node),
           project \in Project \cup {none},
           \A i \in DOMAIN ns : ns[i] \in Package => ~HasJob(queues, ns[i]),
           \A i, j \in DOMAIN ns : ns[i] \in Package /\ ns[i] = ns[j] => i = j
    PROVE  /\ Load(queues, ns) \in [Project -> Seq(Node)]
           /\ \A q \in Project : q # project => Load(queues, ns)[q] = queues[q]
           /\ project \in Project =>
                  /\ \A i \in DOMAIN queues[project] :
                         /\ i \in DOMAIN Load(queues, ns)[project]
                         /\ Load(queues, ns)[project][i] = queues[project][i]
                  /\ \A i \in DOMAIN ns :
                         \E j \in DOMAIN Load(queues, ns)[project] :
                             Load(queues, ns)[project][j] = ns[i]
           /\ \A n : HasJob(Load(queues, ns), n) =>
                  HasJob(queues, n) \/ \E i \in DOMAIN ns : ns[i] = n
           /\ Once(queues) => Once(Load(queues, ns))
<1>1. CASE project = none
    <2>1. Load(queues, ns) = queues /\ project \notin Project
        BY <1>1, ConstantsAssumption DEF Load
    <2>2. \A n : HasJob(Load(queues, ns), n) => HasJob(queues, n)
        BY <2>1
    <2>3. Once(queues) => Once(Load(queues, ns))
        BY <2>1
    <2>4. QED
        BY <2>1, <2>2, <2>3
<1>2. CASE project \in Project
    <2> DEFINE new == Load(queues, ns)
               k == Len(queues[project])
    <2>1. /\ new \in [Project -> Seq(Node)]
          /\ \A q \in Project : q # project => new[q] = queues[q]
          /\ new[project] = queues[project] \o ns
        BY <1>2, ConstantsAssumption DEF Load
    <2>2. /\ k \in Nat
          /\ DOMAIN queues[project] = 1 .. k
          /\ DOMAIN new[project] = 1 .. k + Len(ns)
          /\ \A i \in 1 .. k : new[project][i] = queues[project][i]
          /\ \A i \in k + 1 .. k + Len(ns) : new[project][i] = ns[i - k]
          /\ DOMAIN ns = 1 .. Len(ns) /\ Len(ns) \in Nat
        <3>1. queues[project] \in Seq(Node)
            BY <1>2
        <3>2. QED
            BY <2>1, <3>1
    <2> HIDE DEF new, k
    <2>3. \A i \in DOMAIN ns : k + i \in DOMAIN new[project] /\ new[project][k + i] = ns[i]
        BY <2>2
    <2>4. \A q \in Project : \A i \in DOMAIN new[q] :
              \/ i \in DOMAIN queues[q] /\ new[q][i] = queues[q][i]
              \/ q = project /\ i - k \in DOMAIN ns /\ new[q][i] = ns[i - k] /\ i \in Nat
        <3> SUFFICES ASSUME NEW q \in Project, NEW i \in DOMAIN new[q]
                     PROVE  \/ i \in DOMAIN queues[q] /\ new[q][i] = queues[q][i]
                            \/ /\ q = project
                               /\ i - k \in DOMAIN ns
                               /\ new[q][i] = ns[i - k]
                               /\ i \in Nat
            OBVIOUS
        <3>1. CASE q # project
            BY <2>1, <3>1
        <3>2. CASE q = project /\ i <= k
            <4>1. i \in 1 .. k
                BY <2>2, <3>2
            <4>2. QED
                BY <2>2, <3>2, <4>1
        <3>3. CASE q = project /\ ~(i <= k)
            <4>1. i \in k + 1 .. k + Len(ns) /\ i - k \in 1 .. Len(ns)
                BY <2>2, <3>3
            <4>2. QED
                BY <2>2, <3>3, <4>1
        <3>4. QED
            BY <3>1, <3>2, <3>3
    <2>5. \A n : HasJob(new, n) => HasJob(queues, n) \/ \E i \in DOMAIN ns : ns[i] = n
        BY <2>4 DEF HasJob
    <2>6. ASSUME Once(queues) PROVE Once(new)
        <3> SUFFICES ASSUME NEW q \in Project, NEW r \in Project,
                            NEW i \in DOMAIN new[q], NEW j \in DOMAIN new[r],
                            new[q][i] \in Package, new[q][i] = new[r][j]
                     PROVE  q = r /\ i = j
            BY DEF Once
        <3>1. CASE i \in DOMAIN queues[q] /\ new[q][i] = queues[q][i]
            <4>1. HasJob(queues, new[r][j])
                BY <3>1 DEF HasJob
            <4>2. j \in DOMAIN queues[r] /\ new[r][j] = queues[r][j]
                BY <2>4, <4>1
            <4>3. QED
                BY <2>6, <3>1, <4>2 DEF Once
        <3>2. CASE q = project /\ i - k \in DOMAIN ns /\ new[q][i] = ns[i - k] /\ i \in Nat
            <4>1. ~HasJob(queues, new[r][j])
                BY <3>2
            <4>2. r = project /\ j - k \in DOMAIN ns /\ new[r][j] = ns[j - k] /\ j \in Nat
                BY <2>4, <4>1 DEF HasJob
            <4>3. i - k = j - k
                BY <3>2, <4>2
            <4>4. QED
                BY <2>2, <3>2, <4>2, <4>3
        <3>3. QED
            BY <2>4, <3>1, <3>2
    <2>7. /\ \A i \in DOMAIN queues[project] :
                 i \in DOMAIN new[project] /\ new[project][i] = queues[project][i]
          /\ \A i \in DOMAIN ns :
                 \E j \in DOMAIN new[project] : new[project][j] = ns[i]
        BY <2>2, <2>3
    <2> USE DEF new
    <2>8. QED
        BY <1>2, <2>1, <2>5, <2>6, <2>7
<1>3. QED
    BY <1>1, <1>2

\* The queues without the job at work in that of q.
Done(queues, q) == [queues EXCEPT ![q] = Tail(@)]

\* What the end of that job changes.
LEMMA TailProperties ==
    ASSUME NEW queues \in [Project -> Seq(Node)],
           NEW q \in Project,
           queues[q] # <<>>
    PROVE  /\ Done(queues, q) \in [Project -> Seq(Node)]
           /\ Head(queues[q]) \in Node
           /\ HasJob(queues, Head(queues[q]))
           /\ \A n : HasJob(Done(queues, q), n) => HasJob(queues, n)
           /\ \A r \in Project : \A i \in DOMAIN queues[r] :
                  queues[r][i] # Head(queues[q]) =>
                      \E j \in DOMAIN Done(queues, q)[r] :
                          Done(queues, q)[r][j] = queues[r][i]
           /\ Once(queues) =>
                  /\ Once(Done(queues, q))
                  /\ Head(queues[q]) \in Package => ~HasJob(Done(queues, q), Head(queues[q]))
           /\ \A r \in Project : r # q => Done(queues, q)[r] = queues[r]
<1> DEFINE rest == Done(queues, q)
<1> DEFINE k == Len(queues[q])
<1>1. /\ queues[q] \in Seq(Node)
      /\ rest \in [Project -> Seq(Node)]
      /\ rest[q] = Tail(queues[q])
      /\ \A r \in Project : r # q => rest[r] = queues[r]
    BY DEF Done
<1>2. /\ k \in Nat \ {0}
      /\ DOMAIN queues[q] = 1 .. k
      /\ DOMAIN rest[q] = 1 .. k - 1
      /\ \A i \in 1 .. k - 1 : rest[q][i] = queues[q][i + 1]
      /\ Head(queues[q]) = queues[q][1]
      /\ Head(queues[q]) \in Node
    BY <1>1
<1> HIDE DEF k, rest
<1>3. \A r \in Project : \A i \in DOMAIN rest[r] :
          \/ r # q /\ i \in DOMAIN queues[r] /\ rest[r][i] = queues[r][i]
          \/ r = q /\ i + 1 \in DOMAIN queues[r] /\ rest[r][i] = queues[r][i + 1] /\ i \in Nat \ {0}
    <2>1. \A i \in DOMAIN rest[q] :
              /\ i + 1 \in DOMAIN queues[q]
              /\ rest[q][i] = queues[q][i + 1]
              /\ i \in Nat \ {0}
        BY <1>2
    <2>2. QED
        BY <1>1, <2>1
<1>4. \A n : HasJob(rest, n) => HasJob(queues, n)
    BY <1>3 DEF HasJob
<1>5. HasJob(queues, Head(queues[q]))
    BY <1>2 DEF HasJob
<1>6. ASSUME NEW r \in Project, NEW i \in DOMAIN queues[r],
             queues[r][i] # Head(queues[q])
      PROVE  \E j \in DOMAIN rest[r] : rest[r][j] = queues[r][i]
    <2>1. CASE r # q
        BY <1>1, <2>1
    <2>2. CASE r = q
        <3>1. i \in 2 .. k
            BY <1>2, <1>6, <2>2
        <3>2. i - 1 \in 1 .. k - 1 /\ rest[q][i - 1] = queues[q][i]
            BY <1>2, <3>1
        <3>3. QED
            BY <1>2, <2>2, <3>2
    <2>3. QED
        BY <2>1, <2>2
<1>7. ASSUME Once(queues) PROVE Once(rest)
    <2> SUFFICES ASSUME NEW r \in Project, NEW t \in Project,
                        NEW i \in DOMAIN rest[r], NEW j \in DOMAIN rest[t],
                        rest[r][i] \in Package, rest[r][i] = rest[t][j]
                 PROVE  r = t /\ i = j
        BY DEF Once
    <2>1. CASE r = q /\ t = q
        BY <1>3, <1>7, <2>1 DEF Once
    <2>2. CASE r # q \/ t # q
        BY <1>3, <1>7, <2>2 DEF Once
    <2>3. QED
        BY <2>1, <2>2
<1>8. ASSUME Once(queues), Head(queues[q]) \in Package
      PROVE  ~HasJob(rest, Head(queues[q]))
    <2> SUFFICES ASSUME NEW r \in Project, NEW i \in DOMAIN rest[r],
                        rest[r][i] = Head(queues[q])
                 PROVE  FALSE
        BY DEF HasJob
    <2>1. 1 \in DOMAIN queues[q] /\ queues[q][1] = Head(queues[q])
        BY <1>2
    <2>2. CASE r # q
        BY <1>3, <1>8, <2>1, <2>2 DEF Once
    <2>3. CASE r = q
        BY <1>3, <1>8, <2>1, <2>3 DEF Once
    <2>4. QED
        BY <2>2, <2>3
<1> USE DEF rest
<1>9. QED
    BY <1>1, <1>2, <1>4, <1>5, <1>6, <1>7, <1>8

-----------------------------------------------------------------------------
(* The invariant                                                           *)

LEMMA InitInv == Init => IInv
<1> SUFFICES ASSUME Init PROVE IInv
    OBVIOUS
<1> USE ConstantsAssumption
<1>1. TypeOK
    <2>1. queue \in [Project -> Seq(Node)] /\ \A p \in Project : queue[p] = <<>>
        BY DEF Init
    <2>2. proxy \in [Project -> [read : BOOLEAN, error : BOOLEAN, file : BOOLEAN,
                                names : SUBSET Name]]
        BY DEF Init, NotRead
    <2>3. edits \in 0 .. MaxEdits /\ incomplete_node \in Int
        BY DEF Init
    <2>4. life \in [Project -> {"new", "live", "gone"}]
        BY DEF Init
    <2>5. monitored \in [Project -> BOOLEAN] /\ changes \in [Project -> 0 .. 2]
        BY DEF Init
    <2>6. QED
        BY <2>1, <2>2, <2>3, <2>4, <2>5 DEF Init, TypeOK
<1>2. \A n : ~HasJob(queue, n)
    BY DEF Init, HasJob
<1>3. LifeInv
    BY <1>2 DEF Init, LifeInv, Children
<1>4. ReadInv /\ LoadingInv
    BY <1>2 DEF Init, ReadInv, NotRead, LoadingInv
<1>5. OnceInv
    BY DEF Init, OnceInv, Once
<1>6. PendingInv
    BY DEF Init, PendingInv
<1>7. QED
    BY <1>1, <1>3, <1>4, <1>5, <1>6 DEF IInv

LEMMA CloseInv == IInv /\ Close => IInv'
<1> SUFFICES ASSUME IInv, Close PROVE IInv'
    OBVIOUS
<1> USE ConstantsAssumption DEF Close, Unload, backend, nodes, files, history
<1>1. TypeOK'
    BY DEF IInv, TypeOK
<1>2. LifeInv'
    BY DEF IInv, LifeInv, Children, HasJob
<1>3. ReadInv' /\ LoadingInv'
    BY DEF IInv, ReadInv, LoadingInv, HasJob
<1>4. OnceInv'
    BY DEF IInv, OnceInv, Once
<1>5. PendingInv'
    BY DEF PendingInv
<1>6. QED
    BY <1>1, <1>2, <1>3, <1>4, <1>5 DEF IInv

LEMMA OpenInv ==
    ASSUME IInv, NEW p \in Project, Open(p)
    PROVE  IInv'
<1> USE ConstantsAssumption DEF Open, Unload, nodes, files, history
<1>1. queue[p] = <<>>
    BY DEF IInv, TypeOK
<1>2. \A n : HasJob(queue, n)' => HasJob(queue, n) \/ n = p
    BY DEF IInv, TypeOK, HasJob
<1>3. TypeOK'
    <2>1. <<p>> \in Seq(Node)
        BY DEF Node
    <2>2. queue' \in [Project -> Seq(Node)]
        BY <2>1 DEF IInv, TypeOK
    <2>3. life' \in [Project -> {"new", "live", "gone"}]
        BY DEF IInv, TypeOK
    <2>4. \A q \in Project : queue'[q] # <<>> => life'[q] = "live"
        BY DEF IInv, TypeOK
    <2>5. QED
        BY <2>2, <2>3, <2>4 DEF IInv, TypeOK
<1>4. LifeInv'
    <2>1. (project \in Project => life[project] = "live")'
        BY DEF IInv, TypeOK
    <2>2. ASSUME NEW r \in Project, life'[r] = "new"
          PROVE  Children(r)' = {} /\ ~HasJob(queue, r)' /\ changes'[r] = 0 /\ r \notin rooted'
        <3>1. r # p /\ life[r] = "new"
            BY <2>2 DEF IInv, TypeOK
        <3>2. QED
            BY <1>2, <3>1 DEF IInv, LifeInv, Children
    <2>3. QED
        BY <2>1, <2>2 DEF LifeInv
<1>5. ReadInv'
    BY DEF IInv, TypeOK, ReadInv
<1>6. LoadingInv'
    BY <1>2 DEF IInv, LoadingInv, Package
<1>7. OnceInv'
    <2> SUFFICES ASSUME NEW q \in Project, NEW r \in Project,
                        NEW i \in DOMAIN queue'[q], NEW j \in DOMAIN queue'[r],
                        queue'[q][i] \in Package, queue'[q][i] = queue'[r][j]
                 PROVE  q = r /\ i = j
        BY DEF OnceInv, Once
    <2>1. queue'[p] = <<p>> /\ \A t \in Project : t # p => queue'[t] = queue[t]
        BY DEF IInv, TypeOK
    <2>2. q # p /\ r # p
        BY <2>1
    <2>3. QED
        BY <2>1, <2>2 DEF IInv, OnceInv, Once
<1>8. PendingInv'
    BY DEF IInv, LifeInv, PendingInv, Children
<1>9. QED
    BY <1>3, <1>4, <1>5, <1>6, <1>7, <1>8 DEF IInv

LEMMA DisposeInv ==
    ASSUME IInv, NEW p \in Project, Dispose(p)
    PROVE  IInv'
<1> USE ConstantsAssumption DEF Dispose, Disposable, manager, files, history
<1>1. \A n : HasJob(queue, n)' => HasJob(queue, n)
    BY DEF IInv, TypeOK, HasJob
<1>2. TypeOK'
    BY DEF IInv, TypeOK, NotRead
<1>3. LifeInv'
    <2>1. (project \in Project => life[project] = "live")'
        BY DEF IInv, TypeOK, LifeInv
    <2>2. ASSUME NEW r \in Project, life'[r] = "new"
          PROVE  Children(r)' = {} /\ ~HasJob(queue, r)' /\ changes'[r] = 0 /\ r \notin rooted'
        <3>1. r # p /\ life[r] = "new"
            BY <2>2 DEF IInv, TypeOK
        <3>2. changes'[r] = changes[r] /\ Children(r)' \subseteq Children(r)
            BY <3>1 DEF IInv, TypeOK, Children
        <3>3. QED
            BY <1>1, <3>1, <3>2 DEF IInv, LifeInv
    <2>3. QED
        BY <2>1, <2>2 DEF LifeInv
<1>4. ReadInv'
    BY DEF IInv, TypeOK, ReadInv, NotRead
<1>5. LoadingInv'
    BY <1>1 DEF IInv, LoadingInv
<1>6. OnceInv'
    BY DEF IInv, TypeOK, OnceInv, Once
<1>7. PendingInv'
    <2>1. project \in Project =>
              queue'[project] = queue[project] /\ Children(project)' \subseteq Children(project)
        BY DEF IInv, TypeOK, Children
    <2>2. QED
        BY <2>1 DEF IInv, PendingInv
<1>8. QED
    BY <1>2, <1>3, <1>4, <1>5, <1>6, <1>7 DEF IInv

LEMMA EditInv ==
    ASSUME IInv, NEW p \in Project, Edit(p)
    PROVE  IInv'
<1> USE ConstantsAssumption DEF Edit, manager, nodes, history
<1>1. TypeOK'
    BY DEF IInv, TypeOK
<1>2. LifeInv'
    BY DEF IInv, TypeOK, LifeInv, Children, HasJob
<1>3. ReadInv' /\ LoadingInv'
    BY DEF IInv, ReadInv, LoadingInv, HasJob
<1>4. OnceInv'
    BY DEF IInv, OnceInv, Once
<1>5. PendingInv'
    BY DEF IInv, PendingInv, Children
<1>6. QED
    BY <1>1, <1>2, <1>3, <1>4, <1>5 DEF IInv

LEMMA WorkInv ==
    ASSUME IInv, NEW q \in Project, Work(q)
    PROVE  IInv'
<1> USE ConstantsAssumption DEF Work, manager, nodes, files, history
<1>1. TypeOK'
    BY DEF IInv, TypeOK
<1>2. LifeInv'
    BY DEF IInv, LifeInv, Children, HasJob
<1>3. ReadInv' /\ LoadingInv'
    BY DEF IInv, TypeOK, ReadInv, LoadingInv, HasJob
<1>4. OnceInv'
    BY DEF IInv, OnceInv, Once
<1>5. PendingInv'
    BY DEF IInv, PendingInv, Children
<1>6. QED
    BY <1>1, <1>2, <1>3, <1>4, <1>5 DEF IInv

LEMMA FileChangedInv ==
    ASSUME IInv, NEW p \in Project, FileChanged(p)
    PROVE  IInv'
<1> USE ConstantsAssumption DEF FileChanged, manager, nodes, files, history
<1>1. /\ <<p>> \in Seq(Node)
      /\ queue \in [Project -> Seq(Node)]
      /\ project \in Project \cup {none}
      /\ p \notin Package
    BY DEF IInv, TypeOK, Node
<1>2. /\ queue' \in [Project -> Seq(Node)]
      /\ \A q \in Project : q # project => queue'[q] = queue[q]
      /\ project \in Project =>
             \A i \in DOMAIN queue[project] :
                 i \in DOMAIN queue'[project] /\ queue'[project][i] = queue[project][i]
      /\ \A n : HasJob(queue', n) => HasJob(queue, n) \/ n = p
      /\ Once(queue')
    <2> DEFINE ns == <<p>>
    <2>1. Once(queue)
        BY DEF IInv, OnceInv
    <2>2. \A i \in DOMAIN ns : ns[i] = p
        OBVIOUS
    <2>3. \A i, j \in DOMAIN ns : i = j
        OBVIOUS
    <2>4. queue' = Load(queue, ns) /\ ns \in Seq(Node)
        BY <1>1
    <2> HIDE DEF ns
    <2>5. /\ \A i \in DOMAIN ns : ns[i] \in Package => ~HasJob(queue, ns[i])
          /\ \A i, j \in DOMAIN ns : ns[i] \in Package /\ ns[i] = ns[j] => i = j
        BY <1>1, <2>2, <2>3
    <2>6. /\ Load(queue, ns) \in [Project -> Seq(Node)]
          /\ \A q \in Project : q # project => Load(queue, ns)[q] = queue[q]
          /\ project \in Project =>
                 \A i \in DOMAIN queue[project] :
                     /\ i \in DOMAIN Load(queue, ns)[project]
                     /\ Load(queue, ns)[project][i] = queue[project][i]
          /\ \A n : HasJob(Load(queue, ns), n) =>
                 HasJob(queue, n) \/ \E i \in DOMAIN ns : ns[i] = n
          /\ Once(Load(queue, ns))
        BY <1>1, <2>1, <2>4, <2>5, LoadProperties, ZenonT(60)
    <2>7. QED
        BY <2>2, <2>4, <2>6
<1>3. TypeOK'
    <2>1. \A q \in Project : queue'[q] # <<>> => life'[q] = "live"
        BY <1>2 DEF IInv, TypeOK, LifeInv
    <2>2. changes' \in [Project -> 0 .. 2]
        BY DEF IInv, TypeOK
    <2>3. QED
        BY <1>2, <2>1, <2>2 DEF IInv, TypeOK
<1>4. LifeInv'
    <2>1. \A r \in Project : life[r] = "new" => r # p /\ changes'[r] = 0
        BY DEF IInv, TypeOK, LifeInv
    <2>2. QED
        BY <1>2, <2>1 DEF IInv, LifeInv, Children
<1>5. ReadInv'
    <2>1. ASSUME NEW q \in Project, queue[q] # <<>> PROVE queue'[q] # <<>>
        <3>1. CASE q # project
            BY <1>2, <2>1, <3>1
        <3>2. CASE q = project
            <4>1. 1 \in DOMAIN queue[q]
                BY <1>1, <2>1
            <4>2. QED
                BY <1>2, <3>2, <4>1
        <3>3. QED
            BY <3>1, <3>2
    <2>2. QED
        BY <2>1 DEF IInv, ReadInv
<1>6. LoadingInv' /\ OnceInv'
    BY <1>1, <1>2 DEF IInv, LoadingInv, OnceInv
<1>7. PendingInv'
    BY <1>2 DEF IInv, PendingInv, Children
<1>8. QED
    BY <1>3, <1>4, <1>5, <1>6, <1>7 DEF IInv

\* The nodes that a root gets are unknown to the tree and to the queues.
LEMMA NewProperties ==
    ASSUME TypeOK, NEW n \in Node, NEW names \in SUBSET Name,
           \A name \in names : Unused(n, name) # {}
    PROVE  \A c \in New(n, names) :
               /\ c \in Package
               /\ n \in Project
               /\ c.of = n
               /\ c \notin tree
               /\ ~HasJob(queue, c)
<1> SUFFICES ASSUME n \in Project, NEW name \in names
             PROVE  /\ Fresh(n, name) \in Package
                    /\ Fresh(n, name).of = n
                    /\ Fresh(n, name) \notin tree
                    /\ ~HasJob(queue, Fresh(n, name))
    BY DEF New
<1> DEFINE g == CHOOSE h \in Unused(n, name) : TRUE
<1>1. g \in Unused(n, name)
    OBVIOUS
<1>2. Fresh(n, name) = PackageNode(n, name, g)
    BY DEF Fresh
<1> HIDE DEF g
<1>3. /\ g \in 0 .. MaxGen
      /\ PackageNode(n, name, g) \notin tree
      /\ \A q \in Project : ~Contains(queue[q], PackageNode(n, name, g))
    BY <1>1 DEF Unused
<1>4. \A q \in Project : DOMAIN queue[q] = 1 .. Len(queue[q])
    BY DEF TypeOK
<1>5. ~HasJob(queue, PackageNode(n, name, g))
    BY <1>3, <1>4 DEF HasJob, Contains
<1>6. PackageNode(n, name, g) \in Package /\ PackageNode(n, name, g).of = n
    BY <1>3 DEF PackageNode, Package
<1>7. QED
    BY <1>2, <1>3, <1>5, <1>6

LEMMA CompleteInv ==
    ASSUME IInv, NEW q \in Project, Complete(q)
    PROVE  IInv'
<1> USE ConstantsAssumption
<1> DEFINE n == Head(queue[q])
           names == proxy[q].names
           error == proxy[q].error
           new == New(n, names)
           rest == Done(queue, q)
           next == Loads(n, tree', incomplete \cup new, loading \ new)
           pushed == IF error THEN {} ELSE next
\* The action, its definitions expanded
<1>1. /\ proxy[q].read
      /\ \A name \in names : Unused(n, name) # {}
      /\ proxy' = [proxy EXCEPT ![q] = NotRead]
      /\ tree' = (tree \ Gone(n, names)) \cup new
      /\ UNCHANGED <<project, life, configure, edits>>
      /\ \/ /\ n \in Project
            /\ monitored' = [monitored EXCEPT ![n] = proxy[q].file]
            /\ changes' = [changes EXCEPT ![n] = 0]
         \/ n \notin Project /\ UNCHANGED <<monitored, changes>>
      /\ \/ /\ error
            /\ incomplete' = incomplete \cup new
            /\ loading' = loading \ new
            /\ queue' = rest
            /\ failed' = failed \cup {n}
            /\ UNCHANGED <<incomplete_node, loaded, busy, rooted>>
         \/ /\ ~error
            /\ incomplete_node' = Counted(n, incomplete \cup new) + Cardinality(next)
            /\ incomplete' = (incomplete \cup new) \ {n}
            /\ loading' = (loading \ (new \cup {n})) \cup next
            /\ queue' = Load(rest, SetToSeq(next))
            /\ loaded' \in BOOLEAN /\ busy' \in BOOLEAN
            /\ failed' = failed \ ({n} \cap Project)
            /\ rooted' = rooted \cup ({n} \cap Project)
    BY DEF Complete, LoadFailed, LoadComplete, files, IInv, TypeOK, Done
<1>2. /\ queue \in [Project -> Seq(Node)]
      /\ queue[q] # <<>>
      /\ names \in SUBSET Name
      /\ project \in Project \cup {none}
      /\ Once(queue)
    BY <1>1 DEF IInv, TypeOK, ReadInv, OnceInv
<1>3. /\ rest \in [Project -> Seq(Node)]
      /\ n \in Node
      /\ HasJob(queue, n)
      /\ \A m : HasJob(rest, m) => HasJob(queue, m)
      /\ \A r \in Project : \A i \in DOMAIN queue[r] :
             queue[r][i] # n => \E j \in DOMAIN rest[r] : rest[r][j] = queue[r][i]
      /\ Once(rest)
      /\ n \in Package => ~HasJob(rest, n)
      /\ \A r \in Project : r # q => rest[r] = queue[r]
    BY <1>2, TailProperties, ZenonT(60)
<1> HIDE DEF n, names, rest, error
<1>4. \A c \in new :
          c \in Package /\ n \in Project /\ c.of = n /\ c \notin tree /\ ~HasJob(queue, c)
    <2>1. TypeOK /\ n \in Node /\ names \in SUBSET Name
        BY <1>2, <1>3 DEF IInv
    <2>2. QED
        BY <1>1, <2>1, NewProperties
<1> HIDE DEF new
<1>5. tree' \subseteq Package
    BY <1>1, <1>4 DEF IInv, TypeOK
<1>6. \A c \in next :
          /\ c \in tree' /\ c \in Package
          /\ n \in Project /\ c.of = n
          /\ c \in incomplete \cup new
          /\ ~HasJob(rest, c)
    <2> SUFFICES ASSUME NEW c \in next
                 PROVE  /\ c \in tree' /\ c \in Package
                        /\ n \in Project /\ c.of = n
                        /\ c \in incomplete \cup new
                        /\ ~HasJob(rest, c)
        OBVIOUS
    <2>1. /\ c \in tree' /\ c.of = n
          /\ c \in incomplete \cup new
          /\ c \in new \/ c \notin loading
        BY DEF Loads
    <2>2. c \in Package /\ n \in Project
        BY <1>5, <2>1 DEF Package
    <2>3. ~HasJob(queue, c)
        BY <1>4, <2>1, <2>2 DEF IInv, LoadingInv
    <2>4. QED
        BY <1>3, <2>1, <2>2, <2>3
<1>7. IsFiniteSet(next)
    <2>1. next \in SUBSET Package
        BY <1>6
    <2>2. QED
        BY <2>1, PackageFinite, FS_Subset
\* What the queues are afterwards, whether the load has failed or not.
<1>8. /\ queue' \in [Project -> Seq(Node)]
      /\ \A r \in Project : r # project => queue'[r] = rest[r]
      /\ project \in Project =>
             /\ \A i \in DOMAIN rest[project] :
                    i \in DOMAIN queue'[project] /\ queue'[project][i] = rest[project][i]
             /\ \A c \in pushed :
                    \E i \in DOMAIN queue'[project] : queue'[project][i] = c
      /\ \A m : HasJob(queue', m) => HasJob(rest, m) \/ m \in pushed
      /\ Once(queue')
    <2>1. CASE error
        <3>1. queue' = rest /\ pushed = {}
            BY <1>1, <2>1
        <3>2. QED
            BY <1>3, <3>1
    <2>2. CASE ~error
        <3> DEFINE ns == SetToSeq(next)
        <3>1. /\ ns \in Seq(next)
              /\ \A i, j \in DOMAIN ns : ns[i] = ns[j] => i = j
              /\ \A c \in next : \E i \in DOMAIN ns : ns[i] = c
            BY <1>7, SetToSeqProperties
        <3>2. queue' = Load(rest, ns) /\ pushed = next
            BY <1>1, <2>2
        <3> HIDE DEF ns, next, pushed
        <3>3. \A i \in DOMAIN ns : ns[i] \in next
            BY <3>1
        <3>4. next \subseteq Node
            BY <1>6 DEF Node
        <3>5. ns \in Seq(Node)
            BY <3>1, <3>4, SeqMonotonic
        <3>6. \A i \in DOMAIN ns : ns[i] \in Package => ~HasJob(rest, ns[i])
            BY <1>6, <3>3
        <3>7. \A i, j \in DOMAIN ns : ns[i] \in Package /\ ns[i] = ns[j] => i = j
            BY <3>1
        <3>8. /\ Load(rest, ns) \in [Project -> Seq(Node)]
              /\ \A r \in Project : r # project => Load(rest, ns)[r] = rest[r]
              /\ project \in Project =>
                     /\ \A i \in DOMAIN rest[project] :
                            /\ i \in DOMAIN Load(rest, ns)[project]
                            /\ Load(rest, ns)[project][i] = rest[project][i]
                     /\ \A i \in DOMAIN ns :
                            \E j \in DOMAIN Load(rest, ns)[project] :
                                Load(rest, ns)[project][j] = ns[i]
              /\ \A m : HasJob(Load(rest, ns), m) =>
                     HasJob(rest, m) \/ \E i \in DOMAIN ns : ns[i] = m
              /\ Once(Load(rest, ns))
            BY <1>2, <1>3, <3>5, <3>6, <3>7, LoadProperties, ZenonT(60)
        <3>9. QED
            BY <3>1, <3>2, <3>3, <3>8
    <2>3. QED
        BY <2>1, <2>2
<1>9. \A r \in Project : rest[r] # <<>> => queue'[r] # <<>>
    <2> SUFFICES ASSUME NEW r \in Project, rest[r] # <<>> PROVE queue'[r] # <<>>
        OBVIOUS
    <2>1. CASE r # project
        BY <1>8, <2>1
    <2>2. CASE r = project
        <3>1. 1 \in DOMAIN rest[r]
            BY <1>3
        <3>2. QED
            BY <1>8, <2>2, <3>1
    <2>3. QED
        BY <2>1, <2>2
<1>10. pushed \subseteq next
    OBVIOUS
<1>11. TypeOK'
    <2>1. \A r \in Project : queue'[r] # <<>> => life'[r] = "live"
        <3>1. \A r \in Project : rest[r] # <<>> => queue[r] # <<>>
            BY <1>2, <1>3
        <3>2. QED
            BY <1>1, <1>8, <3>1 DEF IInv, TypeOK, LifeInv
    <2>2. incomplete_node' \in Int
        <3>1. Cardinality(next) \in Nat
            BY <1>7, FS_CardinalityType
        <3> HIDE DEF next
        <3>2. QED
            BY <1>1, <3>1 DEF IInv, TypeOK, Counted
    <2>3. loaded' \in BOOLEAN /\ busy' \in BOOLEAN
        BY <1>1 DEF IInv, TypeOK
    <2>4. monitored' \in [Project -> BOOLEAN] /\ changes' \in [Project -> 0 .. 2]
        <3>1. /\ proxy[q].file \in BOOLEAN
              /\ monitored \in [Project -> BOOLEAN]
              /\ changes \in [Project -> 0 .. 2]
            BY DEF IInv, TypeOK
        <3>2. changes' \in [Project -> 0 .. 2]
            BY <1>1, <3>1
        <3>3. monitored' \in [Project -> BOOLEAN]
            BY <1>1, <3>1, Zenon
        <3>4. QED
            BY <3>2, <3>3
    <2>5. proxy' \in [Project -> [read : BOOLEAN, error : BOOLEAN, file : BOOLEAN,
                                 names : SUBSET Name]]
        BY <1>1 DEF IInv, TypeOK, NotRead
    <2>6. incomplete' \subseteq Package /\ loading' \subseteq Package
        <3> HIDE DEF next
        <3>1. QED
            BY <1>1, <1>4, <1>6 DEF IInv, TypeOK
    <2>7. rooted' \subseteq Project /\ failed' \subseteq Node
        BY <1>1, <1>3 DEF IInv, TypeOK
    <2>8. project' \in Project \cup {none} /\ life' \in [Project -> {"new", "live", "gone"}]
        BY <1>1 DEF IInv, TypeOK
    <2>9. configure' \in [Project -> Contents] /\ edits' \in 0 .. MaxEdits
        BY <1>1 DEF IInv, TypeOK
    <2> HIDE DEF next, pushed
    <2>10. QED
        BY <1>5, <1>8, <2>1, <2>2, <2>3, <2>4, <2>5, <2>6, <2>7, <2>8, <2>9 DEF TypeOK
<1> HIDE DEF next
<1>12. LifeInv'
    <2>1. (project \in Project => life[project] = "live")'
        BY <1>1 DEF IInv, LifeInv
    <2>2. ASSUME NEW r \in Project, life'[r] = "new"
          PROVE  Children(r)' = {} /\ ~HasJob(queue, r)' /\ changes'[r] = 0 /\ r \notin rooted'
        <3>1. /\ life[r] = "new" /\ Children(r) = {} /\ ~HasJob(queue, r)
              /\ changes[r] = 0 /\ r \notin rooted
            BY <1>1, <2>2 DEF IInv, LifeInv
        <3>2. r # n
            BY <1>3, <3>1
        <3>3. Children(r)' = {}
            BY <1>1, <1>4, <3>1, <3>2 DEF Children
        <3>4. ~HasJob(queue, r)'
            BY <1>3, <1>6, <1>8, <1>10, <3>1
        <3>5. changes'[r] = 0 /\ r \notin rooted'
            BY <1>1, <3>1, <3>2 DEF IInv, TypeOK
        <3>6. QED
            BY <3>3, <3>4, <3>5
    <2>3. QED
        BY <2>1, <2>2 DEF LifeInv
<1>13. ReadInv'
    <2> SUFFICES ASSUME NEW r \in Project, proxy'[r].read PROVE queue'[r] # <<>>
        BY DEF ReadInv
    <2>1. r # q /\ proxy[r].read
        BY <1>1 DEF IInv, TypeOK, NotRead
    <2>2. rest[r] # <<>>
        BY <1>3, <2>1 DEF IInv, ReadInv
    <2>3. QED
        BY <1>9, <2>2
<1>14. LoadingInv'
    <2>1. loading' \subseteq incomplete'
        <3>1. n \notin next
            BY <1>6
        <3>2. QED
            BY <1>1, <1>6, <3>1 DEF IInv, LoadingInv
    <2>2. ASSUME NEW m \in Package, HasJob(queue', m) PROVE m \in loading'
        <3>1. CASE m \in pushed
            BY <1>1, <3>1
        <3>2. CASE HasJob(rest, m)
            <4>1. m # n /\ HasJob(queue, m)
                BY <1>3, <3>2
            <4>2. m \in loading /\ m \notin new
                BY <1>4, <4>1 DEF IInv, LoadingInv
            <4>3. QED
                BY <1>1, <4>1, <4>2
        <3>3. QED
            BY <1>8, <2>2, <3>1, <3>2
    <2>3. QED
        BY <2>1, <2>2 DEF LoadingInv
<1>15. OnceInv'
    BY <1>8 DEF OnceInv
<1>16. PendingInv'
    <2> SUFFICES ASSUME project \in Project
                 PROVE  /\ \A c \in (Children(project)' \cap loading') \ failed' :
                               \E i \in DOMAIN queue'[project] : queue'[project][i] = c
                        /\ project \in rooted' \ failed' =>
                               Children(project)' \cap incomplete' \subseteq loading'
        BY <1>1 DEF PendingInv, Children
    <2>1. ASSUME NEW c \in (Children(project)' \cap loading') \ failed'
          PROVE  \E i \in DOMAIN queue'[project] : queue'[project][i] = c
        <3>1. c \in tree' /\ c \in Package /\ c \notin Project /\ c.of = project
            BY <1>1, <1>5 DEF Children
        <3>2. CASE c \in pushed
            BY <1>8, <3>2
        <3>3. CASE c \notin pushed
            <4>1. c \in loading /\ c \notin new /\ c # n
                BY <1>1, <3>3
            <4>2. c \in Children(project) /\ c \notin failed
                BY <1>1, <3>1, <4>1 DEF Children
            <4>3. PICK i \in DOMAIN queue[project] : queue[project][i] = c
                BY <4>1, <4>2 DEF IInv, PendingInv
            <4>4. PICK j \in DOMAIN rest[project] : rest[project][j] = c
                BY <1>3, <4>1, <4>3
            <4>5. QED
                BY <1>8, <4>4
        <3>4. QED
            BY <3>2, <3>3
    <2>2. ASSUME project \in rooted' \ failed',
                 NEW c \in Children(project)' \cap incomplete'
          PROVE  c \in loading'
        <3>1. c \in tree' /\ c \in Package /\ c.of = project
            BY <1>1, <1>5 DEF Children
        <3>2. CASE n = project
            <4>1. ~error
                BY <1>1, <2>2, <3>2
            <4>2. c \in incomplete \cup new /\ c # n
                BY <1>1, <2>2, <4>1
            <4>3. c \in next \/ (c \in loading /\ c \notin new)
                BY <3>1, <3>2, <4>2 DEF next, Loads
            <4>4. QED
                BY <1>1, <4>1, <4>2, <4>3
        <3>3. CASE n # project
            <4>1. c \notin new
                BY <1>4, <3>1, <3>3
            <4>2. c \in Children(project) /\ c \in incomplete /\ (error \/ c # n)
                BY <1>1, <2>2, <3>1, <4>1 DEF Children
            <4>3. project \in rooted \ failed
                BY <1>1, <2>2, <3>3
            <4>4. c \in loading
                BY <4>2, <4>3 DEF IInv, PendingInv
            <4>5. QED
                BY <1>1, <4>1, <4>2, <4>4
        <3>4. QED
            BY <3>2, <3>3
    <2>3. QED
        BY <2>1, <2>2
<1>17. QED
    BY <1>11, <1>12, <1>13, <1>14, <1>15, <1>16 DEF IInv

LEMMA StepInv == IInv /\ [Next]_vars => IInv'
<1> SUFFICES ASSUME IInv, [Next]_vars PROVE IInv'
    OBVIOUS
<1>1. CASE Close
    BY <1>1, CloseInv
<1>2. ASSUME NEW p \in Project, Open(p) PROVE IInv'
    BY <1>2, OpenInv
<1>3. ASSUME NEW p \in Project, Dispose(p) PROVE IInv'
    BY <1>3, DisposeInv
<1>4. ASSUME NEW p \in Project, Edit(p) PROVE IInv'
    BY <1>4, EditInv
<1>5. ASSUME NEW p \in Project, FileChanged(p) PROVE IInv'
    BY <1>5, FileChangedInv
<1>6. ASSUME NEW p \in Project, Work(p) PROVE IInv'
    BY <1>6, WorkInv
<1>7. ASSUME NEW p \in Project, Complete(p) PROVE IInv'
    BY <1>7, CompleteInv
<1>8. CASE UNCHANGED vars
    <2> USE <1>8 DEF vars, manager, backend, nodes, files, history
    <2>1. TypeOK' /\ LifeInv' /\ ReadInv'
        BY DEF IInv, TypeOK, LifeInv, ReadInv, Children, HasJob
    <2>2. LoadingInv' /\ OnceInv' /\ PendingInv'
        BY DEF IInv, LoadingInv, OnceInv, Once, PendingInv, Children, HasJob
    <2>3. QED
        BY <2>1, <2>2 DEF IInv
<1>9. QED
    BY <1>1, <1>2, <1>3, <1>4, <1>5, <1>6, <1>7, <1>8 DEF Next

THEOREM Invariant == Spec => []IInv
BY InitInv, StepInv, PTL DEF Spec

\* The types, and that a project that is disposed of has no jobs.
THEOREM TypeCorrect == Spec => []TypeOK
<1>1. IInv => TypeOK
    BY DEF IInv
<1>2. QED
    BY <1>1, Invariant, PTL

\* No package is forgotten, and none is loaded twice.
THEOREM AllPending == Spec => []NothingForgotten
<1>1. IInv => NothingForgotten
    <2> SUFFICES ASSUME IInv, project \in rooted \ failed,
                        NEW n \in (Children(project) \cap incomplete) \ failed
                 PROVE  /\ n \in loading
                        /\ \E i \in DOMAIN queue[project] :
                               /\ queue[project][i] = n
                               /\ \A j \in DOMAIN queue[project] :
                                      queue[project][j] = n => j = i
        BY DEF NothingForgotten
    <2>1. project \in Project /\ n \in Package
        BY DEF IInv, TypeOK, Children
    <2>2. n \in loading
        BY <2>1 DEF IInv, PendingInv
    <2>3. PICK i \in DOMAIN queue[project] : queue[project][i] = n
        BY <2>1, <2>2 DEF IInv, PendingInv
    <2>4. \A j \in DOMAIN queue[project] : queue[project][j] = n => j = i
        BY <2>1, <2>3 DEF IInv, OnceInv, Once
    <2>5. QED
        BY <2>2, <2>3, <2>4
<1>2. QED
    BY <1>1, Invariant, PTL
=============================================================================
