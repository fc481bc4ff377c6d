-------------------------- MODULE AnjutaPmProject --------------------------
(***************************************************************************)
(* The loading of a project: AnjutaPmProject (project-manager/project.c),   *)
(* between the plugin that shows that it is busy and the AmpProject         *)
(* (am-project/am-project.c) that loads its nodes in jobs.                  *)
(*                                                                         *)
(* Loading the root creates the nodes of the packages that configure.ac     *)
(* asks for, INCOMPLETE; each is then loaded by a job of its own.           *)
(* incomplete_node counts them down, and the project is announced when none *)
(* is left.  Meanwhile configure.ac changes and is loaded again, a load     *)
(* fails, or the user opens another project: the job at work keeps the old  *)
(* one, whose signals still reach AnjutaPmProject.                          *)
(*                                                                         *)
(* The jobs of a project are done one at a time, in the order in which they *)
(* are pushed, and no other function of a job runs during a setup or a      *)
(* complete function: that is what PmCommandQueue shows.                    *)
(***************************************************************************)
EXTENDS Integers, FiniteSets, Sequences, SequencesExt

CONSTANTS
    Project,    \* the AmpProjects that are opened; each is its own root node
    Name,       \* packages
    Contents,   \* the sets of packages that a configure.ac may ask for
    none,       \* no project
    MaxGen,     \* at most MaxGen + 1 nodes for one package exist at a time
    MaxEdits,   \* changes of the files configure.ac
    MaxFailures \* nodes whose load has failed

Package == [of : Project, name : Name, gen : 0 .. MaxGen]

ASSUME ConstantsAssumption ==
    /\ none \notin Project
    /\ Project \cap Package = {}
    /\ IsFiniteSet(Project)
    /\ IsFiniteSet(Name)
    /\ Contents \subseteq SUBSET Name
    /\ MaxGen \in Nat
    /\ MaxEdits \in Nat
    /\ MaxFailures \in Nat

Node == Project \cup Package

VARIABLES
    \* AnjutaPmProject, and the flag busy of the plugin
    project,
    incomplete_node,
    loaded,
    busy,
    \* each AmpProject
    life,       \* "new", "live" or "gone"
    queue,      \* the nodes its jobs load, the one at work first
    proxy,      \* what the worker has loaded in that job
    monitored,  \* it has a monitor of its configure.ac,
    changes,    \* which has events to deliver
    \* the nodes
    tree,       \* the packages linked to their root
    incomplete, \* those whose state has ANJUTA_PROJECT_INCOMPLETE
    loading,    \* those whose state has ANJUTA_PROJECT_LOADING
    \* the files
    configure,  \* the packages each configure.ac asks for
    edits,
    \* history
    rooted,     \* the projects whose root has been loaded
    failed      \* the packages that have failed, the roots whose last load has

manager == <<project, incomplete_node, loaded, busy>>
backend == <<life, queue, proxy, monitored, changes>>
nodes == <<tree, incomplete, loading>>
files == <<configure, edits>>
history == <<rooted, failed>>
vars == <<manager, backend, nodes, files, history>>

NotRead == [read |-> FALSE, error |-> FALSE, file |-> FALSE, names |-> {}]

Init ==
    /\ project = none
    /\ incomplete_node = 0
    /\ loaded = FALSE
    /\ busy = FALSE
    /\ life = [p \in Project |-> "new"]
    /\ queue = [p \in Project |-> <<>>]
    /\ proxy = [p \in Project |-> NotRead]
    /\ monitored = [p \in Project |-> FALSE]
    /\ changes = [p \in Project |-> 0]
    /\ tree = {}
    /\ incomplete = {}
    /\ loading = {}
    /\ configure \in [Project -> Contents]
    /\ edits = 0
    /\ rooted = {}
    /\ failed = {}

Children(p) == {n \in tree : n.of = p}

\* The last reference on p has gone: AnjutaPmProject has one, each job on the
\* root has one, and so has the job at work on a child (its parent).
Disposable(p) ==
    /\ life[p] = "live"
    /\ p # project
    /\ \A q \in Project :
           /\ ~Contains(queue[q], p)
           /\ queue[q] # <<>> => Head(queue[q]) \notin Children(p)

Main == \A p \in Project : ~Disposable(p)

\* iproject_load_node, on the AmpProject of AnjutaPmProject if it has one
Load(queues, ns) ==
    IF project = none THEN queues
    ELSE [queues EXCEPT ![project] = @ \o ns]

-----------------------------------------------------------------------------
(* The plugin opens and closes projects                                    *)

\* anjuta_pm_project_unload, with the field as it is afterwards
Unload(p) ==
    /\ project' = p
    /\ loaded' = FALSE
    /\ UNCHANGED incomplete_node

\* project_manager_load_gbf: a new AmpProject, whose root is loaded
Open(p) ==
    /\ Main
    /\ life[p] = "new"
    /\ Unload(p)
    /\ busy' = TRUE
    /\ life' = [life EXCEPT ![p] = "live"]
    /\ queue' = [queue EXCEPT ![p] = <<p>>]
    /\ UNCHANGED <<proxy, monitored, changes, nodes, files, history>>

\* project_manager_unload_gbf
Close ==
    /\ Main
    /\ project # none
    /\ Unload(none)
    /\ UNCHANGED <<busy, backend, nodes, files, history>>

\* Mutant: the jobs are kept.
DisposeOnlyNodes(p) ==
    /\ Disposable(p)
    /\ life' = [life EXCEPT ![p] = "gone"]
    /\ proxy' = [proxy EXCEPT ![p] = NotRead]
    /\ monitored' = [monitored EXCEPT ![p] = FALSE]
    /\ changes' = [changes EXCEPT ![p] = 0]
    /\ tree' = tree \ Children(p)
    /\ UNCHANGED <<manager, queue, incomplete, loading, files, history>>

\* amp_project_dispose: the nodes leave the tree, the jobs are dropped
Dispose(p) ==
    /\ Disposable(p)
    /\ life' = [life EXCEPT ![p] = "gone"]
    /\ queue' = [queue EXCEPT ![p] = <<>>]
    /\ proxy' = [proxy EXCEPT ![p] = NotRead]
    /\ monitored' = [monitored EXCEPT ![p] = FALSE]
    /\ changes' = [changes EXCEPT ![p] = 0]
    /\ tree' = tree \ Children(p)
    /\ UNCHANGED <<manager, incomplete, loading, files, history>>

-----------------------------------------------------------------------------
(* The file configure.ac                                                   *)

\* A program writes that of a project; the monitor sees a change, and the end
\* of the changes.
Edit(p) ==
    /\ edits < MaxEdits
    /\ life[p] = "live"
    /\ edits' = edits + 1
    /\ \E names \in Contents \ {configure[p]} :
           configure' = [configure EXCEPT ![p] = names]
    /\ changes' = [changes EXCEPT ![p] = IF monitored[p] THEN 2 ELSE 0]
    /\ UNCHANGED <<manager, life, queue, proxy, monitored, nodes, history>>

\* on_project_monitor_changed, on_file_changed
FileChanged(p) ==
    /\ Main
    /\ changes[p] > 0
    /\ changes' = [changes EXCEPT ![p] = @ - 1]
    /\ queue' = Load(queue, <<p>>)
    /\ UNCHANGED <<manager, life, proxy, monitored, nodes, files, history>>

-----------------------------------------------------------------------------
(* The jobs                                                                *)

Failing == failed \cup {Head(queue[p]) : p \in {r \in Project : proxy[r].error}}

\* The worker has loaded the node: amp_project_load_root finds no configure.ac,
\* or no Makefile.am for the packages it has found, or loads all;
\* amp_package_node_load fails if it cannot run pkg-config.
Work(q) ==
    /\ queue[q] # <<>>
    /\ ~proxy[q].read
    /\ \E error \in BOOLEAN, file \in BOOLEAN :
           /\ ~file => error /\ Head(queue[q]) \in Project
           /\ error => Cardinality(Failing \cup {Head(queue[q])}) <= MaxFailures
           /\ proxy' = [proxy EXCEPT ![q] =
                  [read |-> TRUE, error |-> error, file |-> file,
                   names |-> IF file /\ Head(queue[q]) \in Project
                             THEN configure[Head(queue[q])] ELSE {}]]
    /\ UNCHANGED <<manager, life, queue, monitored, changes, nodes, files, history>>

\* a node for a package that has none in the tree, and that no job holds
PackageNode(p, name, g) == [of |-> p, name |-> name, gen |-> g]
Unused(p, name) ==
    {g \in 0 .. MaxGen :
        /\ PackageNode(p, name, g) \notin tree
        /\ \A q \in Project : ~Contains(queue[q], PackageNode(p, name, g))}
Fresh(p, name) == PackageNode(p, name, CHOOSE g \in Unused(p, name) : TRUE)

\* amp_project_map_node and amp_project_update_node, for a root n: the nodes of
\* the packages that are still asked for stay as they are, the other ones go
Gone(n, names) ==
    IF n \in Project THEN {c \in Children(n) : c.name \notin names} ELSE {}
New(n, names) ==
    IF n \in Project
    THEN {Fresh(n, name) : name \in names \ {c.name : c \in Children(n)}} ELSE {}

\* Mutant: the node that is loaded is not counted down.
CountedNever(n, inc) == IF n = project THEN 0 ELSE incomplete_node

\* incomplete_node when the node n is loaded; inc are the incomplete nodes
Counted(n, inc) ==
    (IF n = project THEN 0 ELSE incomplete_node) - (IF n \in inc THEN 1 ELSE 0)

\* Mutant: nodes that are being loaded are loaded again.
LoadsAgain(n, t, inc, ld) == {c \in t : c.of = n /\ c \in inc}

\* on_pm_project_load_incomplete on the children of n in the tree t; a package
\* has no incomplete child
Loads(n, t, inc, ld) == {c \in t : c.of = n /\ c \in inc \ ld}

\* pm_command_load_complete of the node n, without an error; t is the tree, and
\* queues are the queues without the job
LoadComplete(n, t, new, queues) ==
    LET inc == incomplete \cup new
        next == Loads(n, t, inc, loading \ new)
        complete == ~loaded /\ incomplete_node' = 0
    IN  /\ incomplete_node' = Counted(n, inc) + Cardinality(next)
        /\ incomplete' = inc \ {n}
        /\ loading' = (loading \ (new \cup {n})) \cup next
        /\ queue' = Load(queues, SetToSeq(next))
        /\ loaded' = (loaded \/ complete)
        /\ busy' = (busy /\ ~complete)

\* The error of a load is shown to the view, which emits it under a number that
\* is not its signal: the plugin is not told.
LoadFailed(new, queues) ==
    /\ incomplete' = incomplete \cup new
    /\ loading' = loading \ new
    /\ queue' = queues
    /\ UNCHANGED <<incomplete_node, loaded, busy>>

\* pm_command_queue_idle with amp_load_complete
Complete(q) ==
    /\ Main
    /\ proxy[q].read
    /\ \A name \in proxy[q].names : Unused(Head(queue[q]), name) # {}
    /\ proxy' = [proxy EXCEPT ![q] = NotRead]
    /\ LET n == Head(queue[q])
           new == New(n, proxy[q].names)
           rest == [queue EXCEPT ![q] = Tail(@)]
       IN  /\ tree' = (tree \ Gone(n, proxy[q].names)) \cup new
           /\ IF n \in Project
              THEN /\ monitored' = [monitored EXCEPT ![n] = proxy[q].file]
                   /\ changes' = [changes EXCEPT ![n] = 0]
              ELSE UNCHANGED <<monitored, changes>>
           /\ IF proxy[q].error
              THEN /\ LoadFailed(new, rest)
                   /\ failed' = failed \cup {n}
                   /\ UNCHANGED rooted
              ELSE /\ LoadComplete(n, tree', new, rest)
                   /\ failed' = failed \ ({n} \cap Project)
                   /\ rooted' = rooted \cup ({n} \cap Project)
    /\ UNCHANGED <<project, life, files>>

-----------------------------------------------------------------------------
Next ==
    \/ Close
    \/ \E p \in Project :
           Open(p) \/ Dispose(p) \/ Edit(p) \/ FileChanged(p) \/ Work(p) \/ Complete(p)

Spec == Init /\ [][Next]_vars

(* The kernel runs the worker, the main loop dispatches the monitor and the  *)
(* idle function of the queue.                                               *)
FairSpec ==
    /\ Spec
    /\ \A p \in Project :
           /\ WF_vars(Dispose(p))
           /\ WF_vars(FileChanged(p))
           /\ WF_vars(Work(p))
           /\ WF_vars(Complete(p))

-----------------------------------------------------------------------------
(* Properties                                                              *)

(* The types of the fields; only a live project has jobs.                    *)
TypeOK ==
    /\ project \in Project \cup {none}
    /\ incomplete_node \in Int
    /\ loaded \in BOOLEAN
    /\ busy \in BOOLEAN
    /\ life \in [Project -> {"new", "live", "gone"}]
    /\ queue \in [Project -> Seq(Node)]
    /\ proxy \in [Project -> [read : BOOLEAN, error : BOOLEAN, file : BOOLEAN,
                             names : SUBSET Name]]
    /\ \A p \in Project : queue[p] # <<>> => life[p] = "live"
    /\ monitored \in [Project -> BOOLEAN]
    /\ changes \in [Project -> 0 .. 2]
    /\ tree \subseteq Package
    /\ incomplete \subseteq Package
    /\ loading \subseteq Package
    /\ configure \in [Project -> Contents]
    /\ edits \in 0 .. MaxEdits
    /\ rooted \subseteq Project
    /\ failed \subseteq Node

(* However often the root is loaded again, and whatever has failed before,   *)
(* no package is forgotten: one that is in the tree of the open project and  *)
(* not loaded waits in its queue, once, unless its own load has failed or    *)
(* the last load of the root has (on_pm_project_load_incomplete).            *)
NothingForgotten ==
    project \in rooted \ failed =>
        \A n \in (Children(project) \cap incomplete) \ failed :
            /\ n \in loading
            /\ \E i \in DOMAIN queue[project] :
                   /\ queue[project][i] = n
                   /\ \A j \in DOMAIN queue[project] : queue[project][j] = n => j = i

(* The plugin stops being busy: unless a load fails, a project that is not   *)
(* closed is announced.                                                      *)
LoadAnnounced ==
    \A p \in Project :
        project = p /\ busy ~> ~busy \/ project # p \/ failed # {}
=============================================================================
