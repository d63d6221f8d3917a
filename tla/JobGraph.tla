------------------------------- MODULE JobGraph -------------------------------
(***************************************************************************)
(* The job graph of c_job.cpp: a tree of groups, each with a circular      *)
(* doubly linked list of its children and another one of its jobs.  It is  *)
(* built in a pool of memory that is only given back as a whole.           *)
(*                                                                         *)
(* The pool (a linear allocator of another package) is an array of units   *)
(* that are handed out in order; an object's address is its first unit.    *)
(* Nothing initialises m_jobs of a new group: what is found there is null  *)
(* or Wild, a pointer to nowhere.  To follow it, or a null pointer, is     *)
(* undefined behaviour, after which the model does nothing more.           *)
(***************************************************************************)
EXTENDS Naturals, Sequences

CONSTANTS
  Jobs,   \* job_t*
  Memory, \* m_alloc_mem_size, in units
  Null,   \* nullptr
  Wild    \* what an uninitialised pointer may hold

\* A group_t is larger than a node_t, so that it may fail to fit where a node
\* does.
GroupSize == 2
NodeSize == 1

ASSUME MemoryAssumption == Memory \in Nat /\ Memory >= GroupSize
ASSUME PointersAssumption == Null # Wild /\ {Null, Wild} \cap Nat = {}

VARIABLES
  status,  \* "none", "created", "built" (after a reset) or "undefined"
  used,    \* how many units the pool has handed out
  groups,  \* group_t by address
  nodes,   \* node_t by address
  current, \* m_current
  path,    \* history: the groups its user has entered and not left
  kids,    \* history: the groups pushed below each group, oldest first
  added    \* history: the nodes added to each group, oldest first

objects == <<used, groups, nodes, current>>
history == <<path, kids, added>>
vars == <<status, objects, history>>

Nothing == <<>>

Init ==
  /\ status = "none"
  /\ used = 0
  /\ groups = Nothing
  /\ nodes = Nothing
  /\ current = Null
  /\ path = <<>>
  /\ kids = Nothing
  /\ added = Nothing

\* f with the value v for the new argument a.
With(f, a, v) == [x \in DOMAIN f \cup {a} |-> IF x = a THEN v ELSE f[x]]

\* Mutant: the last unit of the pool is handed out twice.
FitsPastEnd(size) == used + size <= Memory + 1

\* Whether the pool, which only ever grows until it is reset, has room.
Fits(size) == used + size <= Memory

\* group_t::setup(parent, name) at address a; m_jobs is left as it was.
NewGroup(a, parent, wild) ==
  [parent |-> parent, child |-> Null, jobs |-> wild, next |-> a, prev |-> a]

\* node_t::setup(group, job) at address a.
NewNode(a, group, job) == [job |-> job, group |-> group, next |-> a, prev |-> a]

\* Mutant: the head of the list keeps its old predecessor.
PushBackKeepsPrev(f, head, a) ==
  LET last == f[head].prev
  IN  [f EXCEPT ![a].next = head, ![a].prev = last, ![last].next = a]

\* node_t::push_back and group_t::add_sibling: a becomes the last of the list
\* that starts at head.
PushBack(f, head, a) ==
  LET last == f[head].prev
  IN  [f EXCEPT ![a].next = head, ![a].prev = last, ![last].next = a, ![head].prev = a]

\* group_t::add_child
AddChild(f, parent, a) ==
  IF f[parent].child = Null THEN [f EXCEPT ![parent].child = a]
                            ELSE PushBack(f, f[parent].child, a)
------------------------------------------------------------------------------
\* g_create_graph: a null graph if there is no memory for it; if there is none
\* for its parts they are used all the same.
Create ==
  /\ status = "none"
  /\ status' \in {"none", "created", "undefined"}
  /\ UNCHANGED <<objects, history>>

\* g_destroy(graph)
Destroy ==
  /\ status \in {"created", "built"}
  /\ status' = "none"
  /\ used' = 0
  /\ groups' = Nothing
  /\ nodes' = Nothing
  /\ current' = Null
  /\ path' = <<>>
  /\ kids' = Nothing
  /\ added' = Nothing

\* graph_reset: the pool is empty again, but for the group "main", its own parent.
Reset ==
  /\ status \in {"created", "built"}
  /\ status' = "built"
  /\ used' = GroupSize
  /\ \E wild \in {Null, Wild} : groups' = With(Nothing, 0, NewGroup(0, 0, wild))
  /\ nodes' = Nothing
  /\ current' = 0
  /\ path' = <<0>>
  /\ kids' = With(Nothing, 0, <<>>)
  /\ added' = With(Nothing, 0, <<>>)

\* Mutant: the group does not become the current one.
EnteredStays(a) == current

Entered(a) == a

\* graph_push_group: the new group becomes the last child of the current one,
\* and the current one itself.
PushGroup ==
  /\ status = "built"
  /\ Fits(GroupSize)
  /\ \E wild \in {Null, Wild} :
       groups' = AddChild(With(groups, used, NewGroup(used, current, wild)), current, used)
  /\ used' = used + GroupSize
  /\ current' = Entered(used)
  /\ path' = Append(path, used)
  /\ kids' = With([kids EXCEPT ![current] = Append(@, used)], used, <<>>)
  /\ added' = With(added, used, <<>>)
  /\ UNCHANGED <<status, nodes>>

\* graph_push_group returns without a word when the group does not fit.
PushGroupFails ==
  /\ status = "built"
  /\ ~Fits(GroupSize)
  /\ Len(path) <= Memory \* bound: how deep the user goes without noticing
  /\ path' = Append(path, Null)
  /\ UNCHANGED <<status, objects, kids, added>>

\* graph_pop_group, which stays in "main".
PopGroup ==
  /\ status = "built"
  /\ current' = groups[current].parent
  /\ path' = IF Len(path) = 1 THEN path ELSE SubSeq(path, 1, Len(path) - 1)
  /\ UNCHANGED <<status, used, groups, nodes, kids, added>>

\* graph_add_job: the new node becomes the last job of the current group.
AddJob(job) ==
  /\ status = "built"
  /\ Fits(NodeSize)
  /\ groups[current].jobs # Wild
  /\ LET fresh == With(nodes, used, NewNode(used, current, job))
         first == groups[current].jobs
     IN  IF first = Null
           THEN /\ nodes' = fresh
                /\ groups' = [groups EXCEPT ![current].jobs = used]
           ELSE /\ nodes' = PushBack(fresh, first, used)
                /\ UNCHANGED groups
  /\ used' = used + NodeSize
  /\ added' = [added EXCEPT ![current] = Append(@, used)]
  /\ UNCHANGED <<status, current, path, kids>>

\* graph_add_job follows a null node, or the uninitialised list of the group.
AddJobUndefined ==
  /\ status = "built"
  /\ ~Fits(NodeSize) \/ groups[current].jobs = Wild
  /\ status' = "undefined"
  /\ UNCHANGED <<objects, history>>
------------------------------------------------------------------------------
\* What follows undefined behaviour is not the model's to say.
Stopped == status = "undefined" /\ UNCHANGED vars

Next ==
  \/ Create
  \/ Destroy
  \/ Reset
  \/ PushGroup
  \/ PushGroupFails
  \/ PopGroup
  \/ \E job \in Jobs : AddJob(job)
  \/ AddJobUndefined
  \/ Stopped

Spec == Init /\ [][Next]_vars
------------------------------------------------------------------------------
Groups == DOMAIN groups
Nodes == DOMAIN nodes

(* Type invariant: but for a Wild list no pointer dangles, objects do not   *)
(* overlap, and every one lies in the part of the pool that is handed out.  *)
TypeOK ==
  /\ status \in {"none", "created", "built", "undefined"}
  /\ used \in 0..Memory
  /\ groups \in [Groups -> [parent : Groups, child : Groups \cup {Null},
                            jobs : Nodes \cup {Null, Wild}, next : Groups, prev : Groups]]
  /\ nodes \in [Nodes -> [job : Jobs, group : Groups, next : Nodes, prev : Nodes]]
  /\ current \in Groups \cup {Null}
  /\ \A g \in Groups : {g, g + 1} \subseteq 0..(used - 1) /\ {g, g + 1} \cap Nodes = {}
  /\ \A g \in Groups : g + 1 \notin Groups
  /\ Nodes \subseteq 0..(used - 1)

\* The objects at the addresses of sequence s are one circular doubly linked
\* list, in that order.
IsRing(f, s) ==
  \A i \in 1..Len(s) :
    LET after == s[(i % Len(s)) + 1]
    IN  f[s[i]].next = after /\ f[after].prev = s[i]

(* The two circular lists of every group hold exactly what was put below    *)
(* it and added to it in this build, each once and in the order of the      *)
(* calls, and every object knows its group.                                 *)
ListsHoldWhatWasAdded ==
  \A g \in Groups :
    /\ IF kids[g] = <<>> THEN groups[g].child = Null ELSE groups[g].child = Head(kids[g])
    /\ IF added[g] = <<>> THEN groups[g].jobs \notin Nodes ELSE groups[g].jobs = Head(added[g])
    /\ IsRing(groups, kids[g]) /\ IsRing(nodes, added[g])
    /\ \A i \in 1..Len(kids[g]) : groups[kids[g][i]].parent = g
    /\ \A i \in 1..Len(added[g]) : nodes[added[g][i]].group = g

(* A pop undoes the push it belongs to: while the pool has room for another *)
(* group, so that no push of this build can have failed, the current group *)
(* is the one its user is in.  A push that fails is not seen by the user,  *)
(* whose pop then leaves one group too many; even so, and when the room    *)
(* has run out, the current group is one of those on the user's way.       *)
PopMatchesPush ==
  status = "built" =>
    /\ Fits(GroupSize) => current = path[Len(path)]
    /\ \E i \in 1..Len(path) : path[i] = current
==============================================================================
