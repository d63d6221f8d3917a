--------------------------- MODULE JobGraphProofs ----------------------------
(***************************************************************************)
(* Proofs about JobGraph, for every set of jobs and every size of the pool.*)
(***************************************************************************)
EXTENDS JobGraph, SequenceTheorems, TLAPS

USE MemoryAssumption, PointersAssumption

GroupType == [parent : Groups, child : Groups \cup {Null},
              jobs : Nodes \cup {Null, Wild}, next : Groups, prev : Groups]
NodeType == [job : Jobs, group : Groups, next : Nodes, prev : Nodes]

\* What was put below a group and added to it is still there, each once.
History ==
  /\ kids \in [Groups -> Seq(Groups)]
  /\ added \in [Groups -> Seq(Nodes)]
  /\ \A g \in Groups : IsInjective(kids[g]) /\ IsInjective(added[g])

\* The groups that the user has really entered, m of them, are a way down from
\* "main"; what follows in his path are pushes that failed, for want of room
\* that there will not be again.  The current group is the last one on the way,
\* unless such pushes were undone by pops: then it is one before.
OnTheWay ==
  status = "built" =>
    /\ 0 \in Groups /\ groups[0].parent = 0 /\ path \in Seq(Groups \cup {Null})
    /\ \E m \in 1..Len(path), j \in 1..Len(path) :
         /\ path[1] = 0
         /\ \A i \in 1..m : path[i] \in Groups
         /\ \A i \in 2..m : groups[path[i]].parent = path[i - 1]
         /\ \A i \in (m + 1)..Len(path) : path[i] = Null
         /\ m < Len(path) => ~Fits(GroupSize)
         /\ j <= m /\ current = path[j]
         /\ Fits(GroupSize) => j = m

IInv == TypeOK /\ History /\ ListsHoldWhatWasAdded /\ OnTheWay

(* Where the list goes on after its i-th object.                           *)
LEMMA After ==
  ASSUME NEW n \in Nat, NEW i \in 1..n
  PROVE  (i % n) + 1 = IF i = n THEN 1 ELSE i + 1
<1>1. CASE i = n
  <2>1. n % n = 0
    BY <1>1, SMTT(20)
  <2> QED
    BY <1>1, <2>1
<1>2. CASE i # n
  <2>1. i \in 0..(n - 1) 
    BY <1>2
  <2>2. i % n = i
    BY <2>1, SMTT(20)
  <2> QED
    BY <1>2, <2>2
<1> QED
  BY <1>1, <1>2

(* A circular list, without the arithmetic.                                *)
LEMMA RingMeans ==
  ASSUME NEW D, NEW s \in Seq(D), NEW f
  PROVE  IsRing(f, s) <=>
           /\ \A i \in 1..(Len(s) - 1) : f[s[i]].next = s[i + 1] /\ f[s[i + 1]].prev = s[i]
           /\ Len(s) > 0 => f[s[Len(s)]].next = s[1] /\ f[s[1]].prev = s[Len(s)]
<1>1. PICK n \in Nat : n = Len(s)
  BY LenProperties
<1>2. \A i \in 1..n : (i % n) + 1 = IF i = n THEN 1 ELSE i + 1
  BY After
<1>3. IsRing(f, s) <=>
        \A i \in 1..n : /\ f[s[i]].next = s[IF i = n THEN 1 ELSE i + 1]
                        /\ f[s[IF i = n THEN 1 ELSE i + 1]].prev = s[i]
  BY Zenon, <1>1, <1>2 DEF IsRing
<1>4. \A i \in 1..n : i = n \/ i \in 1..(n - 1)
  OBVIOUS
<1>5. \A i \in 1..(n - 1) : i \in 1..n /\ i # n
  OBVIOUS
<1>6. n > 0 <=> n \in 1..n
  OBVIOUS
<1> QED
  BY Zenon, <1>1, <1>3, <1>4, <1>5, <1>6

(* A list whose objects keep their neighbours stays one.                   *)
LEMMA RingKept ==
  ASSUME NEW D, NEW s \in Seq(D), NEW f, NEW g, IsRing(f, s),
         \A x \in D : (\E i \in 1..Len(s) : s[i] = x) => g[x].next = f[x].next /\ g[x].prev = f[x].prev
  PROVE  IsRing(g, s)
<1>1. PICK n \in Nat : n = Len(s)
  BY LenProperties
<1>2. \A i \in 1..n : s[i] \in D /\ g[s[i]].next = f[s[i]].next /\ g[s[i]].prev = f[s[i]].prev
  BY <1>1, ElementOfSeq
<1>3. /\ \A i \in 1..(n - 1) : f[s[i]].next = s[i + 1] /\ f[s[i + 1]].prev = s[i]
      /\ n > 0 => f[s[n]].next = s[1] /\ f[s[1]].prev = s[n]
  BY <1>1, RingMeans
<1>4. \A i \in 1..(n - 1) : i \in 1..n /\ i + 1 \in 1..n
  OBVIOUS
<1>5. n > 0 => n \in 1..n /\ 1 \in 1..n
  OBVIOUS
<1>6. /\ \A i \in 1..(n - 1) : g[s[i]].next = s[i + 1] /\ g[s[i + 1]].prev = s[i]
      /\ n > 0 => g[s[n]].next = s[1] /\ g[s[1]].prev = s[n]
  BY Zenon, <1>2, <1>3, <1>4, <1>5
<1> QED
  BY Zenon, <1>1, <1>6, RingMeans

(* A new object linked in before the first becomes the last one.           *)
LEMMA RingGrows ==
  ASSUME NEW D, NEW s \in Seq(D), NEW a \in D, NEW f, NEW g,
         s # <<>>, IsInjective(s), IsRing(f, s),
         \A i \in 1..Len(s) : s[i] # a,
         \A x \in D : g[x].next = IF x = s[Len(s)] THEN a ELSE IF x = a THEN s[1] ELSE f[x].next,
         \A x \in D : g[x].prev = IF x = s[1] THEN a ELSE IF x = a THEN s[Len(s)] ELSE f[x].prev
  PROVE  IsRing(g, Append(s, a))
<1>1. PICK n \in Nat : n = Len(s) /\ n > 0
  BY EmptySeq, LenProperties
<1>2. PICK t \in Seq(D) : t = Append(s, a)
  BY AppendProperties
<1>3. Len(t) = n + 1 /\ t[n + 1] = a /\ \A i \in 1..n : t[i] = s[i]
  BY <1>1, <1>2, AppendProperties
<1>4. \A i \in 1..n : s[i] \in D /\ s[i] # a
  BY <1>1, ElementOfSeq
<1>5. \A i, j \in 1..n : s[i] = s[j] => i = j
  BY <1>1, LenProperties DEF IsInjective
<1>6. \A i \in 1..(n - 1) : f[s[i]].next = s[i + 1] /\ f[s[i + 1]].prev = s[i]
  BY <1>1, RingMeans
<1>7. \A x \in D : /\ g[x].next = IF x = s[n] THEN a ELSE IF x = a THEN s[1] ELSE f[x].next
                   /\ g[x].prev = IF x = s[1] THEN a ELSE IF x = a THEN s[n] ELSE f[x].prev
  BY <1>1
<1>8. ASSUME NEW i \in 1..(n - 1)
      PROVE  g[t[i]].next = t[i + 1] /\ g[t[i + 1]].prev = t[i]
  <2>1. i \in 1..n /\ i + 1 \in 1..n /\ i # n /\ i + 1 # 1 /\ n \in 1..n /\ 1 \in 1..n
    BY <1>1
  <2>2. s[i] # s[n] /\ s[i + 1] # s[1]
    BY Zenon, <1>5, <2>1
  <2>3. g[s[i]].next = s[i + 1] /\ g[s[i + 1]].prev = s[i]
    BY Zenon, <1>4, <1>6, <1>7, <2>1, <2>2
  <2> QED
    BY Zenon, <1>3, <2>1, <2>3
<1>9. 1 \in 1..n /\ n \in 1..n
  BY <1>1
<1>10. g[t[n]].next = t[n + 1] /\ g[t[n + 1]].prev = t[n]
  BY Zenon, <1>3, <1>4, <1>7, <1>9
<1>11. g[t[n + 1]].next = t[1] /\ g[t[1]].prev = t[n + 1]
  BY Zenon, <1>3, <1>4, <1>7, <1>9
<1>12. \A i \in 1..n : i \in 1..(n - 1) \/ i = n
  OBVIOUS
<1>13. \A i \in 1..n : g[t[i]].next = t[i + 1] /\ g[t[i + 1]].prev = t[i]
  BY Zenon, <1>8, <1>10, <1>12
<1>14. /\ \A i \in 1..(Len(t) - 1) : g[t[i]].next = t[i + 1] /\ g[t[i + 1]].prev = t[i]
       /\ Len(t) > 0 => g[t[Len(t)]].next = t[1] /\ g[t[1]].prev = t[Len(t)]
  <2>1. Len(t) - 1 = n
    BY <1>3
  <2> QED
    BY Zenon, <1>3, <1>11, <1>13, <2>1
<1>15. IsRing(g, t)
  BY Zenon, <1>14, RingMeans
<1> QED
  BY <1>2, <1>15

(* A list of one, and an empty one.                                        *)
LEMMA RingOfOne ==
  ASSUME NEW D, NEW a \in D, NEW f, f[a].next = a, f[a].prev = a
  PROVE  IsRing(f, <<a>>)
<1>1. PICK s \in Seq(D) : s = <<a>>
  <2>1. <<a>> \in Seq(D)
    OBVIOUS
  <2> QED
    BY Zenon, <2>1
<1>2. Len(s) = 1 /\ s[1] = a /\ 1..(Len(s) - 1) = {}
  BY <1>1
<1>3. IsRing(f, s)
  BY <1>2, RingMeans
<1> QED
  BY <1>1, <1>3

(* A list of nothing is a list.                                            *)
LEMMA RingOfNone == \A f : IsRing(f, <<>>)
  BY DEF IsRing

(* What push_back does to groups ...                                       *)
GroupsOf(D, C, J) == [D -> [parent : D, child : C, jobs : J, next : D, prev : D]]
NodesOf(D, J, G) == [D -> [job : J, group : G, next : D, prev : D]]

SetNext(f, y, v) == [f EXCEPT ![y].next = v]
SetPrev(f, y, v) == [f EXCEPT ![y].prev = v]

SameGroup(g, f, x) ==
  g[x].parent = f[x].parent /\ g[x].child = f[x].child /\ g[x].jobs = f[x].jobs
SameNode(g, f, x) == g[x].job = f[x].job /\ g[x].group = f[x].group

(* What storing a group's next pointer changes.                            *)
LEMMA GroupSetNext ==
  ASSUME NEW D, NEW C, NEW J, NEW f \in GroupsOf(D, C, J), NEW y \in D, NEW v \in D
  PROVE  /\ SetNext(f, y, v) \in GroupsOf(D, C, J)
         /\ \A x \in D : /\ SameGroup(SetNext(f, y, v), f, x)
                         /\ SetNext(f, y, v)[x].prev = f[x].prev
                         /\ SetNext(f, y, v)[x].next = IF x = y THEN v ELSE f[x].next
<1>1. PICK g : g = [f EXCEPT ![y].next = v]
  OBVIOUS
<1>2. ASSUME NEW x \in D
      PROVE  /\ g[x].parent = f[x].parent /\ g[x].child = f[x].child /\ g[x].jobs = f[x].jobs
             /\ g[x].prev = f[x].prev
             /\ g[x].next = IF x = y THEN v ELSE f[x].next
  BY <1>1 DEF GroupsOf
<1>3. g \in GroupsOf(D, C, J)
  BY <1>1 DEF GroupsOf
<1> QED
  BY Zenon, <1>1, <1>2, <1>3 DEF SetNext, SameGroup

(* What storing a group's prev pointer changes.                            *)
LEMMA GroupSetPrev ==
  ASSUME NEW D, NEW C, NEW J, NEW f \in GroupsOf(D, C, J), NEW y \in D, NEW v \in D
  PROVE  /\ SetPrev(f, y, v) \in GroupsOf(D, C, J)
         /\ \A x \in D : /\ SameGroup(SetPrev(f, y, v), f, x)
                         /\ SetPrev(f, y, v)[x].next = f[x].next
                         /\ SetPrev(f, y, v)[x].prev = IF x = y THEN v ELSE f[x].prev
<1>1. PICK g : g = [f EXCEPT ![y].prev = v]
  OBVIOUS
<1>2. ASSUME NEW x \in D
      PROVE  /\ g[x].parent = f[x].parent /\ g[x].child = f[x].child /\ g[x].jobs = f[x].jobs
             /\ g[x].next = f[x].next
             /\ g[x].prev = IF x = y THEN v ELSE f[x].prev
  BY <1>1 DEF GroupsOf
<1>3. g \in GroupsOf(D, C, J)
  BY <1>1 DEF GroupsOf
<1> QED
  BY Zenon, <1>1, <1>2, <1>3 DEF SetPrev, SameGroup

(* add_sibling: which pointers it changes, and to what.                    *)
LEMMA GroupLinked ==
  ASSUME NEW D, NEW C, NEW J, NEW f \in GroupsOf(D, C, J),
         NEW head \in D, NEW a \in D, a # head, f[head].prev # a
  PROVE  LET g == PushBack(f, head, a)
             last == f[head].prev
         IN  /\ g \in GroupsOf(D, C, J)
             /\ \A x \in D :
                  /\ SameGroup(g, f, x)
                  /\ g[x].next = IF x = last THEN a ELSE IF x = a THEN head ELSE f[x].next
                  /\ g[x].prev = IF x = head THEN a ELSE IF x = a THEN last ELSE f[x].prev
<1>1. PICK last \in D : last = f[head].prev
  BY DEF GroupsOf
<1>2. PICK g1 \in GroupsOf(D, C, J) :
        /\ g1 = SetNext(f, a, head)
        /\ \A x \in D : /\ SameGroup(g1, f, x) /\ g1[x].prev = f[x].prev
                        /\ g1[x].next = IF x = a THEN head ELSE f[x].next
  BY GroupSetNext
<1>3. PICK g2 \in GroupsOf(D, C, J) :
        /\ g2 = SetPrev(g1, a, last)
        /\ \A x \in D : /\ SameGroup(g2, g1, x) /\ g2[x].next = g1[x].next
                        /\ g2[x].prev = IF x = a THEN last ELSE g1[x].prev
  BY GroupSetPrev
<1>4. PICK g3 \in GroupsOf(D, C, J) :
        /\ g3 = SetNext(g2, last, a)
        /\ \A x \in D : /\ SameGroup(g3, g2, x) /\ g3[x].prev = g2[x].prev
                        /\ g3[x].next = IF x = last THEN a ELSE g2[x].next
  BY GroupSetNext
<1>5. PICK g4 \in GroupsOf(D, C, J) :
        /\ g4 = SetPrev(g3, head, a)
        /\ \A x \in D : /\ SameGroup(g4, g3, x) /\ g4[x].next = g3[x].next
                        /\ g4[x].prev = IF x = head THEN a ELSE g3[x].prev
  BY GroupSetPrev
<1>6. PushBack(f, head, a) = g4
  BY <1>1, <1>2, <1>3, <1>4, <1>5 DEF PushBack, SetNext, SetPrev
<1>7. ASSUME NEW x \in D
      PROVE  /\ SameGroup(g4, f, x)
             /\ g4[x].next = IF x = last THEN a ELSE IF x = a THEN head ELSE f[x].next
             /\ g4[x].prev = IF x = head THEN a ELSE IF x = a THEN last ELSE f[x].prev
  <2>1. SameGroup(g4, f, x)
    BY <1>2, <1>3, <1>4, <1>5 DEF SameGroup
  <2>2. g4[x].next = IF x = last THEN a ELSE IF x = a THEN head ELSE f[x].next
    BY <1>2, <1>3, <1>4, <1>5
  <2>3. g4[x].prev = IF x = head THEN a ELSE IF x = a THEN last ELSE f[x].prev
    BY <1>2, <1>3, <1>4, <1>5
  <2> QED
    BY <2>1, <2>2, <2>3
<1> QED
  BY Zenon, <1>1, <1>6, <1>7

(* ... and to nodes.                                                       *)
LEMMA NodeSetNext ==
  ASSUME NEW D, NEW J, NEW G, NEW f \in NodesOf(D, J, G), NEW y \in D, NEW v \in D
  PROVE  /\ SetNext(f, y, v) \in NodesOf(D, J, G)
         /\ \A x \in D : /\ SameNode(SetNext(f, y, v), f, x)
                         /\ SetNext(f, y, v)[x].prev = f[x].prev
                         /\ SetNext(f, y, v)[x].next = IF x = y THEN v ELSE f[x].next
<1>1. PICK g : g = [f EXCEPT ![y].next = v]
  OBVIOUS
<1>2. ASSUME NEW x \in D
      PROVE  /\ g[x].job = f[x].job /\ g[x].group = f[x].group
             /\ g[x].prev = f[x].prev
             /\ g[x].next = IF x = y THEN v ELSE f[x].next
  BY <1>1 DEF NodesOf
<1>3. g \in NodesOf(D, J, G)
  BY <1>1 DEF NodesOf
<1> QED
  BY Zenon, <1>1, <1>2, <1>3 DEF SetNext, SameNode

(* What storing a node's prev pointer changes.                             *)
LEMMA NodeSetPrev ==
  ASSUME NEW D, NEW J, NEW G, NEW f \in NodesOf(D, J, G), NEW y \in D, NEW v \in D
  PROVE  /\ SetPrev(f, y, v) \in NodesOf(D, J, G)
         /\ \A x \in D : /\ SameNode(SetPrev(f, y, v), f, x)
                         /\ SetPrev(f, y, v)[x].next = f[x].next
                         /\ SetPrev(f, y, v)[x].prev = IF x = y THEN v ELSE f[x].prev
<1>1. PICK g : g = [f EXCEPT ![y].prev = v]
  OBVIOUS
<1>2. ASSUME NEW x \in D
      PROVE  /\ g[x].job = f[x].job /\ g[x].group = f[x].group
             /\ g[x].next = f[x].next
             /\ g[x].prev = IF x = y THEN v ELSE f[x].prev
  BY <1>1 DEF NodesOf
<1>3. g \in NodesOf(D, J, G)
  BY <1>1 DEF NodesOf
<1> QED
  BY Zenon, <1>1, <1>2, <1>3 DEF SetPrev, SameNode

(* node_t::push_back: which pointers it changes, and to what.              *)
LEMMA NodeLinked ==
  ASSUME NEW D, NEW J, NEW G, NEW f \in NodesOf(D, J, G),
         NEW head \in D, NEW a \in D, a # head, f[head].prev # a
  PROVE  LET g == PushBack(f, head, a)
             last == f[head].prev
         IN  /\ g \in NodesOf(D, J, G)
             /\ \A x \in D :
                  /\ SameNode(g, f, x)
                  /\ g[x].next = IF x = last THEN a ELSE IF x = a THEN head ELSE f[x].next
                  /\ g[x].prev = IF x = head THEN a ELSE IF x = a THEN last ELSE f[x].prev
<1>1. PICK last \in D : last = f[head].prev
  BY DEF NodesOf
<1>2. PICK g1 \in NodesOf(D, J, G) :
        /\ g1 = SetNext(f, a, head)
        /\ \A x \in D : /\ SameNode(g1, f, x) /\ g1[x].prev = f[x].prev
                        /\ g1[x].next = IF x = a THEN head ELSE f[x].next
  BY NodeSetNext
<1>3. PICK g2 \in NodesOf(D, J, G) :
        /\ g2 = SetPrev(g1, a, last)
        /\ \A x \in D : /\ SameNode(g2, g1, x) /\ g2[x].next = g1[x].next
                        /\ g2[x].prev = IF x = a THEN last ELSE g1[x].prev
  BY NodeSetPrev
<1>4. PICK g3 \in NodesOf(D, J, G) :
        /\ g3 = SetNext(g2, last, a)
        /\ \A x \in D : /\ SameNode(g3, g2, x) /\ g3[x].prev = g2[x].prev
                        /\ g3[x].next = IF x = last THEN a ELSE g2[x].next
  BY NodeSetNext
<1>5. PICK g4 \in NodesOf(D, J, G) :
        /\ g4 = SetPrev(g3, head, a)
        /\ \A x \in D : /\ SameNode(g4, g3, x) /\ g4[x].next = g3[x].next
                        /\ g4[x].prev = IF x = head THEN a ELSE g3[x].prev
  BY NodeSetPrev
<1>6. PushBack(f, head, a) = g4
  BY <1>1, <1>2, <1>3, <1>4, <1>5 DEF PushBack, SetNext, SetPrev
<1>7. ASSUME NEW x \in D
      PROVE  /\ SameNode(g4, f, x)
             /\ g4[x].next = IF x = last THEN a ELSE IF x = a THEN head ELSE f[x].next
             /\ g4[x].prev = IF x = head THEN a ELSE IF x = a THEN last ELSE f[x].prev
  <2>1. SameNode(g4, f, x)
    BY <1>2, <1>3, <1>4, <1>5 DEF SameNode
  <2>2. g4[x].next = IF x = last THEN a ELSE IF x = a THEN head ELSE f[x].next
    BY <1>2, <1>3, <1>4, <1>5
  <2>3. g4[x].prev = IF x = head THEN a ELSE IF x = a THEN last ELSE f[x].prev
    BY <1>2, <1>3, <1>4, <1>5
  <2> QED
    BY <2>1, <2>2, <2>3
<1> QED
  BY Zenon, <1>1, <1>6, <1>7

(* A new element is not a repetition.                                      *)
LEMMA AppendsOnce ==
  ASSUME NEW D, NEW s \in Seq(D), IsInjective(s), NEW a, \A i \in 1..Len(s) : s[i] # a
  PROVE  Append(s, a) \in Seq(D \cup {a}) /\ IsInjective(Append(s, a))
<1>1. PICK n \in Nat : n = Len(s)
  BY LenProperties
<1>2. s \in Seq(D \cup {a}) /\ a \in D \cup {a}
  OBVIOUS
<1>3. PICK t \in Seq(D \cup {a}) : t = Append(s, a)
  BY <1>2, AppendProperties
<1>4. DOMAIN t = 1..(n + 1) /\ t[n + 1] = a /\ \A i \in 1..n : t[i] = s[i]
  BY <1>1, <1>2, <1>3, AppendProperties, LenProperties
<1>5. \A i, j \in 1..n : s[i] = s[j] => i = j
  BY <1>1, LenProperties DEF IsInjective
<1>6. \A i \in 1..(n + 1) : i \in 1..n \/ i = n + 1
  OBVIOUS
<1>7. \A i, j \in DOMAIN t : t[i] = t[j] => i = j
  BY Zenon, <1>1, <1>4, <1>5, <1>6
<1> QED
  BY <1>3, <1>7 DEF IsInjective

------------------------------------------------------------------------------
(* What is so while a graph is built.                                      *)

(* The types, as far as the steps need them: addresses are numbers, a new  *)
(* one is unused, and a built graph has a current group.                   *)
LEMMA Built ==
  ASSUME IInv
  PROVE  /\ groups \in GroupsOf(Groups, Groups \cup {Null}, Nodes \cup {Null, Wild})
         /\ nodes \in NodesOf(Nodes, Jobs, Groups)
         /\ Groups \subseteq Nat /\ Nodes \subseteq Nat /\ used \in Nat
         /\ used \notin Groups /\ used \notin Nodes
         /\ Null \notin Groups /\ Null \notin Nodes /\ Wild \notin Nodes
         /\ Null # Wild
         /\ status = "built" => current \in Groups
<1>1. groups \in GroupsOf(Groups, Groups \cup {Null}, Nodes \cup {Null, Wild})
  BY DEF IInv, TypeOK, GroupsOf
<1>2. nodes \in NodesOf(Nodes, Jobs, Groups)
  BY DEF IInv, TypeOK, NodesOf
<1>3. /\ used \in Nat
      /\ \A x \in Groups : x \in 0..(used - 1)
      /\ \A x \in Nodes : x \in 0..(used - 1)
  BY DEF IInv, TypeOK
<1>4. used \notin 0..(used - 1) /\ 0..(used - 1) \subseteq Nat
  BY <1>3
<1>5. Groups \subseteq Nat /\ Nodes \subseteq Nat /\ used \notin Groups /\ used \notin Nodes
  BY Zenon, <1>3, <1>4
<1>6. Null \notin Nat /\ Wild \notin Nat
  BY PointersAssumption
<1>7. ASSUME status = "built" PROVE current \in Groups
  <2>1. PICK m \in 1..Len(path), j \in 1..Len(path) :
          /\ \A i \in 1..m : path[i] \in Groups
          /\ j <= m /\ current = path[j]
    BY Zenon, <1>7 DEF IInv, OnTheWay
  <2>2. path \in Seq(Groups \cup {Null})
    BY Zenon, <1>7 DEF IInv, OnTheWay
  <2>3. j \in 1..m
    BY <2>1, <2>2
  <2> QED
    BY <2>1, <2>3
<1> QED
  BY Zenon, <1>1, <1>2, <1>3, <1>5, <1>6, <1>7, PointersAssumption

(* What the invariant says of the lists of one group.                      *)
LEMMA ListsOf ==
  ASSUME IInv, NEW g \in Groups
  PROVE  /\ kids[g] \in Seq(Groups) /\ IsInjective(kids[g]) /\ IsRing(groups, kids[g])
         /\ added[g] \in Seq(Nodes) /\ IsInjective(added[g]) /\ IsRing(nodes, added[g])
         /\ groups[g].child = IF kids[g] = <<>> THEN Null ELSE kids[g][1]
         /\ IF added[g] = <<>> THEN groups[g].jobs \in {Null, Wild} ELSE groups[g].jobs = added[g][1]
         /\ \A i \in 1..Len(kids[g]) : kids[g][i] \in Groups /\ groups[kids[g][i]].parent = g
         /\ \A i \in 1..Len(added[g]) : added[g][i] \in Nodes /\ nodes[added[g][i]].group = g
<1>1. kids[g] \in Seq(Groups) /\ added[g] \in Seq(Nodes)
  BY DEF IInv, History
<1>2. IsInjective(kids[g]) /\ IsInjective(added[g])
  BY Zenon DEF IInv, History
<1>3. groups[g].jobs \in Nodes \cup {Null, Wild}
  BY Built DEF GroupsOf
<1>4. Head(kids[g]) = kids[g][1] /\ Head(added[g]) = added[g][1]
  OBVIOUS
<1>5. /\ IF kids[g] = <<>> THEN groups[g].child = Null ELSE groups[g].child = Head(kids[g])
      /\ IF added[g] = <<>> THEN groups[g].jobs \notin Nodes ELSE groups[g].jobs = Head(added[g])
      /\ IsRing(groups, kids[g]) /\ IsRing(nodes, added[g])
      /\ \A i \in 1..Len(kids[g]) : groups[kids[g][i]].parent = g
      /\ \A i \in 1..Len(added[g]) : nodes[added[g][i]].group = g
  BY Zenon DEF IInv, ListsHoldWhatWasAdded
<1>6. /\ \A i \in 1..Len(kids[g]) : kids[g][i] \in Groups
      /\ \A i \in 1..Len(added[g]) : added[g][i] \in Nodes
  BY <1>1, ElementOfSeq
<1> QED
  BY <1>1, <1>2, <1>3, <1>4, <1>5, <1>6

(* The first and the last of a list, and its neighbours.                   *)
LEMMA Ends ==
  ASSUME NEW D, NEW s \in Seq(D), s # <<>>, NEW f, IsRing(f, s)
  PROVE  /\ 1 \in 1..Len(s) /\ Len(s) \in 1..Len(s)
         /\ s[1] \in D /\ s[Len(s)] \in D /\ f[s[1]].prev = s[Len(s)]
<1>1. Len(s) \in Nat /\ Len(s) > 0
  BY EmptySeq, LenProperties
<1>2. 1 \in 1..Len(s) /\ Len(s) \in 1..Len(s)
  BY <1>1
<1> QED
  BY <1>1, <1>2, ElementOfSeq, RingMeans

(* What graph_push_group does to the groups of the pool.                   *)
LEMMA PushGroupDoes ==
  ASSUME IInv, PushGroup
  PROVE  /\ groups' \in GroupsOf(Groups \cup {used}, Groups \cup {used, Null}, Nodes \cup {Null, Wild})
         /\ groups'[used].parent = current /\ groups'[used].child = Null
         /\ groups'[used].jobs \in {Null, Wild}
         /\ \A x \in Groups : /\ groups'[x].parent = groups[x].parent
                              /\ groups'[x].jobs = groups[x].jobs
                              /\ x # current => groups'[x].child = groups[x].child
         /\ groups'[current].child = IF kids[current] = <<>> THEN used ELSE kids[current][1]
         /\ \A x \in Groups :
              (\A i \in 1..Len(kids[current]) : kids[current][i] # x) =>
                groups'[x].next = groups[x].next /\ groups'[x].prev = groups[x].prev
         /\ IsRing(groups', Append(kids[current], used))
<1>1. PICK D, C, J : D = Groups /\ C = Groups \cup {Null} /\ J = Nodes \cup {Null, Wild}
  OBVIOUS
<1>2. PICK f, a, c : f = groups /\ a = used /\ c = current
  OBVIOUS
<1>3. /\ f \in GroupsOf(D, C, J) /\ DOMAIN f = D /\ c \in D /\ a \notin D /\ Null \notin D
      /\ a # c /\ a # Null
  BY Built, <1>1, <1>2 DEF PushGroup, GroupsOf
<1>4. PICK s \in Seq(D) : s = kids[c]
  BY <1>1, <1>2, <1>3, ListsOf
<1>5. /\ IsInjective(s) /\ IsRing(f, s)
      /\ f[c].child = IF s = <<>> THEN Null ELSE s[1]
      /\ \A i \in 1..Len(s) : s[i] \in D
  BY <1>1, <1>2, <1>3, <1>4, ListsOf
<1>6. PICK wild \in {Null, Wild} : groups' = AddChild(With(f, a, NewGroup(a, c, wild)), c, a)
  BY <1>2 DEF PushGroup
<1>7. PICK E : E = D \cup {a}
  OBVIOUS
<1>8. PICK new : new = NewGroup(a, c, wild)
  OBVIOUS
<1>9. PICK h : h = With(f, a, new)
  OBVIOUS
<1>10. PICK g : g = groups'
  OBVIOUS
<1>11. g = IF h[c].child = Null THEN [h EXCEPT ![c].child = a] ELSE PushBack(h, h[c].child, a)
  BY Zenon, <1>6, <1>8, <1>9, <1>10 DEF AddChild
<1>12. new = [parent |-> c, child |-> Null, jobs |-> wild, next |-> a, prev |-> a]
  BY <1>8 DEF NewGroup
<1>13. DOMAIN h = E /\ h[a] = new /\ \A x \in D : h[x] = f[x]
  <2>1. h = [x \in E |-> IF x = a THEN new ELSE f[x]]
    BY <1>3, <1>7, <1>9 DEF With
  <2>2. \A x \in D : x # a
    BY <1>3
  <2> QED
    BY <1>7, <2>1, <2>2
<1>14. h \in GroupsOf(E, C \cup {a}, J)
  <2>1. \A x \in D : f[x] \in [parent : E, child : C \cup {a}, jobs : J, next : E, prev : E]
    BY <1>3, <1>7 DEF GroupsOf
  <2>2. new \in [parent : E, child : C \cup {a}, jobs : J, next : E, prev : E]
    BY <1>1, <1>3, <1>7, <1>12
  <2>3. \A x \in E : h[x] \in [parent : E, child : C \cup {a}, jobs : J, next : E, prev : E]
    BY Zenon, <1>7, <1>13, <2>1, <2>2
  <2>4. h = [x \in E |-> h[x]]
    BY <1>3, <1>7, <1>9 DEF With
  <2> QED
    BY <2>3, <2>4 DEF GroupsOf
<1>15. c \in E /\ a \in E /\ D \subseteq E
  BY <1>3, <1>7
<1>16. h[c].child = IF s = <<>> THEN Null ELSE s[1]
  BY <1>3, <1>5, <1>13
<1>17. ASSUME s = <<>>
       PROVE  /\ g \in GroupsOf(E, C \cup {a}, J)
              /\ g[a].parent = c /\ g[a].child = Null /\ g[a].jobs = wild
              /\ \A x \in D : /\ g[x].parent = f[x].parent /\ g[x].jobs = f[x].jobs
                              /\ x # c => g[x].child = f[x].child
              /\ g[c].child = IF s = <<>> THEN a ELSE s[1]
              /\ \A x \in D : (\A i \in 1..Len(s) : s[i] # x) => g[x].next = f[x].next /\ g[x].prev = f[x].prev
              /\ IsRing(g, Append(s, a))
  <2>1. g = [h EXCEPT ![c].child = a]
    BY Zenon, <1>11, <1>16, <1>17
  <2>3. h[c] \in [parent : E, child : C \cup {a}, jobs : J, next : E, prev : E]
    BY <1>14, <1>15 DEF GroupsOf
  <2>2. /\ g \in GroupsOf(E, C \cup {a}, J)
        /\ g[c] = [h[c] EXCEPT !.child = a]
        /\ \A x \in E : x # c => g[x] = h[x]
    <3> DEFINE R == [parent : E, child : C \cup {a}, jobs : J, next : E, prev : E]
    <3>1. h \in [E -> R]
      BY <1>14 DEF GroupsOf
    <3>2. [h[c] EXCEPT !.child = a] \in R
      BY <2>3
    <3> HIDE DEF R
    <3>3. g = [h EXCEPT ![c] = [h[c] EXCEPT !.child = a]]
      BY <2>1
    <3>4. g \in [E -> R]
      BY <3>1, <3>2, <3>3, <1>15
    <3>5. g[c] = [h[c] EXCEPT !.child = a] /\ \A x \in E : x # c => g[x] = h[x]
      BY <3>1, <3>3, <1>15
    <3> QED
      BY <3>4, <3>5 DEF GroupsOf, R
  <2>4. /\ g[c].parent = h[c].parent /\ g[c].jobs = h[c].jobs /\ g[c].child = a
        /\ g[c].next = h[c].next /\ g[c].prev = h[c].prev
    BY <2>2, <2>3
  <2>5. /\ g[a].parent = c /\ g[a].child = Null /\ g[a].jobs = wild
        /\ g[a].next = a /\ g[a].prev = a
    BY <2>2, <1>3, <1>12, <1>13, <1>15
  <2>6. \A x \in D : /\ g[x].parent = f[x].parent /\ g[x].jobs = f[x].jobs
                     /\ x # c => g[x].child = f[x].child
                     /\ g[x].next = f[x].next /\ g[x].prev = f[x].prev
    BY Zenon, <2>2, <2>4, <1>3, <1>13, <1>15
  <2>7. IsRing(g, <<a>>)
    BY <1>15, <2>5, RingOfOne
  <2>8. Append(s, a) = <<a>>
    BY <1>17
  <2> QED
    BY Zenon, <1>17, <2>2, <2>4, <2>5, <2>6, <2>7, <2>8
<1>18. ASSUME s # <<>>
       PROVE  /\ g \in GroupsOf(E, C \cup {a}, J)
              /\ g[a].parent = c /\ g[a].child = Null /\ g[a].jobs = wild
              /\ \A x \in D : /\ g[x].parent = f[x].parent /\ g[x].jobs = f[x].jobs
                              /\ x # c => g[x].child = f[x].child
              /\ g[c].child = IF s = <<>> THEN a ELSE s[1]
              /\ \A x \in D : (\A i \in 1..Len(s) : s[i] # x) => g[x].next = f[x].next /\ g[x].prev = f[x].prev
              /\ IsRing(g, Append(s, a))
  <2>1. PICK head \in D, last \in D : head = s[1] /\ last = s[Len(s)]
    BY <1>5, <1>18, Ends
  <2>2. f[head].prev = last
    BY <1>5, <1>18, <2>1, Ends
  <2>3. g = PushBack(h, head, a)
    BY Zenon, <1>3, <1>11, <1>16, <1>18, <2>1
  <2>4. h[head].prev = last /\ head \in E /\ head # a /\ last # a
    BY <1>3, <1>13, <1>15, <2>1, <2>2
  <2>5. /\ g \in GroupsOf(E, C \cup {a}, J)
        /\ \A x \in E :
             /\ SameGroup(g, h, x)
             /\ g[x].next = IF x = last THEN a ELSE IF x = a THEN head ELSE h[x].next
             /\ g[x].prev = IF x = head THEN a ELSE IF x = a THEN last ELSE h[x].prev
    BY <1>14, <1>15, <2>3, <2>4, GroupLinked
  <2>6. g[a].parent = c /\ g[a].child = Null /\ g[a].jobs = wild
    BY <2>5, <1>12, <1>13, <1>15 DEF SameGroup
  <2>7. \A x \in D : /\ g[x].parent = f[x].parent /\ g[x].jobs = f[x].jobs
                     /\ g[x].child = f[x].child
    BY Zenon, <2>5, <1>13, <1>15 DEF SameGroup
  <2>8. g[c].child = s[1]
    BY Zenon, <2>7, <1>3, <1>5, <1>18
  <2>9. ASSUME NEW x \in D, \A i \in 1..Len(s) : s[i] # x
        PROVE  g[x].next = f[x].next /\ g[x].prev = f[x].prev
    <3>1. x # last /\ x # head
      BY Zenon, <1>18, <1>5, <2>1, <2>9, Ends
    <3> QED
      BY Zenon, <3>1, <2>5, <1>3, <1>13, <1>15
  <2>10. IsRing(g, Append(s, a))
    <3>1. s \in Seq(E)
      BY <1>7
    <3>2. IsRing(h, s)
      <4>1. \A x \in D : h[x].next = f[x].next /\ h[x].prev = f[x].prev
        BY <1>13
      <4> QED
        BY <4>1, <1>5, RingKept
    <3>3. \A i \in 1..Len(s) : s[i] # a
      BY <1>3, <1>5
    <3>4. /\ \A x \in E : g[x].next = IF x = s[Len(s)] THEN a ELSE IF x = a THEN s[1] ELSE h[x].next
          /\ \A x \in E : g[x].prev = IF x = s[1] THEN a ELSE IF x = a THEN s[Len(s)] ELSE h[x].prev
      BY Zenon, <2>1, <2>5
    <3>5. IsInjective(s) /\ a \in E
      BY <1>5, <1>15
    <3> QED
      BY Zenon, <1>18, <3>1, <3>2, <3>3, <3>4, <3>5, RingGrows
  <2> QED
    BY Zenon, <1>18, <2>5, <2>6, <2>7, <2>8, <2>9, <2>10
<1>19. /\ g \in GroupsOf(E, C \cup {a}, J)
       /\ g[a].parent = c /\ g[a].child = Null /\ g[a].jobs = wild
       /\ \A x \in D : /\ g[x].parent = f[x].parent /\ g[x].jobs = f[x].jobs
                       /\ x # c => g[x].child = f[x].child
       /\ g[c].child = IF s = <<>> THEN a ELSE s[1]
       /\ \A x \in D : (\A i \in 1..Len(s) : s[i] # x) => g[x].next = f[x].next /\ g[x].prev = f[x].prev
       /\ IsRing(g, Append(s, a))
  BY Zenon, <1>17, <1>18
<1>20. E = Groups \cup {used} /\ C \cup {a} = Groups \cup {used, Null}
  BY <1>1, <1>2, <1>7
<1>21. groups' \in GroupsOf(Groups \cup {used}, Groups \cup {used, Null}, Nodes \cup {Null, Wild})
  BY Zenon, <1>1, <1>10, <1>19, <1>20
<1>22. groups'[a].parent = c /\ groups'[a].child = Null /\ groups'[a].jobs \in {Null, Wild}
  BY <1>10, <1>19
<1>23. /\ \A x \in D : /\ groups'[x].parent = f[x].parent /\ groups'[x].jobs = f[x].jobs
                       /\ x # c => groups'[x].child = f[x].child
       /\ groups'[c].child = IF s = <<>> THEN a ELSE s[1]
       /\ \A x \in D : (\A i \in 1..Len(s) : s[i] # x) =>
            groups'[x].next = f[x].next /\ groups'[x].prev = f[x].prev
       /\ IsRing(groups', Append(s, a))
  BY Zenon, <1>10, <1>19
<1>24. s = kids[current] /\ D = Groups /\ f = groups /\ a = used /\ c = current
  BY <1>1, <1>2, <1>4
<1> QED
  BY <1>21, <1>22, <1>23, <1>24

(* What graph_add_job does to the nodes and groups of the pool.            *)
LEMMA AddJobDoes ==
  ASSUME IInv, NEW job \in Jobs, AddJob(job)
  PROVE  /\ nodes' \in NodesOf(Nodes \cup {used}, Jobs, Groups)
         /\ nodes'[used].group = current
         /\ \A x \in Nodes : nodes'[x].group = nodes[x].group
         /\ \A x \in Nodes :
              (\A i \in 1..Len(added[current]) : added[current][i] # x) =>
                nodes'[x].next = nodes[x].next /\ nodes'[x].prev = nodes[x].prev
         /\ IsRing(nodes', Append(added[current], used))
         /\ groups' \in GroupsOf(Groups, Groups \cup {Null}, Nodes \cup {Null, Wild} \cup {used})
         /\ groups'[current].jobs = IF added[current] = <<>> THEN used ELSE added[current][1]
         /\ \A x \in Groups :
              /\ groups'[x].parent = groups[x].parent /\ groups'[x].child = groups[x].child
              /\ groups'[x].next = groups[x].next /\ groups'[x].prev = groups[x].prev
              /\ x # current => groups'[x].jobs = groups[x].jobs
<1>1. PICK D, G, C, J : D = Nodes /\ G = Groups /\ C = Groups \cup {Null} /\ J = Nodes \cup {Null, Wild}
  OBVIOUS
<1>2. PICK f, e, a, c : f = nodes /\ e = groups /\ a = used /\ c = current
  OBVIOUS
<1>3. /\ f \in NodesOf(D, Jobs, G) /\ DOMAIN f = D /\ c \in G /\ a \notin D /\ Null \notin D /\ Wild \notin D
      /\ e \in GroupsOf(G, C, J)
  BY Built, <1>1, <1>2 DEF AddJob, NodesOf
<1>4. PICK s \in Seq(D) : s = added[c]
  BY <1>1, <1>2, <1>3, ListsOf
<1>5. /\ IsInjective(s) /\ IsRing(f, s)
      /\ IF s = <<>> THEN e[c].jobs \in {Null, Wild} ELSE e[c].jobs = s[1]
      /\ \A i \in 1..Len(s) : s[i] \in D
  BY <1>1, <1>2, <1>3, <1>4, ListsOf
<1>6. PICK new : new = [job |-> job, group |-> c, next |-> a, prev |-> a]
  OBVIOUS
<1>7. PICK E : E = D \cup {a}
  OBVIOUS
<1>8. PICK h : h = With(f, a, new)
  OBVIOUS
<1>9. PICK g, k : g = nodes' /\ k = groups'
  OBVIOUS
<1>10. e[c].jobs # Wild
  BY <1>2 DEF AddJob
<1>11. e[c].jobs = IF s = <<>> THEN Null ELSE s[1]
  BY <1>5, <1>10
<1>12. s # <<>> => s[1] \in D
  BY <1>5, Ends
<1>13. e[c].jobs = Null <=> s = <<>>
  BY <1>3, <1>11, <1>12
<1>14. IF s = <<>> THEN g = h /\ k = [e EXCEPT ![c].jobs = a]
                   ELSE g = PushBack(h, s[1], a) /\ k = e
  BY <1>2, <1>6, <1>8, <1>9, <1>11, <1>13 DEF AddJob, NewNode
<1>15. DOMAIN h = E /\ h[a] = new /\ \A x \in D : h[x] = f[x]
  <2>1. h = [x \in E |-> IF x = a THEN new ELSE f[x]]
    BY <1>3, <1>7, <1>8 DEF With
  <2>2. \A x \in D : x # a
    BY <1>3
  <2> QED
    BY <1>7, <2>1, <2>2
<1>16. h \in NodesOf(E, Jobs, G)
  <2>1. \A x \in D : f[x] \in [job : Jobs, group : G, next : E, prev : E]
    BY <1>3, <1>7 DEF NodesOf
  <2>2. new \in [job : Jobs, group : G, next : E, prev : E]
    BY <1>3, <1>6, <1>7
  <2>3. \A x \in E : h[x] \in [job : Jobs, group : G, next : E, prev : E]
    BY Zenon, <1>7, <1>15, <2>1, <2>2
  <2>4. h = [x \in E |-> h[x]]
    BY <1>3, <1>7, <1>8 DEF With
  <2> QED
    BY <2>3, <2>4 DEF NodesOf
<1>17. a \in E /\ D \subseteq E
  BY <1>7
<1>18. ASSUME s = <<>>
       PROVE  /\ g \in NodesOf(E, Jobs, G)
              /\ g[a].group = c
              /\ \A x \in D : g[x].group = f[x].group
              /\ \A x \in D : (\A i \in 1..Len(s) : s[i] # x) => g[x].next = f[x].next /\ g[x].prev = f[x].prev
              /\ IsRing(g, Append(s, a))
  <2>1. g[a].group = c /\ g[a].next = a /\ g[a].prev = a
    BY <1>6, <1>14, <1>15, <1>18
  <2>2. \A x \in D : g[x] = f[x]
    BY <1>14, <1>15, <1>18
  <2>3. IsRing(g, <<a>>)
    BY <1>17, <2>1, RingOfOne
  <2>4. Append(s, a) = <<a>>
    BY <1>18
  <2> QED
    BY Zenon, <1>14, <1>16, <1>18, <2>1, <2>2, <2>3, <2>4
<1>19. ASSUME s # <<>>
       PROVE  /\ g \in NodesOf(E, Jobs, G)
              /\ g[a].group = c
              /\ \A x \in D : g[x].group = f[x].group
              /\ \A x \in D : (\A i \in 1..Len(s) : s[i] # x) => g[x].next = f[x].next /\ g[x].prev = f[x].prev
              /\ IsRing(g, Append(s, a))
  <2>1. PICK head \in D, last \in D : head = s[1] /\ last = s[Len(s)]
    BY <1>5, <1>19, Ends
  <2>2. f[head].prev = last
    BY <1>5, <1>19, <2>1, Ends
  <2>3. g = PushBack(h, head, a)
    BY <1>14, <1>19, <2>1
  <2>4. h[head].prev = last /\ head \in E /\ head # a /\ last # a
    BY <1>3, <1>15, <1>17, <2>1, <2>2
  <2>5. /\ g \in NodesOf(E, Jobs, G)
        /\ \A x \in E :
             /\ SameNode(g, h, x)
             /\ g[x].next = IF x = last THEN a ELSE IF x = a THEN head ELSE h[x].next
             /\ g[x].prev = IF x = head THEN a ELSE IF x = a THEN last ELSE h[x].prev
    BY <1>16, <1>17, <2>3, <2>4, NodeLinked
  <2>6. g[a].group = c
    BY <2>5, <1>6, <1>15, <1>17 DEF SameNode
  <2>7. \A x \in D : g[x].group = f[x].group
    BY Zenon, <2>5, <1>15, <1>17 DEF SameNode
  <2>8. ASSUME NEW x \in D, \A i \in 1..Len(s) : s[i] # x
        PROVE  g[x].next = f[x].next /\ g[x].prev = f[x].prev
    <3>1. x # last /\ x # head
      BY Zenon, <1>19, <1>5, <2>1, <2>8, Ends
    <3> QED
      BY Zenon, <3>1, <2>5, <1>3, <1>15, <1>17
  <2>9. IsRing(g, Append(s, a))
    <3>1. s \in Seq(E)
      BY <1>7
    <3>2. IsRing(h, s)
      <4>1. \A x \in D : h[x].next = f[x].next /\ h[x].prev = f[x].prev
        BY <1>15
      <4> QED
        BY <4>1, <1>5, RingKept
    <3>3. \A i \in 1..Len(s) : s[i] # a
      BY <1>3, <1>5
    <3>4. /\ \A x \in E : g[x].next = IF x = s[Len(s)] THEN a ELSE IF x = a THEN s[1] ELSE h[x].next
          /\ \A x \in E : g[x].prev = IF x = s[1] THEN a ELSE IF x = a THEN s[Len(s)] ELSE h[x].prev
      BY Zenon, <2>1, <2>5
    <3>5. IsInjective(s) /\ a \in E
      BY <1>5, <1>17
    <3> QED
      BY Zenon, <1>19, <3>1, <3>2, <3>3, <3>4, <3>5, RingGrows
  <2> QED
    BY Zenon, <2>5, <2>6, <2>7, <2>8, <2>9
<1>20. /\ k \in GroupsOf(G, C, J \cup {a})
       /\ k[c].jobs = IF s = <<>> THEN a ELSE s[1]
       /\ \A x \in G : /\ k[x].parent = e[x].parent /\ k[x].child = e[x].child
                       /\ k[x].next = e[x].next /\ k[x].prev = e[x].prev
                       /\ x # c => k[x].jobs = e[x].jobs
  <2>1. CASE s = <<>>
    <3> DEFINE R == [parent : G, child : C, jobs : J \cup {a}, next : G, prev : G]
    <3>1. e \in [G -> R] /\ e[c] \in R
      BY <1>3 DEF GroupsOf
    <3>2. PICK r : r = [e[c] EXCEPT !.jobs = a]
      OBVIOUS
    <3>3. /\ r \in R /\ r.jobs = a
          /\ r.parent = e[c].parent /\ r.child = e[c].child
          /\ r.next = e[c].next /\ r.prev = e[c].prev
      BY <3>1, <3>2
    <3>4. k = [e EXCEPT ![c] = r]
      BY <1>14, <2>1, <3>2
    <3> HIDE DEF R
    <3>5. k \in [G -> R] /\ k[c] = r /\ \A x \in G : x # c => k[x] = e[x]
      BY <1>3, <3>1, <3>3, <3>4
    <3>6. k \in GroupsOf(G, C, J \cup {a})
      BY <3>5 DEF R, GroupsOf
    <3> QED
      BY Zenon, <2>1, <3>3, <3>5, <3>6
  <2>2. CASE s # <<>>
    <3>1. k = e
      BY <1>14, <2>2
    <3>2. e \in GroupsOf(G, C, J \cup {a})
      BY <1>3 DEF GroupsOf
    <3> QED
      BY Zenon, <1>11, <2>2, <3>1, <3>2
  <2> QED
    BY Zenon, <2>1, <2>2
<1>21. nodes' \in NodesOf(Nodes \cup {used}, Jobs, Groups)
  BY Zenon, <1>1, <1>2, <1>7, <1>9, <1>18, <1>19
<1>22. /\ nodes'[a].group = c
       /\ \A x \in D : nodes'[x].group = f[x].group
       /\ \A x \in D : (\A i \in 1..Len(s) : s[i] # x) =>
            nodes'[x].next = f[x].next /\ nodes'[x].prev = f[x].prev
       /\ IsRing(nodes', Append(s, a))
  BY Zenon, <1>9, <1>18, <1>19
<1>23. groups' \in GroupsOf(Groups, Groups \cup {Null}, Nodes \cup {Null, Wild} \cup {used})
  BY Zenon, <1>1, <1>2, <1>9, <1>20
<1>24. /\ groups'[c].jobs = IF s = <<>> THEN a ELSE s[1]
       /\ \A x \in G : /\ groups'[x].parent = e[x].parent /\ groups'[x].child = e[x].child
                       /\ groups'[x].next = e[x].next /\ groups'[x].prev = e[x].prev
                       /\ x # c => groups'[x].jobs = e[x].jobs
  BY Zenon, <1>9, <1>20
<1>25. /\ s = added[current] /\ D = Nodes /\ G = Groups /\ f = nodes /\ e = groups
       /\ a = used /\ c = current
  BY <1>1, <1>2, <1>4
<1> QED
  BY <1>21, <1>22, <1>23, <1>24, <1>25

------------------------------------------------------------------------------
(* The invariant is inductive.                                             *)

(* A pool without objects.                                                 *)
LEMMA Nothings ==
  /\ DOMAIN Nothing = {} /\ \A R : Nothing \in [{} -> R]
  BY DEF Nothing

(* A pool without objects satisfies the invariant.                         *)
LEMMA EmptyPool ==
  ASSUME groups = Nothing, nodes = Nothing, kids = Nothing, added = Nothing,
         current = Null, used = 0, status = "none"
  PROVE  IInv
<1>1. Groups = {} /\ Nodes = {}
  BY Nothings DEF Groups, Nodes
<1>2. TypeOK
  <2>1. groups \in [Groups -> [parent : Groups, child : Groups \cup {Null},
                               jobs : Nodes \cup {Null, Wild}, next : Groups, prev : Groups]]
    BY Zenon, <1>1, Nothings
  <2>2. nodes \in [Nodes -> [job : Jobs, group : Groups, next : Nodes, prev : Nodes]]
    BY Zenon, <1>1, Nothings
  <2>3. used \in 0..Memory
    BY MemoryAssumption
  <2> QED
    BY <1>1, <2>1, <2>2, <2>3 DEF TypeOK
<1>3. History
  BY Zenon, <1>1, Nothings DEF History
<1>4. ListsHoldWhatWasAdded
  BY <1>1 DEF ListsHoldWhatWasAdded
<1> QED
  BY <1>2, <1>3, <1>4 DEF IInv, OnTheWay

(* At first there is no graph.                                             *)
LEMMA InitIInv == Init => IInv
  BY EmptyPool DEF Init

(* graph_push_group keeps the lists, ...                                   *)
LEMMA PushGroupLists ==
  ASSUME IInv, PushGroup
  PROVE  TypeOK' /\ History' /\ ListsHoldWhatWasAdded'
<1>1. PICK D, E, a, c : D = Groups /\ a = used /\ c = current /\ E = D \cup {a}
  OBVIOUS
<1>2. PICK g : g = groups'
  OBVIOUS
<1>3. /\ g \in GroupsOf(E, E \cup {Null}, Nodes \cup {Null, Wild})
      /\ g[a].parent = c /\ g[a].child = Null /\ g[a].jobs \in {Null, Wild}
      /\ \A x \in D : /\ g[x].parent = groups[x].parent
                      /\ g[x].jobs = groups[x].jobs
                      /\ x # c => g[x].child = groups[x].child
      /\ g[c].child = IF kids[c] = <<>> THEN a ELSE kids[c][1]
      /\ \A x \in D : (\A i \in 1..Len(kids[c]) : kids[c][i] # x) =>
           g[x].next = groups[x].next /\ g[x].prev = groups[x].prev
      /\ IsRing(g, Append(kids[c], a))
  <2>1. E \cup {Null} = Groups \cup {used, Null} /\ E = Groups \cup {used}
    BY <1>1
  <2> QED
    BY <1>1, <1>2, <2>1, PushGroupDoes
<1>4. /\ c \in D /\ a \in E /\ a \notin D /\ a \notin Nodes /\ D \subseteq E
      /\ D \subseteq Nat /\ Nodes \subseteq Nat /\ a \in Nat
  BY <1>1, Built DEF PushGroup
<1>5. Groups' = E /\ Nodes' = Nodes /\ nodes' = nodes
  BY <1>2, <1>3 DEF GroupsOf, Groups, Nodes, PushGroup
<1>6. /\ kids' = With([kids EXCEPT ![c] = Append(@, a)], a, <<>>)
      /\ added' = With(added, a, <<>>)
      /\ used' = a + GroupSize /\ current' = a /\ status' = status
      /\ a + GroupSize <= Memory
  BY <1>1 DEF PushGroup, Fits, Entered
<1>7. /\ DOMAIN kids' = E /\ kids'[a] = <<>> /\ kids'[c] = Append(kids[c], a)
      /\ \A x \in D : x # c => kids'[x] = kids[x]
      /\ kids' = [x \in E |-> kids'[x]]
  <2>1. kids \in [D -> Seq(D)]
    BY <1>1 DEF IInv, History
  <2>2. PICK k : k = [kids EXCEPT ![c] = Append(kids[c], a)]
    OBVIOUS
  <2>3. DOMAIN k = D /\ k[c] = Append(kids[c], a) /\ \A x \in D : x # c => k[x] = kids[x]
    BY <2>1, <2>2, <1>4
  <2>4. kids' = [x \in E |-> IF x = a THEN <<>> ELSE k[x]]
    BY <1>1, <1>6, <2>2, <2>3 DEF With
  <2> QED
    BY <1>4, <2>3, <2>4
<1>8. /\ added' = [x \in E |-> added'[x]] /\ added'[a] = <<>>
      /\ \A x \in D : added'[x] = added[x]
  <2>1. DOMAIN added = D
    BY <1>1 DEF IInv, History
  <2>2. added' = [x \in E |-> IF x = a THEN <<>> ELSE added[x]]
    BY <1>1, <1>6, <2>1 DEF With
  <2> QED
    BY <1>4, <2>2
<1>9. \A x \in D :
        /\ kids[x] \in Seq(D) /\ IsInjective(kids[x]) /\ IsRing(groups, kids[x])
        /\ added[x] \in Seq(Nodes) /\ IsInjective(added[x]) /\ IsRing(nodes, added[x])
        /\ groups[x].child = IF kids[x] = <<>> THEN Null ELSE kids[x][1]
        /\ IF added[x] = <<>> THEN groups[x].jobs \in {Null, Wild} ELSE groups[x].jobs = added[x][1]
        /\ \A i \in 1..Len(kids[x]) : kids[x][i] \in D /\ groups[kids[x][i]].parent = x
        /\ \A i \in 1..Len(added[x]) : added[x][i] \in Nodes /\ nodes[added[x][i]].group = x
  BY <1>1, ListsOf
<1>10. TypeOK'
  <2>1. groups' \in [E -> [parent : E, child : E \cup {Null},
                           jobs : Nodes \cup {Null, Wild}, next : E, prev : E]]
    BY <1>2, <1>3 DEF GroupsOf
  <2>2. nodes' \in [Nodes -> [job : Jobs, group : E, next : Nodes, prev : Nodes]]
    BY <1>1, <1>4, <1>5 DEF IInv, TypeOK
  <2>3. used' \in 0..Memory /\ used' = a + 2
    BY <1>4, <1>6, MemoryAssumption DEF GroupSize
  <2>4. \A x \in E : {x, x + 1} \subseteq 0..(used' - 1) /\ {x, x + 1} \cap Nodes = {}
    <3>1. \A x \in D : {x, x + 1} \subseteq 0..(a - 1) /\ {x, x + 1} \cap Nodes = {}
      BY <1>1 DEF IInv, TypeOK
    <3>2. 0..(a - 1) \subseteq 0..(used' - 1)
      BY <1>4, <2>3
    <3>3. {a, a + 1} \subseteq 0..(used' - 1)
      BY <1>4, <2>3
    <3>4. a + 1 \notin Nodes
      <4>1. Nodes \subseteq 0..(a - 1)
        BY <1>1 DEF IInv, TypeOK
      <4> QED
        BY <1>4, <4>1
    <3>5. {a, a + 1} \cap Nodes = {}
      BY <1>4, <3>4
    <3>6. \A x \in D : {x, x + 1} \subseteq 0..(used' - 1)
      BY Zenon, <3>1, <3>2
    <3> QED
      BY Zenon, <1>1, <3>1, <3>3, <3>5, <3>6
  <2>5. \A x \in E : x + 1 \notin E
    <3>1. \A x \in D : x + 1 \in 0..(a - 1) /\ x + 1 \notin D /\ x \in 0..(a - 1)
      BY <1>1 DEF IInv, TypeOK
    <3>2. a \notin 0..(a - 1) /\ a + 1 \notin 0..(a - 1) /\ a + 1 # a
      BY <1>4
    <3> QED
      BY Zenon, <1>1, <3>1, <3>2
  <2>6. Nodes \subseteq 0..(used' - 1)
    <3>1. Nodes \subseteq 0..(a - 1)
      BY <1>1 DEF IInv, TypeOK
    <3> QED
      BY <3>1, <1>4, <2>3
  <2>7. status' \in {"none", "created", "built", "undefined"}
    BY <1>6 DEF IInv, TypeOK
  <2>8. current' \in E \cup {Null}
    BY <1>4, <1>6
  <2> QED
    BY Zenon, <1>5, <2>1, <2>2, <2>3, <2>4, <2>5, <2>6, <2>7, <2>8 DEF TypeOK
<1>11. Append(kids[c], a) \in Seq(E) /\ IsInjective(Append(kids[c], a))
  <2>1. PICK s \in Seq(D) : s = kids[c]
    BY <1>4, <1>9
  <2>2. \A i \in 1..Len(s) : s[i] # a
    BY <1>4, <1>9, <2>1
  <2> QED
    BY <1>1, <1>4, <1>9, <2>1, <2>2, AppendsOnce
<1>12. History'
  <2>1. \A x \in E : kids'[x] \in Seq(E) /\ IsInjective(kids'[x])
    <3>1. \A x \in D : kids[x] \in Seq(E)
      <4>1. \A q \in Seq(D) : q \in Seq(E)
        BY <1>1
      <4> QED
        BY Zenon, <1>9, <4>1
    <3>2. <<>> \in Seq(E) /\ IsInjective(<<>>)
      BY DEF IsInjective
    <3> QED
      BY Zenon, <1>1, <1>7, <1>9, <1>11, <3>1, <3>2
  <2>2. \A x \in E : added'[x] \in Seq(Nodes) /\ IsInjective(added'[x])
    <3>1. <<>> \in Seq(Nodes) /\ IsInjective(<<>>)
      BY DEF IsInjective
    <3> QED
      BY Zenon, <1>1, <1>8, <1>9, <3>1
  <2>3. kids' \in [E -> Seq(E)] /\ added' \in [E -> Seq(Nodes)]
    BY <1>7, <1>8, <2>1, <2>2
  <2> QED
    BY Zenon, <1>5, <2>1, <2>2, <2>3 DEF History
<1>13. ListsHoldWhatWasAdded'
  <2> DEFINE Holds(k, n, x) ==
               /\ IF k[x] = <<>> THEN g[x].child = Null ELSE g[x].child = Head(k[x])
               /\ IF n[x] = <<>> THEN g[x].jobs \notin Nodes ELSE g[x].jobs = Head(n[x])
               /\ IsRing(g, k[x]) /\ IsRing(nodes, n[x])
               /\ \A i \in 1..Len(k[x]) : g[k[x][i]].parent = x
               /\ \A i \in 1..Len(n[x]) : nodes[n[x][i]].group = x
  <2>0. Null \notin Nodes /\ Wild \notin Nodes
    BY Built
  <2>1. ASSUME NEW x \in D, x # c
        PROVE  Holds(kids', added', x)
    <3>1. PICK s, n : s = kids[x] /\ n = added[x]
      OBVIOUS
    <3>2. /\ s \in Seq(D) /\ IsInjective(s) /\ IsRing(groups, s)
          /\ n \in Seq(Nodes) /\ IsRing(nodes, n)
          /\ groups[x].child = IF s = <<>> THEN Null ELSE s[1]
          /\ IF n = <<>> THEN groups[x].jobs \in {Null, Wild} ELSE groups[x].jobs = n[1]
          /\ \A i \in 1..Len(s) : s[i] \in D /\ groups[s[i]].parent = x
          /\ \A i \in 1..Len(n) : nodes[n[i]].group = x
      BY Zenon, <1>4, <1>9, <3>1
    <3>3. s = kids'[x] /\ n = added'[x]
      BY Zenon, <1>7, <1>8, <2>1, <3>1
    <3>4. g[x].child = groups[x].child /\ g[x].jobs = groups[x].jobs
      BY Zenon, <1>3, <2>1
    <3>5. IF s = <<>> THEN g[x].child = Null ELSE g[x].child = Head(s)
      <4>1. s # <<>> => Head(s) = s[1]
        OBVIOUS
      <4> QED
        BY Zenon, <3>2, <3>4, <4>1
    <3>6. IF n = <<>> THEN g[x].jobs \notin Nodes ELSE g[x].jobs = Head(n)
      <4>1. n # <<>> => Head(n) = n[1]
        OBVIOUS
      <4> QED
        BY <2>0, <3>2, <3>4, <4>1
    <3>7. IsRing(g, s)
      <4>1. \A i \in 1..Len(kids[c]) : groups[kids[c][i]].parent = c
        BY Zenon, <1>4, <1>9
      <4>2. ASSUME NEW y \in D, \E j \in 1..Len(s) : s[j] = y
            PROVE  g[y].next = groups[y].next /\ g[y].prev = groups[y].prev
        <5>1. groups[y].parent = x
          BY Zenon, <3>2, <4>2
        <5>2. \A i \in 1..Len(kids[c]) : kids[c][i] # y
          BY Zenon, <2>1, <4>1, <5>1
        <5> QED
          BY Zenon, <1>3, <5>2
      <4>3. \A y \in D : (\E j \in 1..Len(s) : s[j] = y) =>
                           g[y].next = groups[y].next /\ g[y].prev = groups[y].prev
        BY Zenon, <4>2
      <4>4. s \in Seq(D) /\ IsRing(groups, s)
        BY Zenon, <3>2
      <4> QED
        BY <4>3, <4>4, RingKept
    <3>8. \A i \in 1..Len(s) : g[s[i]].parent = x
      BY Zenon, <1>3, <3>2
    <3> QED
      BY Zenon, <3>2, <3>3, <3>5, <3>6, <3>7, <3>8
  <2>2. Holds(kids', added', c)
    <3>1. PICK s, n : s = kids[c] /\ n = added[c]
      OBVIOUS
    <3>2. /\ s \in Seq(D) /\ IsInjective(s) /\ IsRing(groups, s)
          /\ n \in Seq(Nodes) /\ IsRing(nodes, n)
          /\ groups[c].child = IF s = <<>> THEN Null ELSE s[1]
          /\ IF n = <<>> THEN groups[c].jobs \in {Null, Wild} ELSE groups[c].jobs = n[1]
          /\ \A i \in 1..Len(s) : s[i] \in D /\ groups[s[i]].parent = c
          /\ \A i \in 1..Len(n) : nodes[n[i]].group = c
      BY Zenon, <1>4, <1>9, <3>1
    <3>3. PICK r \in Seq(E) : r = Append(s, a)
      BY Zenon, <1>11, <3>1
    <3>4. r = kids'[c] /\ n = added'[c]
      BY Zenon, <1>4, <1>7, <1>8, <3>1, <3>3
    <3>5. g[c].child = (IF s = <<>> THEN a ELSE s[1]) /\ g[c].jobs = groups[c].jobs
      BY Zenon, <1>3, <1>4, <3>1
    <3>6. /\ Len(r) = Len(s) + 1 /\ Len(s) \in Nat
          /\ r[Len(s) + 1] = a /\ \A i \in 1..Len(s) : r[i] = s[i]
      BY <3>2, <3>3, AppendProperties, LenProperties
    <3>7. r # <<>> /\ Head(r) = r[1]
      BY <3>6, EmptySeq
    <3>8. g[c].child = Head(r)
      <4>1. CASE s = <<>>
        <5>1. Len(s) + 1 = 1
          BY <4>1
        <5> QED
          BY Zenon, <3>5, <3>6, <3>7, <4>1, <5>1
      <4>2. CASE s # <<>>
        <5>1. 1 \in 1..Len(s)
          BY <3>2, <4>2, EmptySeq, LenProperties
        <5> QED
          BY Zenon, <3>5, <3>6, <3>7, <4>2, <5>1
      <4> QED
        BY <4>1, <4>2
    <3>9. IF n = <<>> THEN g[c].jobs \notin Nodes ELSE g[c].jobs = Head(n)
      <4>1. n # <<>> => Head(n) = n[1]
        OBVIOUS
      <4> QED
        BY <2>0, <3>2, <3>5, <4>1
    <3>10. IsRing(g, r)
      BY Zenon, <1>3, <3>1, <3>3
    <3>11. \A i \in 1..Len(r) : g[r[i]].parent = c
      <4>1. \A i \in 1..Len(r) : i \in 1..Len(s) \/ i = Len(s) + 1
        BY <3>6
      <4>2. ASSUME NEW i \in 1..Len(r), i \in 1..Len(s) PROVE g[r[i]].parent = c
        <5>1. r[i] = s[i] /\ s[i] \in D /\ groups[s[i]].parent = c
          BY Zenon, <3>2, <3>6, <4>2
        <5>2. g[s[i]].parent = groups[s[i]].parent
          BY Zenon, <1>3, <5>1
        <5> QED
          BY <5>1, <5>2
      <4>3. ASSUME NEW i \in 1..Len(r), i = Len(s) + 1 PROVE g[r[i]].parent = c
        <5>1. r[i] = a
          BY Zenon, <3>6, <4>3
        <5> QED
          BY Zenon, <1>3, <5>1
      <4> QED
        BY Zenon, <4>1, <4>2, <4>3
    <3> QED
      BY Zenon, <3>2, <3>4, <3>7, <3>8, <3>9, <3>10, <3>11
  <2>3. Holds(kids', added', a)
    <3>1. 1..Len(<<>>) = {}
      OBVIOUS
    <3>2. g[a].jobs \notin Nodes
      BY <1>3, <2>0
    <3>3. kids'[a] = <<>> /\ added'[a] = <<>> /\ g[a].child = Null
      BY Zenon, <1>3, <1>7, <1>8
    <3>4. IsRing(g, kids'[a]) /\ IsRing(nodes, added'[a])
      BY Zenon, <3>3, RingOfNone
    <3>5. 1..Len(kids'[a]) = {} /\ 1..Len(added'[a]) = {}
      BY <3>1, <3>3
    <3>6. \A i \in 1..Len(kids'[a]) : g[kids'[a][i]].parent = a
      BY Zenon, <3>5
    <3>7. \A i \in 1..Len(added'[a]) : nodes[added'[a][i]].group = a
      BY Zenon, <3>5
    <3>8. /\ IF kids'[a] = <<>> THEN g[a].child = Null ELSE g[a].child = Head(kids'[a])
          /\ IF added'[a] = <<>> THEN g[a].jobs \notin Nodes ELSE g[a].jobs = Head(added'[a])
      BY <3>2, <3>3
    <3> QED
      BY Zenon, <3>4, <3>6, <3>7, <3>8
  <2> HIDE DEF Holds
  <2>4. \A x \in E : Holds(kids', added', x)
    BY <1>1, <2>1, <2>2, <2>3
  <2> QED
    BY Zenon, <1>2, <1>5, <2>4 DEF ListsHoldWhatWasAdded, Holds
<1> QED
  BY <1>10, <1>12, <1>13

(* ... and so does graph_add_job.                                          *)
LEMMA AddJobLists ==
  ASSUME IInv, NEW job \in Jobs, AddJob(job)
  PROVE  TypeOK' /\ History' /\ ListsHoldWhatWasAdded'
<1>1. PICK D, E, G, a, c : D = Nodes /\ G = Groups /\ a = used /\ c = current /\ E = D \cup {a}
  OBVIOUS
<1>2. PICK g, k : g = nodes' /\ k = groups'
  OBVIOUS
<1>3. /\ g \in NodesOf(E, Jobs, G)
      /\ g[a].group = c
      /\ \A x \in D : g[x].group = nodes[x].group
      /\ \A x \in D : (\A i \in 1..Len(added[c]) : added[c][i] # x) =>
           g[x].next = nodes[x].next /\ g[x].prev = nodes[x].prev
      /\ IsRing(g, Append(added[c], a))
      /\ k \in GroupsOf(G, G \cup {Null}, E \cup {Null, Wild})
      /\ k[c].jobs = IF added[c] = <<>> THEN a ELSE added[c][1]
      /\ \A x \in G :
           /\ k[x].parent = groups[x].parent /\ k[x].child = groups[x].child
           /\ k[x].next = groups[x].next /\ k[x].prev = groups[x].prev
           /\ x # c => k[x].jobs = groups[x].jobs
  <2>1. Nodes \cup {Null, Wild} \cup {used} = E \cup {Null, Wild}
    BY <1>1
  <2> QED
    BY <1>1, <1>2, <2>1, AddJobDoes
<1>4. /\ c \in G /\ a \in E /\ a \notin D /\ D \subseteq E
      /\ G \subseteq Nat /\ E \subseteq Nat /\ a \in Nat
      /\ Null \notin E /\ Wild \notin E
  BY <1>1, Built, PointersAssumption DEF AddJob
<1>5. Groups' = G /\ Nodes' = E
  BY <1>2, <1>3 DEF GroupsOf, NodesOf, Groups, Nodes
<1>6. /\ added' = [added EXCEPT ![c] = Append(@, a)] /\ kids' = kids
      /\ used' = a + 1 /\ current' = c /\ status' = status
      /\ a + 1 <= Memory
  BY <1>1 DEF AddJob, Fits, NodeSize
<1>7. /\ added' = [x \in G |-> added'[x]] /\ added'[c] = Append(added[c], a)
      /\ \A x \in G : x # c => added'[x] = added[x]
  <2>1. added \in [G -> Seq(D)]
    BY <1>1 DEF IInv, History
  <2> QED
    BY <2>1, <1>4, <1>6
<1>9. \A x \in G :
        /\ kids[x] \in Seq(G) /\ IsInjective(kids[x]) /\ IsRing(groups, kids[x])
        /\ added[x] \in Seq(D) /\ IsInjective(added[x]) /\ IsRing(nodes, added[x])
        /\ groups[x].child = IF kids[x] = <<>> THEN Null ELSE kids[x][1]
        /\ IF added[x] = <<>> THEN groups[x].jobs \in {Null, Wild} ELSE groups[x].jobs = added[x][1]
        /\ \A i \in 1..Len(kids[x]) : kids[x][i] \in G /\ groups[kids[x][i]].parent = x
        /\ \A i \in 1..Len(added[x]) : added[x][i] \in D /\ nodes[added[x][i]].group = x
  BY <1>1, ListsOf
<1>10. TypeOK'
  <2>1. groups' \in [G -> [parent : G, child : G \cup {Null},
                           jobs : E \cup {Null, Wild}, next : G, prev : G]]
    BY <1>2, <1>3 DEF GroupsOf
  <2>2. nodes' \in [E -> [job : Jobs, group : G, next : E, prev : E]]
    BY <1>2, <1>3 DEF NodesOf
  <2>3. used' \in 0..Memory
    BY <1>4, <1>6, MemoryAssumption
  <2>4. \A x \in G : {x, x + 1} \subseteq 0..(a - 1) /\ {x, x + 1} \cap D = {} /\ x + 1 \notin G
    BY <1>1 DEF IInv, TypeOK
  <2>5. a \notin 0..(a - 1) /\ 0..(a - 1) \subseteq 0..((a + 1) - 1) /\ a \in 0..((a + 1) - 1)
    BY <1>4
  <2>6. \A x \in G : {x, x + 1} \subseteq 0..(used' - 1) /\ {x, x + 1} \cap E = {}
    <3>1. ASSUME NEW x \in G PROVE {x, x + 1} \subseteq 0..(used' - 1)
      BY Zenon, <1>6, <2>4, <2>5
    <3>2. ASSUME NEW x \in G PROVE {x, x + 1} \cap E = {}
      <4>1. x # a /\ x + 1 # a
        BY Zenon, <2>4, <2>5
      <4> QED
        BY Zenon, <1>1, <2>4, <4>1
    <3> QED
      BY <3>1, <3>2
  <2>7. E \subseteq 0..(used' - 1)
    <3>1. D \subseteq 0..(a - 1)
      BY <1>1 DEF IInv, TypeOK
    <3> QED
      BY Zenon, <1>1, <1>6, <2>5, <3>1
  <2>8. status' \in {"none", "created", "built", "undefined"}
    BY <1>6 DEF IInv, TypeOK
  <2>9. current' \in G \cup {Null}
    BY <1>4, <1>6
  <2> QED
    BY Zenon, <1>5, <2>1, <2>2, <2>3, <2>4, <2>6, <2>7, <2>8, <2>9 DEF TypeOK
<1>11. Append(added[c], a) \in Seq(E) /\ IsInjective(Append(added[c], a))
  <2>1. PICK s \in Seq(D) : s = added[c]
    BY <1>4, <1>9
  <2>2. \A i \in 1..Len(s) : s[i] # a
    BY <1>4, <1>9, <2>1
  <2> QED
    BY <1>1, <1>4, <1>9, <2>1, <2>2, AppendsOnce
<1>12. History'
  <2>1. \A x \in G : added'[x] \in Seq(E) /\ IsInjective(added'[x])
    <3>1. \A q \in Seq(D) : q \in Seq(E)
      BY <1>1
    <3> QED
      BY Zenon, <1>7, <1>9, <1>11, <3>1
  <2>2. added' \in [G -> Seq(E)]
    BY <1>7, <2>1
  <2>3. kids' \in [G -> Seq(G)]
    BY <1>1, <1>6 DEF IInv, History
  <2>4. \A x \in G : IsInjective(kids'[x])
    BY Zenon, <1>6, <1>9
  <2> QED
    BY Zenon, <1>5, <2>1, <2>2, <2>3, <2>4 DEF History
<1>13. ListsHoldWhatWasAdded'
  <2> DEFINE Holds(n, x) ==
               /\ IF kids[x] = <<>> THEN k[x].child = Null ELSE k[x].child = Head(kids[x])
               /\ IF n[x] = <<>> THEN k[x].jobs \notin E ELSE k[x].jobs = Head(n[x])
               /\ IsRing(k, kids[x]) /\ IsRing(g, n[x])
               /\ \A i \in 1..Len(kids[x]) : k[kids[x][i]].parent = x
               /\ \A i \in 1..Len(n[x]) : g[n[x][i]].group = x
  <2>1. ASSUME NEW x \in G
        PROVE  /\ IF kids[x] = <<>> THEN k[x].child = Null ELSE k[x].child = Head(kids[x])
               /\ IsRing(k, kids[x])
               /\ \A i \in 1..Len(kids[x]) : k[kids[x][i]].parent = x
    <3>1. PICK s : s = kids[x]
      OBVIOUS
    <3>2. /\ s \in Seq(G) /\ IsRing(groups, s)
          /\ groups[x].child = IF s = <<>> THEN Null ELSE s[1]
          /\ \A i \in 1..Len(s) : s[i] \in G /\ groups[s[i]].parent = x
      BY Zenon, <1>9, <3>1
    <3>3. IF s = <<>> THEN k[x].child = Null ELSE k[x].child = Head(s)
      <4>1. s # <<>> => Head(s) = s[1]
        OBVIOUS
      <4>2. k[x].child = groups[x].child
        BY Zenon, <1>3
      <4> QED
        BY Zenon, <3>2, <4>1, <4>2
    <3>4. IsRing(k, s)
      BY <1>3, <3>2, RingKept
    <3>5. \A i \in 1..Len(s) : k[s[i]].parent = x
      BY Zenon, <1>3, <3>2
    <3> QED
      BY Zenon, <3>1, <3>3, <3>4, <3>5
  <2>2. ASSUME NEW x \in G, x # c
        PROVE  Holds(added', x)
    <3>1. PICK n : n = added[x]
      OBVIOUS
    <3>2. /\ n \in Seq(D) /\ IsRing(nodes, n)
          /\ IF n = <<>> THEN groups[x].jobs \in {Null, Wild} ELSE groups[x].jobs = n[1]
          /\ \A i \in 1..Len(n) : n[i] \in D /\ nodes[n[i]].group = x
      BY Zenon, <1>9, <3>1
    <3>3. n = added'[x] /\ k[x].jobs = groups[x].jobs
      BY Zenon, <1>3, <1>7, <2>2, <3>1
    <3>4. IF n = <<>> THEN k[x].jobs \notin E ELSE k[x].jobs = Head(n)
      <4>1. n # <<>> => Head(n) = n[1]
        OBVIOUS
      <4> QED
        BY <1>4, <3>2, <3>3, <4>1
    <3>5. IsRing(g, n)
      <4>1. \A i \in 1..Len(added[c]) : nodes[added[c][i]].group = c
        BY Zenon, <1>4, <1>9
      <4>2. ASSUME NEW y \in D, \E j \in 1..Len(n) : n[j] = y
            PROVE  g[y].next = nodes[y].next /\ g[y].prev = nodes[y].prev
        <5>1. nodes[y].group = x
          BY Zenon, <3>2, <4>2
        <5>2. \A i \in 1..Len(added[c]) : added[c][i] # y
          BY Zenon, <2>2, <4>1, <5>1
        <5> QED
          BY Zenon, <1>3, <5>2
      <4>3. \A y \in D : (\E j \in 1..Len(n) : n[j] = y) =>
                           g[y].next = nodes[y].next /\ g[y].prev = nodes[y].prev
        BY Zenon, <4>2
      <4>4. n \in Seq(D) /\ IsRing(nodes, n)
        BY Zenon, <3>2
      <4> QED
        BY <4>3, <4>4, RingKept
    <3>6. \A i \in 1..Len(n) : g[n[i]].group = x
      BY Zenon, <1>3, <3>2
    <3> QED
      BY Zenon, <2>1, <3>3, <3>4, <3>5, <3>6
  <2>3. Holds(added', c)
    <3>1. PICK n : n = added[c]
      OBVIOUS
    <3>2. /\ n \in Seq(D)
          /\ \A i \in 1..Len(n) : n[i] \in D /\ nodes[n[i]].group = c
      BY Zenon, <1>4, <1>9, <3>1
    <3>3. PICK r \in Seq(E) : r = Append(n, a)
      BY Zenon, <1>11, <3>1
    <3>4. r = added'[c] /\ k[c].jobs = IF n = <<>> THEN a ELSE n[1]
      BY Zenon, <1>3, <1>7, <3>1, <3>3
    <3>5. /\ Len(r) = Len(n) + 1 /\ Len(n) \in Nat
          /\ r[Len(n) + 1] = a /\ \A i \in 1..Len(n) : r[i] = n[i]
      BY <3>2, <3>3, AppendProperties, LenProperties
    <3>6. r # <<>> /\ Head(r) = r[1]
      BY <3>5, EmptySeq
    <3>7. k[c].jobs = Head(r)
      <4>1. CASE n = <<>>
        <5>1. Len(n) + 1 = 1
          BY <4>1
        <5> QED
          BY Zenon, <3>4, <3>5, <3>6, <4>1, <5>1
      <4>2. CASE n # <<>>
        <5>1. 1 \in 1..Len(n)
          BY <3>2, <4>2, EmptySeq, LenProperties
        <5> QED
          BY Zenon, <3>4, <3>5, <3>6, <4>2, <5>1
      <4> QED
        BY <4>1, <4>2
    <3>8. IsRing(g, r)
      BY Zenon, <1>3, <3>1, <3>3
    <3>9. \A i \in 1..Len(r) : g[r[i]].group = c
      <4>1. \A i \in 1..Len(r) : i \in 1..Len(n) \/ i = Len(n) + 1
        BY <3>5
      <4>2. ASSUME NEW i \in 1..Len(r), i \in 1..Len(n) PROVE g[r[i]].group = c
        <5>1. r[i] = n[i] /\ n[i] \in D /\ nodes[n[i]].group = c
          BY Zenon, <3>2, <3>5, <4>2
        <5>2. g[n[i]].group = nodes[n[i]].group
          BY Zenon, <1>3, <5>1
        <5> QED
          BY <5>1, <5>2
      <4>3. ASSUME NEW i \in 1..Len(r), i = Len(n) + 1 PROVE g[r[i]].group = c
        <5>1. r[i] = a
          BY Zenon, <3>5, <4>3
        <5> QED
          BY Zenon, <1>3, <5>1
      <4> QED
        BY Zenon, <4>1, <4>2, <4>3
    <3> QED
      BY Zenon, <1>4, <2>1, <3>4, <3>6, <3>7, <3>8, <3>9
  <2> HIDE DEF Holds
  <2>4. \A x \in G : Holds(added', x)
    BY <2>2, <2>3
  <2> QED
    BY Zenon, <1>2, <1>5, <1>6, <2>4 DEF ListsHoldWhatWasAdded, Holds
<1> QED
  BY <1>10, <1>12, <1>13

(* graph_reset leaves "main" alone.                                        *)
LEMMA ResetAll ==
  ASSUME Reset
  PROVE  IInv'
<1>1. PICK wild \in {Null, Wild} : groups' = With(Nothing, 0, NewGroup(0, 0, wild))
  BY DEF Reset
<1>2. \A v : With(Nothing, 0, v) = [x \in {0} |-> v]
  BY Nothings DEF With
<1>3. /\ groups' = [x \in {0} |-> [parent |-> 0, child |-> Null, jobs |-> wild, next |-> 0, prev |-> 0]]
      /\ kids' = [x \in {0} |-> <<>>] /\ added' = [x \in {0} |-> <<>>]
      /\ nodes' = Nothing /\ used' = 2 /\ current' = 0 /\ path' = <<0>> /\ status' = "built"
  BY <1>1, <1>2 DEF Reset, NewGroup, GroupSize
<1>4. Groups' = {0} /\ Nodes' = {}
  BY <1>3, Nothings DEF Groups, Nodes
<1>5. TypeOK'
  <2>1. groups' \in [{0} -> [parent : {0}, child : {0} \cup {Null}, jobs : {} \cup {Null, Wild},
                             next : {0}, prev : {0}]]
    BY <1>3
  <2>2. nodes' \in [{} -> [job : Jobs, group : {0}, next : {}, prev : {}]]
    BY Zenon, <1>3, Nothings
  <2>3. used' \in 0..Memory
    BY <1>3, MemoryAssumption DEF GroupSize
  <2>4. \A x \in {0} : {x, x + 1} \subseteq 0..(used' - 1) /\ {x, x + 1} \cap {} = {} /\ x + 1 \notin {0}
    BY <1>3
  <2>5. current' \in {0} \cup {Null} /\ status' \in {"none", "created", "built", "undefined"}
    BY <1>3
  <2> QED
    BY Zenon, <1>4, <2>1, <2>2, <2>3, <2>4, <2>5 DEF TypeOK
<1>6. History'
  <2>1. kids' \in [{0} -> Seq({0})] /\ added' \in [{0} -> Seq({})]
    BY <1>3
  <2>2. \A x \in {0} : IsInjective(kids'[x]) /\ IsInjective(added'[x])
    BY <1>3 DEF IsInjective
  <2> QED
    BY Zenon, <1>4, <2>1, <2>2 DEF History
<1>7. ListsHoldWhatWasAdded'
  <2>1. /\ groups'[0].child = Null /\ groups'[0].jobs \notin {}
        /\ kids'[0] = <<>> /\ added'[0] = <<>>
    BY <1>3
  <2>2. IsRing(groups', kids'[0]) /\ IsRing(nodes', added'[0])
    BY Zenon, <2>1, RingOfNone
  <2>3. 1..Len(kids'[0]) = {} /\ 1..Len(added'[0]) = {}
    BY <2>1
  <2>4. /\ \A i \in 1..Len(kids'[0]) : groups'[kids'[0][i]].parent = 0
        /\ \A i \in 1..Len(added'[0]) : nodes'[added'[0][i]].group = 0
    BY Zenon, <2>3
  <2> QED
    BY Zenon, <1>4, <2>1, <2>2, <2>4 DEF ListsHoldWhatWasAdded
<1>8. OnTheWay'
  <2>1. groups'[0].parent = 0 /\ 0 \in {0}
    BY <1>3
  <2>2. path' \in Seq({0} \cup {Null}) /\ Len(path') = 1 /\ path'[1] = 0
    BY <1>3
  <2>3. \E m \in 1..1, j \in 1..1 :
          /\ path'[1] = 0
          /\ \A i \in 1..m : path'[i] \in {0}
          /\ \A i \in 2..m : groups'[path'[i]].parent = path'[i - 1]
          /\ \A i \in (m + 1)..1 : path'[i] = Null
          /\ m < 1 => ~(Fits(GroupSize))'
          /\ j <= m /\ current' = path'[j]
          /\ (Fits(GroupSize))' => j = m
    <3> WITNESS 1 \in 1..1, 1 \in 1..1
    <3> QED
      BY <2>2, <1>3
  <2> QED
    BY Zenon, <1>4, <2>1, <2>2, <2>3 DEF OnTheWay
<1> QED
  BY <1>5, <1>6, <1>7, <1>8 DEF IInv

(* The way of the user, with the variables picked apart.                   *)
LEMMA Way ==
  ASSUME IInv, status = "built"
  PROVE  /\ 0 \in Groups /\ groups[0].parent = 0 /\ path \in Seq(Groups \cup {Null})
         /\ Len(path) \in Nat /\ path[1] = 0
         /\ \E m \in 1..Len(path), j \in 1..Len(path) :
              /\ \A i \in 1..m : path[i] \in Groups
              /\ \A i \in 2..m : groups[path[i]].parent = path[i - 1]
              /\ \A i \in (m + 1)..Len(path) : path[i] = Null
              /\ m < Len(path) => ~Fits(GroupSize)
              /\ j <= m /\ current = path[j]
              /\ Fits(GroupSize) => j = m
  BY LenProperties DEF IInv, OnTheWay

(* A push that fits goes one group on.                                     *)
LEMMA PushGroupWay ==
  ASSUME IInv, PushGroup
  PROVE  OnTheWay'
<1>1. PICK D, E, a, c, p : D = Groups /\ a = used /\ c = current /\ E = D \cup {a} /\ p = path
  OBVIOUS
<1>2. /\ groups' \in GroupsOf(E, E \cup {Null}, Nodes \cup {Null, Wild})
      /\ groups'[a].parent = c
      /\ \A x \in D : groups'[x].parent = groups[x].parent
  <2>1. E \cup {Null} = Groups \cup {used, Null} /\ E = Groups \cup {used}
    BY <1>1
  <2> QED
    BY <1>1, <2>1, PushGroupDoes
<1>3. Groups' = E
  BY <1>2 DEF GroupsOf, Groups
<1>4. /\ status = "built" /\ Fits(GroupSize) /\ path' = Append(p, a) /\ current' = a
      /\ a \notin D
  BY <1>1, Built DEF PushGroup, Entered
<1>5. PICK n \in Nat : /\ n = Len(p) /\ n >= 1
                       /\ \A i \in 1..n : p[i] \in D
                       /\ \A i \in 2..n : groups[p[i]].parent = p[i - 1]
                       /\ c = p[n]
  <2>1. PICK m \in 1..Len(path), j \in 1..Len(path) :
          /\ \A i \in 1..m : path[i] \in Groups
          /\ \A i \in 2..m : groups[path[i]].parent = path[i - 1]
          /\ m < Len(path) => ~Fits(GroupSize)
          /\ current = path[j] /\ j = m
    BY Zenon, <1>4, Way
  <2>2. Len(path) \in Nat /\ m = Len(path)
    BY <1>4, <2>1, Way
  <2>3. m \in Nat /\ m >= 1
    BY <2>1, <2>2
  <2> QED
    BY Zenon, <1>1, <2>1, <2>2, <2>3
<1>6. p \in Seq(D \cup {Null}) /\ 0 \in D /\ groups[0].parent = 0 /\ p[1] = 0
  BY Zenon, <1>1, <1>4, Way
<1>7. PICK q \in Seq(E \cup {Null}) : q = Append(p, a)
  <2>1. p \in Seq(E \cup {Null}) /\ a \in E \cup {Null}
    BY <1>1, <1>6
  <2> QED
    BY <2>1, AppendProperties
<1>8. Len(q) = n + 1 /\ q[n + 1] = a /\ \A i \in 1..n : q[i] = p[i]
  BY <1>5, <1>6, <1>7, AppendProperties
<1>9. q[1] = 0
  BY <1>5, <1>6, <1>8
<1>10. \A i \in 1..(n + 1) : i \in 1..n \/ i = n + 1
  BY <1>5
<1>11. \A i \in 1..(n + 1) : q[i] \in E
  BY Zenon, <1>1, <1>5, <1>8, <1>10
<1>12. ASSUME NEW i \in 2..(n + 1) PROVE groups'[q[i]].parent = q[i - 1]
  <2>1. CASE i = n + 1
    <3>1. i - 1 = n /\ n \in 1..n
      BY <1>5, <2>1
    <3> QED
      BY Zenon, <1>2, <1>5, <1>8, <2>1, <3>1
  <2>2. CASE i # n + 1
    <3>1. i \in 2..n /\ i \in 1..n /\ i - 1 \in 1..n
      BY <1>5, <2>2
    <3>2. p[i] \in D /\ groups[p[i]].parent = p[i - 1] /\ q[i] = p[i] /\ q[i - 1] = p[i - 1]
      BY Zenon, <1>5, <1>8, <3>1
    <3>3. groups'[p[i]].parent = groups[p[i]].parent
      BY Zenon, <1>2, <3>2
    <3> QED
      BY <3>2, <3>3
  <2> QED
    BY <2>1, <2>2
<1>13. 0 \in E /\ groups'[0].parent = 0
  BY Zenon, <1>1, <1>2, <1>6
<1>14. \E m \in 1..Len(q), j \in 1..Len(q) :
         /\ q[1] = 0
         /\ \A i \in 1..m : q[i] \in E
         /\ \A i \in 2..m : groups'[q[i]].parent = q[i - 1]
         /\ \A i \in (m + 1)..Len(q) : q[i] = Null
         /\ m < Len(q) => ~(Fits(GroupSize))'
         /\ j <= m /\ a = q[j]
         /\ (Fits(GroupSize))' => j = m
  <2>1. PICK k \in 1..Len(q) : k = n + 1
    BY <1>5, <1>8
  <2>2. Len(q) = k /\ k <= k /\ ~(k < k) /\ (k + 1)..k = {}
    BY <1>5, <1>8, <2>1
  <2> WITNESS k \in 1..Len(q), k \in 1..Len(q)
  <2> QED
    BY Zenon, <1>8, <1>9, <1>11, <1>12, <2>1, <2>2
<1> QED
  BY Zenon, <1>3, <1>4, <1>7, <1>13, <1>14 DEF OnTheWay

(* Where the pool and the lists stay as they are, only the way is in doubt. *)
LEMMA SamePool ==
  ASSUME IInv, UNCHANGED <<used, groups, nodes, kids, added>>,
         status' \in {"none", "created", "built", "undefined"}, current' \in Groups \cup {Null}
  PROVE  TypeOK' /\ History' /\ ListsHoldWhatWasAdded' /\ Groups' = Groups
<1>1. Groups' = Groups /\ Nodes' = Nodes
  BY DEF Groups, Nodes
<1>2. TypeOK'
  BY <1>1 DEF IInv, TypeOK
<1>3. History'
  BY <1>1 DEF IInv, History
<1>4. ListsHoldWhatWasAdded'
  BY Zenon, <1>1 DEF IInv, ListsHoldWhatWasAdded
<1> QED
  BY <1>1, <1>2, <1>3, <1>4

(* A push that fails leaves the user a group ahead of the program, ...     *)
LEMMA PushGroupFailsWay ==
  ASSUME IInv, PushGroupFails
  PROVE  IInv'
<1>1. PICK D, p : D = Groups /\ p = path
  OBVIOUS
<1>2. /\ status = "built" /\ ~Fits(GroupSize) /\ path' = Append(p, Null)
      /\ UNCHANGED <<status, used, groups, nodes, current, kids, added>>
  BY <1>1 DEF PushGroupFails, objects
<1>3. current' \in Groups \cup {Null} /\ status' \in {"none", "created", "built", "undefined"}
  BY <1>2 DEF IInv, TypeOK
<1>4. TypeOK' /\ History' /\ ListsHoldWhatWasAdded' /\ Groups' = D
  BY <1>1, <1>2, <1>3, SamePool
<1>5. 0 \in D /\ groups'[0].parent = 0 /\ p \in Seq(D \cup {Null}) /\ p[1] = 0
  BY Zenon, <1>1, <1>2, Way
<1>6. PICK m \in 1..Len(p), j \in 1..Len(p) :
        /\ \A i \in 1..m : p[i] \in D
        /\ \A i \in 2..m : groups'[p[i]].parent = p[i - 1]
        /\ \A i \in (m + 1)..Len(p) : p[i] = Null
        /\ j <= m /\ current' = p[j]
  BY Zenon, <1>1, <1>2, Way
<1>7. PICK q \in Seq(D \cup {Null}) : q = Append(p, Null)
  <2>1. Null \in D \cup {Null}
    OBVIOUS
  <2> QED
    BY <1>5, <2>1, AppendProperties
<1>8. PICK n \in Nat : n = Len(p) /\ Len(q) = n + 1 /\ q[n + 1] = Null /\ \A i \in 1..n : q[i] = p[i]
  BY <1>5, <1>7, AppendProperties, LenProperties
<1>9. /\ m \in 1..Len(q) /\ j \in 1..Len(q)
      /\ 1 \in 1..n /\ j \in 1..n
      /\ \A i \in 1..m : i \in 1..n
      /\ \A i \in 2..m : i \in 1..n /\ i - 1 \in 1..n
      /\ \A i \in (m + 1)..(n + 1) : i = n + 1 \/ (i \in 1..n /\ i \in (m + 1)..n)
  <2>1. m \in 1..n /\ j \in 1..n /\ n \in Nat /\ Len(q) = n + 1
    BY <1>8
  <2>2. m \in 1..Len(q) /\ j \in 1..Len(q) /\ 1 \in 1..n
    BY <2>1
  <2>3. \A i \in 1..m : i \in 1..n
    BY <2>1
  <2>4. \A i \in 2..m : i \in 1..n /\ i - 1 \in 1..n
    BY <2>1
  <2>5. \A i \in (m + 1)..(n + 1) : i = n + 1 \/ (i \in 1..n /\ i \in (m + 1)..n)
    BY <2>1
  <2> QED
    BY <2>1, <2>2, <2>3, <2>4, <2>5
<1>10. ~(Fits(GroupSize))'
  BY <1>2 DEF Fits
<1>11. \E x \in 1..Len(q), y \in 1..Len(q) :
         /\ q[1] = 0
         /\ \A i \in 1..x : q[i] \in D
         /\ \A i \in 2..x : groups'[q[i]].parent = q[i - 1]
         /\ \A i \in (x + 1)..Len(q) : q[i] = Null
         /\ x < Len(q) => ~(Fits(GroupSize))'
         /\ y <= x /\ current' = q[y]
         /\ (Fits(GroupSize))' => y = x
  <2>1. q[1] = 0 /\ \A i \in 1..m : q[i] \in D
    BY Zenon, <1>5, <1>6, <1>8, <1>9
  <2>2. \A i \in 2..m : groups'[q[i]].parent = q[i - 1]
    BY Zenon, <1>6, <1>8, <1>9
  <2>3. \A i \in (m + 1)..Len(q) : q[i] = Null
    BY Zenon, <1>6, <1>8, <1>9
  <2>4. j <= m /\ current' = q[j]
    BY Zenon, <1>6, <1>8, <1>9
  <2> QED
    BY Zenon, <1>9, <1>10, <2>1, <2>2, <2>3, <2>4
<1>12. OnTheWay'
  BY Zenon, <1>2, <1>4, <1>5, <1>7, <1>11 DEF OnTheWay
<1> QED
  BY <1>4, <1>12 DEF IInv

(* ... and a pop takes both a group back, but for "main".                  *)
LEMMA PopGroupWay ==
  ASSUME IInv, PopGroup
  PROVE  IInv'
<1>1. PICK D, p : D = Groups /\ p = path
  OBVIOUS
<1>2. /\ status = "built" /\ current' = groups[current].parent
      /\ path' = (IF Len(p) = 1 THEN p ELSE SubSeq(p, 1, Len(p) - 1))
      /\ UNCHANGED <<status, used, groups, nodes, kids, added>>
  BY <1>1 DEF PopGroup
<1>3. current' \in Groups \cup {Null} /\ status' \in {"none", "created", "built", "undefined"}
  <2>1. current \in Groups
    BY <1>2, Built
  <2>2. groups[current].parent \in Groups
    BY <2>1, Built DEF GroupsOf
  <2> QED
    BY <1>2, <2>2 DEF IInv, TypeOK
<1>4. TypeOK' /\ History' /\ ListsHoldWhatWasAdded' /\ Groups' = D
  BY <1>1, <1>2, <1>3, SamePool
<1>5. 0 \in D /\ groups'[0].parent = 0 /\ p \in Seq(D \cup {Null}) /\ p[1] = 0
  BY Zenon, <1>1, <1>2, Way
<1>6. PICK m \in 1..Len(p), j \in 1..Len(p) :
        /\ \A i \in 1..m : p[i] \in D
        /\ \A i \in 2..m : groups'[p[i]].parent = p[i - 1]
        /\ \A i \in (m + 1)..Len(p) : p[i] = Null
        /\ m < Len(p) => ~Fits(GroupSize)
        /\ j <= m /\ current = p[j]
        /\ Fits(GroupSize) => j = m
  BY Zenon, <1>1, <1>2, Way
<1>7. PICK n \in Nat : n = Len(p)
  BY <1>5, LenProperties
<1>8. (Fits(GroupSize))' <=> Fits(GroupSize)
  BY <1>2 DEF Fits
<1>9. PICK y \in Nat : y = IF j = 1 THEN 1 ELSE j - 1
  BY <1>6, <1>7
<1>10. y \in 1..m /\ current' = p[y]
  <2>1. CASE j = 1
    <3>1. current' = groups'[p[1]].parent
      BY Zenon, <1>2, <1>6, <2>1
    <3> QED
      BY <1>5, <1>6, <1>7, <1>9, <2>1, <3>1
  <2>2. CASE j # 1
    <3>1. j \in 2..m
      BY <1>6, <1>7, <2>2
    <3>2. current' = groups'[p[j]].parent
      BY Zenon, <1>2, <1>6
    <3>3. current' = p[j - 1]
      BY Zenon, <1>6, <3>1, <3>2
    <3> QED
      BY <1>6, <1>7, <1>9, <2>2, <3>1, <3>3
  <2> QED
    BY <2>1, <2>2
<1>11. PICK q \in Seq(D \cup {Null}) :
         /\ q = path' /\ Len(q) = (IF n = 1 THEN n ELSE n - 1)
         /\ \A i \in 1..Len(q) : q[i] = p[i]
  <2>1. CASE n = 1
    BY <1>2, <1>5, <1>7, <2>1
  <2>2. CASE n # 1
    <3>1. n - 1 \in Nat /\ n - 1 <= Len(p) /\ path' = SubSeq(p, 1, n - 1)
      BY <1>2, <1>6, <1>7, <2>2
    <3>2. path' \in Seq(D \cup {Null}) /\ Len(path') = n - 1 /\ \A i \in 1..(n - 1) : path'[i] = p[i]
      <4>1. \A i \in 1..(n - 1) : i \in 1..Len(p) /\ p[i] \in D \cup {Null}
        BY <1>5, <1>7, <3>1, ElementOfSeq
      <4>2. SubSeq(p, 1, n - 1) = [i \in 1..(n - 1) |-> p[i]]
        BY <1>5, <3>1
      <4> QED
        BY <3>1, <4>1, <4>2
    <3> QED
      BY <2>2, <3>2
  <2> QED
    BY <2>1, <2>2
<1>12. PICK x \in Nat : x = IF m = n /\ n # 1 THEN n - 1 ELSE m
  <2>1. m \in 1..n
    BY <1>7
  <2>2. m \in Nat /\ n - 1 \in Nat
    BY <2>1
  <2> QED
    BY <2>2
<1>13. /\ x \in 1..Len(q) /\ y \in 1..Len(q) /\ 1 \in 1..Len(q) /\ y <= x
       /\ \A i \in 1..x : i \in 1..Len(q) /\ i \in 1..m
       /\ \A i \in 2..x : i \in 1..Len(q) /\ i - 1 \in 1..Len(q) /\ i \in 2..m
       /\ \A i \in (x + 1)..Len(q) : i \in 1..Len(q) /\ i \in (m + 1)..Len(p)
       /\ x < Len(q) => m < Len(p)
       /\ Fits(GroupSize) => y = x
  <2>1. m \in 1..n /\ j \in 1..n /\ y \in 1..m /\ j <= m
    BY <1>6, <1>7, <1>10
  <2>2. Fits(GroupSize) => j = m /\ m = n
    BY <1>6, <1>7
  <2>3. CASE n = 1
    BY <1>7, <1>11, <1>12, <2>1, <2>2, <2>3
  <2>4. CASE n # 1 /\ m = n
    BY <1>7, <1>9, <1>11, <1>12, <2>1, <2>2, <2>4
  <2>5. CASE n # 1 /\ m # n
    BY <1>7, <1>9, <1>11, <1>12, <2>1, <2>2, <2>5
  <2> QED
    BY <2>3, <2>4, <2>5
<1>14. \E u \in 1..Len(q), v \in 1..Len(q) :
         /\ q[1] = 0
         /\ \A i \in 1..u : q[i] \in D
         /\ \A i \in 2..u : groups'[q[i]].parent = q[i - 1]
         /\ \A i \in (u + 1)..Len(q) : q[i] = Null
         /\ u < Len(q) => ~(Fits(GroupSize))'
         /\ v <= u /\ current' = q[v]
         /\ (Fits(GroupSize))' => v = u
  <2>1. q[1] = 0 /\ \A i \in 1..x : q[i] \in D
    BY Zenon, <1>5, <1>6, <1>11, <1>13
  <2>2. \A i \in 2..x : groups'[q[i]].parent = q[i - 1]
    BY Zenon, <1>6, <1>11, <1>13
  <2>3. \A i \in (x + 1)..Len(q) : q[i] = Null
    BY Zenon, <1>6, <1>11, <1>13
  <2>4. y <= x /\ current' = q[y]
    BY Zenon, <1>10, <1>11, <1>13
  <2>5. /\ x < Len(q) => ~(Fits(GroupSize))'
        /\ (Fits(GroupSize))' => y = x
    BY Zenon, <1>6, <1>8, <1>13
  <2> QED
    BY Zenon, <1>13, <2>1, <2>2, <2>3, <2>4, <2>5
<1>15. OnTheWay'
  BY Zenon, <1>4, <1>5, <1>11, <1>14 DEF OnTheWay
<1> QED
  BY <1>4, <1>15 DEF IInv

(* A job added to a group leaves the groups where they are.                *)
LEMMA AddJobWay ==
  ASSUME IInv, NEW job \in Jobs, AddJob(job)
  PROVE  OnTheWay'
<1>1. PICK D, p, c : D = Groups /\ p = path /\ c = current
  OBVIOUS
<1>2. groups' \in GroupsOf(D, D \cup {Null}, Nodes \cup {Null, Wild} \cup {used})
      /\ \A g \in D : groups'[g].parent = groups[g].parent
  BY <1>1, AddJobDoes
<1>3. Groups' = D
  BY <1>2 DEF GroupsOf, Groups
<1>4. status = "built" /\ path' = p /\ current' = c /\ used' = used + 1
  BY <1>1 DEF AddJob, NodeSize
<1>5. (Fits(GroupSize))' => Fits(GroupSize)
  <2>1. used \in Nat
    BY DEF IInv, TypeOK
  <2> QED
    BY <1>4, <2>1 DEF Fits, GroupSize
<1>6. 0 \in D /\ groups[0].parent = 0 /\ p \in Seq(D \cup {Null}) /\ p[1] = 0
  BY Zenon, <1>1, <1>4, Way
<1>7. PICK m \in 1..Len(p), j \in 1..Len(p) :
        /\ \A i \in 1..m : p[i] \in D
        /\ \A i \in 2..m : groups[p[i]].parent = p[i - 1]
        /\ \A i \in (m + 1)..Len(p) : p[i] = Null
        /\ m < Len(p) => ~Fits(GroupSize)
        /\ j <= m /\ c = p[j]
        /\ Fits(GroupSize) => j = m
  BY Zenon, <1>1, <1>4, Way
<1>8. \A i \in 2..m : i \in 1..m
  OBVIOUS
<1>9. \A i \in 2..m : groups'[p[i]].parent = p[i - 1]
  BY Zenon, <1>2, <1>7, <1>8
<1>10. \E u \in 1..Len(p), v \in 1..Len(p) :
         /\ p[1] = 0
         /\ \A i \in 1..u : p[i] \in D
         /\ \A i \in 2..u : groups'[p[i]].parent = p[i - 1]
         /\ \A i \in (u + 1)..Len(p) : p[i] = Null
         /\ u < Len(p) => ~(Fits(GroupSize))'
         /\ v <= u /\ c = p[v]
         /\ (Fits(GroupSize))' => v = u
  BY Zenon, <1>5, <1>6, <1>7, <1>9
<1>11. 0 \in D /\ groups'[0].parent = 0
  BY Zenon, <1>2, <1>6
<1> QED
  BY Zenon, <1>3, <1>4, <1>6, <1>10, <1>11 DEF OnTheWay

(* Where the graph is not built, or nothing happens to it, all stays.      *)
LEMMA NothingBuilt ==
  ASSUME IInv, status' # "built", UNCHANGED <<objects, history>>,
         status' \in {"none", "created", "built", "undefined"}
  PROVE  IInv'
<1>1. current' \in Groups \cup {Null}
  BY DEF IInv, TypeOK, objects
<1>2. TypeOK' /\ History' /\ ListsHoldWhatWasAdded'
  BY <1>1, SamePool DEF objects, history
<1>3. OnTheWay'
  BY DEF OnTheWay
<1> QED
  BY <1>2, <1>3 DEF IInv

(* g_destroy leaves what there is at first.                                *)
LEMMA DestroyAll ==
  ASSUME Destroy
  PROVE  IInv'
<1>1. /\ groups' = Nothing /\ nodes' = Nothing /\ kids' = Nothing /\ added' = Nothing
      /\ current' = Null /\ used' = 0 /\ status' = "none"
  BY DEF Destroy
<1>2. Groups' = {} /\ Nodes' = {}
  BY <1>1, Nothings DEF Groups, Nodes
<1>3. TypeOK'
  <2>1. groups' \in [Groups' -> [parent : Groups', child : Groups' \cup {Null},
                                 jobs : Nodes' \cup {Null, Wild}, next : Groups', prev : Groups']]
    BY Zenon, <1>1, <1>2, Nothings
  <2>2. nodes' \in [Nodes' -> [job : Jobs, group : Groups', next : Nodes', prev : Nodes']]
    BY Zenon, <1>1, <1>2, Nothings
  <2>3. used' \in 0..Memory
    BY <1>1, MemoryAssumption
  <2> QED
    BY <1>1, <1>2, <2>1, <2>2, <2>3 DEF TypeOK
<1>4. History'
  BY Zenon, <1>1, <1>2, Nothings DEF History
<1>5. ListsHoldWhatWasAdded'
  BY <1>2 DEF ListsHoldWhatWasAdded
<1> QED
  BY <1>1, <1>3, <1>4, <1>5 DEF IInv, OnTheWay

(* Every call keeps the invariant.                                         *)
LEMMA NextIInv ==
  ASSUME IInv, [Next]_vars
  PROVE  IInv'
<1>1. CASE Create
  BY <1>1, NothingBuilt DEF Create
<1>2. CASE Destroy
  BY <1>2, DestroyAll
<1>3. CASE Reset
  BY <1>3, ResetAll
<1>4. CASE PushGroup
  BY <1>4, PushGroupLists, PushGroupWay DEF IInv
<1>5. CASE PushGroupFails
  BY <1>5, PushGroupFailsWay
<1>6. CASE PopGroup
  BY <1>6, PopGroupWay
<1>7. ASSUME NEW job \in Jobs, AddJob(job) PROVE IInv'
  BY <1>7, AddJobLists, AddJobWay DEF IInv
<1>8. CASE AddJobUndefined
  BY <1>8, NothingBuilt DEF AddJobUndefined
<1>9. CASE UNCHANGED vars
  BY <1>9 DEF vars, objects, history, IInv, TypeOK, History, ListsHoldWhatWasAdded, OnTheWay,
             Groups, Nodes, IsRing, Fits
<1> QED
  BY <1>1, <1>2, <1>3, <1>4, <1>5, <1>6, <1>7, <1>8, <1>9 DEF Next, Stopped
------------------------------------------------------------------------------
(* Whatever the user builds, adds and resets: the lists are what was added *)
(* and the current group is on the way of its user.                        *)
THEOREM Inductive == Spec => []IInv
<1>1. Init => IInv
  BY InitIInv
<1>2. IInv /\ [Next]_vars => IInv'
  BY NextIInv
<1> QED
  BY <1>1, <1>2, PTL DEF Spec

(* In a graph of c_job.cpp no two objects of the pool overlap and, but for *)
(* the list of jobs that nothing initialises, no pointer dangles.          *)
THEOREM TypeCorrect == Spec => []TypeOK
<1>1. IInv => TypeOK
  BY DEF IInv
<1> QED
  BY <1>1, Inductive, PTL

(* The circular lists that add_child, add_sibling and push_back link hold  *)
(* what was put below each group and added to it, once, in order, however  *)
(* many groups and jobs there are.                                         *)
THEOREM ListsAreRight == Spec => []ListsHoldWhatWasAdded
<1>1. IInv => ListsHoldWhatWasAdded
  BY DEF IInv
<1> QED
  BY <1>1, Inductive, PTL

(* graph_pop_group goes back to where the push that it belongs to was made *)
(* while there is room for a group, and never off the user's way.          *)
THEOREM PopUndoesPush == Spec => []PopMatchesPush
<1>1. IInv => PopMatchesPush
  <2> SUFFICES ASSUME IInv, status = "built"
               PROVE  /\ Fits(GroupSize) => current = path[Len(path)]
                      /\ \E i \in 1..Len(path) : path[i] = current
    BY DEF PopMatchesPush
  <2>1. PICK m \in 1..Len(path), j \in 1..Len(path) :
          /\ m < Len(path) => ~Fits(GroupSize)
          /\ current = path[j]
          /\ Fits(GroupSize) => j = m
    BY Zenon, Way
  <2>2. Fits(GroupSize) => m = Len(path)
    BY <2>1, Way
  <2> QED
    BY Zenon, <2>1, <2>2
<1> QED
  BY <1>1, Inductive, PTL
==============================================================================
