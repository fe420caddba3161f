---------------------------- MODULE FsListProofs ----------------------------
(***************************************************************************)
(* For every tree and every request the listing is exact and bounded.  The *)
(* invariant says that a directory waits in the queue only as long as      *)
(* nothing below it was seen, that what was seen lies below the root or    *)
(* below what is listed, and that whatever is due is listed, about to be   *)
(* read, or waits with its directory.                                      *)
(***************************************************************************)
EXTENDS FsList, FiniteSetTheorems, TLAPS

Waiting == ToSet(queue)
Seen == Listed \cup unread \cup lost

(* A directory is read once, and before anything below it is known. *)
Fresh ==
  /\ IsInjective(queue)
  /\ \A d \in Waiting : d = Root \/ (request.recursive /\ d \in Listed)
  /\ \A n \in Seen : /\ tree.parent[n] \notin Waiting
                     /\ \/ tree.parent[n] = Root
                        \/ request.recursive /\ tree.parent[n] \in Listed

(* A path is unread, listed or lost, and listed only once. *)
Once ==
  /\ IsInjective(entries)
  /\ unread \cap (Listed \cup lost) = {}
  /\ Listed \cap lost = {}
  /\ \A n \in Listed : ~Skipped(n)

(* Nothing due is forgotten. *)
Complete ==
  pc # "error" /\ ~truncated =>
    \A n \in Paths : Due(n) => n \in Listed \cup unread \/ tree.parent[n] \in Waiting

Phases ==
  /\ pc = "next" => unread = {}
  /\ truncated => pc = "done"
  /\ pc = "done" /\ ~truncated => unread = {} /\ queue = <<>>

Cap == IF request.max = 0 THEN 1 ELSE request.max

Bounded ==
  /\ ~truncated => Len(entries) < Cap
  /\ truncated => Len(entries) = Cap

IInv == TypeOK /\ Fresh /\ Once /\ Complete /\ Phases /\ Bounded

-----------------------------------------------------------------------------
(* Appending to a sequence adds one element, and a new one keeps the       *)
(* elements distinct.                                                      *)
LEMMA Appended ==
  ASSUME NEW S, NEW s \in Seq(S), NEW x \in S
  PROVE  /\ Append(s, x) \in Seq(S)
         /\ Len(Append(s, x)) = Len(s) + 1
         /\ ToSet(Append(s, x)) = ToSet(s) \cup {x}
         /\ IsInjective(s) /\ x \notin ToSet(s) => IsInjective(Append(s, x))
<1> DEFINE t == Append(s, x)
<1>1. /\ t \in Seq(S) /\ Len(t) = Len(s) + 1
      /\ DOMAIN t = 1..(Len(s) + 1) /\ DOMAIN s = 1..Len(s) /\ Len(s) \in Nat
      /\ \A i \in 1..Len(s) : t[i] = s[i]
      /\ t[Len(s) + 1] = x
  OBVIOUS
<1> HIDE DEF t
<1>2. ToSet(t) = ToSet(s) \cup {x}
  BY <1>1 DEF ToSet
<1>3. ASSUME IsInjective(s), x \notin ToSet(s) PROVE IsInjective(t)
  <2> SUFFICES ASSUME NEW a \in DOMAIN t, NEW b \in DOMAIN t, t[a] = t[b] PROVE a = b
    BY DEF IsInjective
  <2>1. \A i \in 1..Len(s) : s[i] # x
    BY <1>1, <1>3 DEF ToSet
  <2>2. QED  BY <1>1, <1>3, <2>1 DEF IsInjective
<1>4. QED  BY <1>1, <1>2, <1>3 DEF t

(* Taking the head of a sequence takes its element, for good if the        *)
(* elements are distinct.                                                  *)
LEMMA Taken ==
  ASSUME NEW S, NEW s \in Seq(S), s # <<>>
  PROVE  /\ Tail(s) \in Seq(S)
         /\ Head(s) \in ToSet(s)
         /\ ToSet(s) = ToSet(Tail(s)) \cup {Head(s)}
         /\ IsInjective(s) => IsInjective(Tail(s)) /\ Head(s) \notin ToSet(Tail(s))
<1> DEFINE t == Tail(s)
<1>1. /\ t \in Seq(S) /\ Head(s) = s[1] /\ Len(s) \in Nat /\ Len(s) > 0
      /\ DOMAIN s = 1..Len(s) /\ DOMAIN t = 1..(Len(s) - 1)
      /\ \A i \in 1..(Len(s) - 1) : t[i] = s[i + 1]
  OBVIOUS
<1> HIDE DEF t
<1>2. Head(s) \in ToSet(s)
  BY <1>1 DEF ToSet
<1>3. ToSet(s) = ToSet(t) \cup {Head(s)}
  <2>1. \A i \in 1..Len(s) : i = 1 \/ (i - 1 \in 1..(Len(s) - 1) /\ t[i - 1] = s[i])
    BY <1>1
  <2>2. \A i \in 1..(Len(s) - 1) : i + 1 \in 1..Len(s) /\ t[i] = s[i + 1]
    BY <1>1
  <2>3. ASSUME NEW e \in ToSet(s) PROVE e \in ToSet(t) \cup {Head(s)}
    <3>1. PICK i \in 1..Len(s) : e = s[i]
      BY <1>1 DEF ToSet
    <3>2. QED  BY <1>1, <2>1, <3>1 DEF ToSet
  <2>4. ASSUME NEW e \in ToSet(t) PROVE e \in ToSet(s)
    <3>1. PICK i \in 1..(Len(s) - 1) : e = t[i]
      BY <1>1 DEF ToSet
    <3>2. QED  BY <1>1, <2>2, <3>1 DEF ToSet
  <2>5. QED  BY <1>2, <2>3, <2>4
<1>4. ASSUME IsInjective(s) PROVE IsInjective(t) /\ Head(s) \notin ToSet(t)
  <2>1. \A i \in 1..(Len(s) - 1) : i + 1 \in DOMAIN s /\ i + 1 # 1
    BY <1>1
  <2>2. \A i \in 1..(Len(s) - 1) : t[i] # s[1]
    BY <1>1, <1>4, <2>1 DEF IsInjective
  <2>3. Head(s) \notin ToSet(t)
    BY <1>1, <2>2 DEF ToSet
  <2>4. IsInjective(t)
    <3> SUFFICES ASSUME NEW a \in DOMAIN t, NEW b \in DOMAIN t, t[a] = t[b] PROVE a = b
      BY DEF IsInjective
    <3>1. /\ a \in Int /\ a + 1 \in DOMAIN s
          /\ b \in Int /\ b + 1 \in DOMAIN s
          /\ s[a + 1] = s[b + 1]
      BY <1>1
    <3>2. a + 1 = b + 1
      BY <1>4, <3>1 DEF IsInjective
    <3>3. QED  BY <3>1, <3>2
  <2>5. QED  BY <2>3, <2>4
<1>5. QED  BY <1>1, <1>2, <1>3, <1>4 DEF t

(* What is known of the tree and the request. *)
LEMMA Inputs ==
  ASSUME TypeOK
  PROVE  /\ tree.dirs \subseteq {Root} \cup Paths
         /\ request.max \in Nat
         /\ \A n \in Paths : /\ n \in Nat /\ n # Root
                             /\ tree.parent[n] \in tree.dirs /\ tree.parent[n] # n
<1>1. IsTree(tree)
  BY FsListAssumption DEF TypeOK
<1>2. request.max \in Nat
  BY FsListAssumption DEF TypeOK, Requests
<1>3. \A n \in Paths : n \in Nat /\ tree.parent[n] \in tree.dirs /\ tree.parent[n] < n
  BY <1>1 DEF IsTree, Paths
<1>4. tree.dirs \subseteq {Root} \cup Paths
  BY <1>1 DEF IsTree, Paths
<1>5. \A n \in tree.dirs : n \in Nat
  BY <1>3, <1>4 DEF Root
<1>6. \A n \in Paths : n # Root /\ tree.parent[n] # n
  BY <1>3, <1>5 DEF Root
<1>7. QED  BY <1>2, <1>3, <1>4, <1>6

-----------------------------------------------------------------------------
(* Depth *)

(* Induction, for a set of numbers: if S lacked k, then n |-> n + 1 would  *)
(* map what S has below k one to one into a proper part of itself.         *)
LEMMA SetInduction ==
  ASSUME NEW S \in SUBSET Nat, 0 \in S, \A n \in S : n + 1 \in S
  PROVE  S = Nat
<1> SUFFICES ASSUME NEW k \in Nat, k \notin S PROVE FALSE
  OBVIOUS
<1> DEFINE T == {n \in S : n < k}
           U == {n \in T : n # 0}
           next == [n \in T |-> n + 1]
<1>1. IsFiniteSet(T)
  BY FS_BoundedSetOfNaturals
<1>2. next \in Injection(T, U)
  <2>1. \A n \in T : n + 1 \in U
    OBVIOUS
  <2>2. \A m, n \in T : next[m] = next[n] => m = n
    OBVIOUS
  <2>3. QED  BY <2>1, <2>2 DEF Injection, IsInjective
<1>3. U \in SUBSET T /\ 0 \in T /\ 0 \notin U
  OBVIOUS
<1> HIDE DEF T, U, next
<1>4. /\ IsFiniteSet(U) /\ Cardinality(U) <= Cardinality(T)
      /\ Cardinality(T) = Cardinality(U) => T = U
  BY <1>1, <1>3, FS_Subset
<1>5. Cardinality(T) <= Cardinality(U)
  BY <1>2, <1>4, FS_Injection
<1>6. Cardinality(T) \in Nat /\ Cardinality(U) \in Nat
  BY <1>1, <1>4, FS_CardinalityType
<1>7. QED  BY <1>3, <1>4, <1>5, <1>6

(* g counts the steps to the root from every path up to k. *)
Measures(g, k) ==
  /\ g \in [Nat -> Nat]
  /\ g[Root] = 0
  /\ \A n \in Paths : n <= k => g[n] = g[tree.parent[n]] + 1

(* Numbers that bound the paths suffice for induction along parents.       *)
LEMMA Ancestry ==
  ASSUME TypeOK
  PROVE  /\ Root \in Nat /\ Root = 0
         /\ \A n \in Paths : /\ n \in Nat /\ n > 0
                             /\ tree.parent[n] \in {Root} \cup Paths
                             /\ tree.parent[n] \in Nat /\ tree.parent[n] < n
<1>1. IsTree(tree)
  BY FsListAssumption DEF TypeOK
<1>2. \A n \in Paths : /\ n \in Nat /\ tree.parent[n] < n
                       /\ tree.parent[n] \in {Root} \cup Paths
  BY <1>1 DEF IsTree, Paths
<1>3. \A n \in Paths : tree.parent[n] \in Nat
  BY <1>2 DEF Root
<1>4. QED  BY <1>2, <1>3 DEF Root

LEMMA MeasureExists ==
  ASSUME TypeOK, NEW k \in Nat
  PROVE  \E g : Measures(g, k)
<1> DEFINE S == {m \in Nat : \E g : Measures(g, m)}
<1>1. 0 \in S
  <2>1. Measures([n \in Nat |-> 0], 0)
    BY Ancestry DEF Measures
  <2>2. QED  BY <2>1
<1>2. ASSUME NEW m \in S PROVE m + 1 \in S
  <2>1. PICK g : Measures(g, m)
    OBVIOUS
  <2> DEFINE h == [g EXCEPT ![m + 1] = g[tree.parent[m + 1]] + 1]
  <2>2. CASE m + 1 \in Paths
    <3>1. tree.parent[m + 1] \in Nat /\ tree.parent[m + 1] # m + 1 /\ m + 1 # Root
      BY <2>2, Ancestry
    <3>2. h \in [Nat -> Nat] /\ h[Root] = 0
      BY <2>1, <3>1, Ancestry DEF Measures
    <3>3. ASSUME NEW n \in Paths, n <= m + 1 PROVE h[n] = h[tree.parent[n]] + 1
      <4>1. n \in Nat /\ tree.parent[n] \in Nat /\ tree.parent[n] < n
        BY Ancestry
      <4>2. h[tree.parent[n]] = g[tree.parent[n]]
        BY <2>1, <3>3, <4>1 DEF Measures
      <4>3. CASE n = m + 1
        BY <2>1, <4>1, <4>2, <4>3 DEF Measures
      <4>4. CASE n # m + 1
        BY <2>1, <3>3, <4>1, <4>2, <4>4 DEF Measures
      <4>5. QED  BY <4>3, <4>4
    <3>4. Measures(h, m + 1)
      BY <3>2, <3>3 DEF Measures
    <3>5. QED  BY <3>4
  <2>3. CASE m + 1 \notin Paths
    <3>1. \A n \in Paths : n <= m + 1 => n <= m
      BY <2>3, Ancestry
    <3>2. Measures(g, m + 1)
      BY <2>1, <3>1 DEF Measures
    <3>3. QED  BY <3>2
  <2>4. QED  BY <2>2, <2>3
<1>3. S = Nat
  <2> HIDE DEF S
  <2>1. S \in SUBSET Nat
    BY DEF S
  <2>2. QED  BY <1>1, <1>2, <2>1, SetInduction
<1>4. QED  BY <1>3

(* Two such counts agree on what both measure. *)
LEMMA MeasureUnique ==
  ASSUME TypeOK, NEW j \in Nat, NEW k \in Nat, j <= k,
         NEW g, Measures(g, j), NEW h, Measures(h, k),
         NEW n \in {Root} \cup Paths, n <= j
  PROVE  g[n] = h[n]
<1> DEFINE Agree(m) == \A i \in {Root} \cup Paths : i <= m /\ i <= j => g[i] = h[i]
           S == {m \in Nat : Agree(m)}
<1>1. 0 \in S
  <2>1. ASSUME NEW i \in {Root} \cup Paths, i <= 0 PROVE g[i] = h[i]
    <3>1. i = Root
      BY <2>1, Ancestry
    <3>2. QED  BY <3>1 DEF Measures
  <2>2. QED  BY <2>1
<1>2. ASSUME NEW m \in S PROVE m + 1 \in S
  <2>1. Agree(m)
    OBVIOUS
  <2>2. ASSUME NEW i \in {Root} \cup Paths, i <= m + 1, i <= j PROVE g[i] = h[i]
    <3>1. CASE i = Root
      BY <3>1 DEF Measures
    <3>2. CASE i \in Paths
      <4>1. /\ i \in Nat /\ tree.parent[i] \in {Root} \cup Paths
            /\ tree.parent[i] \in Nat /\ tree.parent[i] < i
        BY <3>2, Ancestry
      <4>2. tree.parent[i] <= m /\ tree.parent[i] <= j /\ i <= k
        BY <2>2, <4>1
      <4>3. g[tree.parent[i]] = h[tree.parent[i]]
        BY <2>1, <4>1, <4>2
      <4>4. g[i] = g[tree.parent[i]] + 1 /\ h[i] = h[tree.parent[i]] + 1
        BY <2>2, <3>2, <4>2 DEF Measures
      <4>5. QED  BY <4>3, <4>4
    <3>3. QED  BY <3>1, <3>2
  <2>3. Agree(m + 1)
    BY <2>2
  <2>4. QED  BY <2>3
<1>3. S = Nat
  <2> HIDE DEF S
  <2>1. S \in SUBSET Nat
    BY DEF S
  <2>2. QED  BY <1>1, <1>2, <2>1, SetInduction
<1>4. Agree(j)
  <2>1. j \in S
    BY <1>3
  <2>2. QED  BY <2>1
<1>5. QED  BY <1>4

(* Depth is what its recursive definition says: 0 for the root, and one    *)
(* more than its parent's for any other path.                              *)
LEMMA DepthDefined ==
  ASSUME TypeOK
  PROVE  /\ Depth \in [{Root} \cup Paths -> Nat]
         /\ Depth[Root] = 0
         /\ \A n \in Paths : Depth[n] = Depth[tree.parent[n]] + 1
<1> DEFINE D(d) == d = [n \in Paths \cup {Root} |->
                          IF n = Root THEN 0 ELSE d[tree.parent[n]] + 1]
           m(k) == CHOOSE g : Measures(g, k)
           f == [n \in Paths \cup {Root} |-> m(n)[n]]
<1>1. ASSUME NEW k \in Nat PROVE Measures(m(k), k)
  BY MeasureExists
<1>2. \A n \in Paths \cup {Root} : n \in Nat
  BY Ancestry
<1> HIDE DEF m
<1>3. ASSUME NEW n \in Paths \cup {Root}
      PROVE  f[n] = IF n = Root THEN 0 ELSE f[tree.parent[n]] + 1
  <2>1. CASE n = Root
    <3>1. Measures(m(n), n)
      BY <1>1, <1>2
    <3>2. QED  BY <2>1, <3>1 DEF Measures
  <2>2. CASE n \in Paths /\ n # Root
    <3> DEFINE p == tree.parent[n]
    <3>1. /\ n \in Nat /\ p \in Nat /\ p <= n /\ p <= p /\ n <= n
          /\ p \in {Root} \cup Paths
      BY <2>2, Ancestry
    <3>2. Measures(m(n), n) /\ Measures(m(p), p)
      BY <1>1, <3>1
    <3>3. m(p)[p] = m(n)[p]
      <4> HIDE DEF p
      <4>1. QED  BY <3>1, <3>2, MeasureUnique
    <3>4. m(n)[n] = m(n)[p] + 1
      BY <2>2, <3>1, <3>2 DEF Measures
    <3>5. QED  BY <2>2, <3>1, <3>3, <3>4
  <2>3. QED  BY <2>1, <2>2
<1>4. D(f)
  BY <1>3
<1>5. Depth = CHOOSE d : D(d)
  BY DEF Depth
<1>6. D(Depth)
  <2> HIDE DEF D, f
  <2>1. D(CHOOSE d : D(d))
    BY <1>4
  <2>2. QED  BY <1>5, <2>1
<1>7. Depth[Root] = 0 /\ \A n \in Paths : Depth[n] = Depth[tree.parent[n]] + 1
  BY <1>6, Ancestry
<1>8. \A n \in Paths \cup {Root} : Depth[n] \in Nat
  <2> DEFINE Typed(k) == \A n \in Paths \cup {Root} : n <= k => Depth[n] \in Nat
             S == {k \in Nat : Typed(k)}
  <2>1. 0 \in S
    <3>1. \A n \in Paths \cup {Root} : n <= 0 => n = Root
      BY Ancestry
    <3>2. QED  BY <1>7, <3>1
  <2>2. ASSUME NEW k \in S PROVE k + 1 \in S
    <3>1. ASSUME NEW n \in Paths, n <= k + 1 PROVE Depth[n] \in Nat
      <4>1. /\ tree.parent[n] \in Paths \cup {Root}
            /\ tree.parent[n] <= k
        BY <3>1, Ancestry
      <4>2. Depth[tree.parent[n]] \in Nat
        BY <4>1
      <4>3. QED  BY <1>7, <4>2
    <3>2. Typed(k + 1)
      BY <1>7, <3>1
    <3>3. QED  BY <3>2
  <2>3. S = Nat
    <3> HIDE DEF S
    <3>1. S \in SUBSET Nat
      BY DEF S
    <3>2. QED  BY <2>1, <2>2, <3>1, SetInduction
  <2>4. ASSUME NEW n \in Paths \cup {Root} PROVE Depth[n] \in Nat
    <3>1. n \in S /\ n <= n
      BY <1>2, <2>3
    <3>2. QED  BY <3>1
  <2>5. QED  BY <2>4
<1>9. QED  BY <1>6, <1>7, <1>8

-----------------------------------------------------------------------------
(* The invariant holds initially. *)
LEMMA InitIInv == Init => IInv
<1> SUFFICES ASSUME Init PROVE IInv
  OBVIOUS
<1>1. IsTree(tree) /\ request.max \in Nat
  BY FsListAssumption DEF Init, Requests
<1>2. Listed = {} /\ Waiting = {Root}
  BY DEF Init, Listed, Waiting, ToSet
<1>3. IsInjective(entries) /\ IsInjective(queue)
  BY DEF Init, IsInjective
<1>4. Len(entries) = 0 /\ entries \in Seq(Paths)
  BY DEF Init
<1>5. TypeOK
  <2>1. queue \in Seq(tree.dirs)
    <3>1. Root \in tree.dirs
      BY <1>1 DEF IsTree
    <3>2. queue = <<Root>>
      BY DEF Init
    <3>3. \A S : \A x \in S : <<x>> \in Seq(S)
      OBVIOUS
    <3>4. QED  BY <3>1, <3>2, <3>3
  <2>2. QED  BY <1>4, <2>1 DEF Init, TypeOK
<1>6. Seen = {}
  BY <1>2 DEF Init, Seen
<1>7. Fresh
  BY <1>2, <1>3, <1>6 DEF Fresh
<1>8. Once
  BY <1>2, <1>3 DEF Init, Once
<1>9. Complete
  BY <1>2 DEF Complete, Due
<1>10. Phases
  BY DEF Init, Phases
<1>11. Bounded
  BY <1>1, <1>4 DEF Init, Bounded, Cap
<1>12. QED  BY <1>5, <1>7, <1>8, <1>9, <1>10, <1>11 DEF IInv

(* The next directory leaves the queue for good; nothing below it was seen.  *)
LEMMA NextDirectory ==
  ASSUME IInv, queue # <<>>, queue' = Tail(queue)
  PROVE  /\ queue' \in Seq(tree.dirs)
         /\ IsInjective(queue)'
         /\ Waiting = Waiting' \cup {Head(queue)}
         /\ Head(queue) \notin Waiting'
         /\ Children(Head(queue)) \cap Seen = {}
<1>1. queue \in Seq(tree.dirs) /\ IsInjective(queue)
  BY DEF IInv, TypeOK, Fresh
<1>2. /\ queue' \in Seq(tree.dirs) /\ IsInjective(queue)'
      /\ Waiting = Waiting' \cup {Head(queue)} /\ Head(queue) \notin Waiting'
  BY <1>1, Taken DEF Waiting
<1>3. Children(Head(queue)) \cap Seen = {}
  BY <1>2 DEF IInv, Fresh, Children
<1>4. QED  BY <1>2, <1>3

(* A directory whose children are seen, or lost: OpenDir and OpenFails.      *)
LEMMA DirectoryTaken ==
  ASSUME IInv, pc = "next", queue # <<>>, queue' = Tail(queue),
         UNCHANGED <<inputs, entries, truncated>>,
         NEW S \in SUBSET Children(Head(queue)), unread' = S,
         lost' = lost \cup (Children(Head(queue)) \ S)
  PROVE  /\ Fresh' /\ Once' /\ Bounded'
         /\ unread' \subseteq Paths' /\ lost' \subseteq Paths'
         /\ queue' \in Seq(tree'.dirs)
         /\ \A n \in Paths' : Due(n)' =>
              n \in (Listed \cup unread)' \/ tree'.parent[n] \in Waiting'
<1> DEFINE d == Head(queue)
<1>1. /\ queue' \in Seq(tree.dirs) /\ IsInjective(queue)'
      /\ Waiting = Waiting' \cup {d} /\ d \notin Waiting'
      /\ Children(d) \cap Seen = {}
  BY NextDirectory
<1>2. /\ Listed' = Listed /\ Paths' = Paths /\ tree' = tree /\ request' = request
      /\ \A n : Skipped(n)' <=> Skipped(n)
  BY DEF Listed, Paths, Skipped, inputs
<1>3. Children(d) \subseteq Paths /\ \A n \in Children(d) : tree.parent[n] = d
  BY DEF Children
<1>4. unread = {} /\ ~truncated
  BY DEF IInv, Phases
<1> HIDE DEF d
<1>5. d \in Waiting /\ (d = Root \/ (request.recursive /\ d \in Listed))
  BY <1>1 DEF IInv, Fresh
<1>6. Seen' \subseteq Seen \cup Children(d)
  BY <1>2 DEF Seen, d
<1>7. Fresh'
  <2>1. \A n \in Seen' : \/ n \in Seen
                         \/ tree.parent[n] = d
    BY <1>3, <1>6
  <2>2. QED  BY <1>1, <1>2, <1>5, <2>1 DEF IInv, Fresh
<1>8. Once'
  BY <1>1, <1>2 DEF IInv, Once, Seen, d
<1>9. Bounded'
  BY <1>2 DEF IInv, Bounded, Cap
<1>10. unread' \subseteq Paths' /\ lost' \subseteq Paths'
  BY <1>2, <1>3 DEF IInv, TypeOK, d
<1>11. ASSUME NEW n \in Paths', Due(n)'
       PROVE  n \in (Listed \cup unread)' \/ tree'.parent[n] \in Waiting'
  <2>1. n \in Paths /\ Due(n)
    BY <1>2, <1>11 DEF Due
  <2>2. n \in Listed \/ tree.parent[n] \in Waiting
    BY <1>4, <2>1 DEF IInv, Complete
  <2>3. CASE tree.parent[n] = d
    <3>1. n \in Children(d)
      BY <2>1, <2>3 DEF Children
    <3>2. n \notin lost'
      BY <1>11 DEF Due
    <3>3. QED  BY <3>1, <3>2 DEF d
  <2>4. QED  BY <1>1, <1>2, <2>2, <2>3
<1>12. QED  BY <1>1, <1>2, <1>7, <1>8, <1>9, <1>10, <1>11

(* A path of the directory that is being read, passed over: it is not due.  *)
LEMMA PathPassed ==
  ASSUME IInv, NEW n \in unread, pc = "reading", unread' = unread \ {n},
         UNCHANGED <<inputs, pc, queue, entries, truncated>>,
         (lost' = lost /\ Skipped(n)) \/ lost' = lost \cup {n}
  PROVE  IInv'
<1>1. /\ Listed' = Listed /\ Paths' = Paths /\ Waiting' = Waiting
      /\ tree' = tree /\ request' = request /\ queue' = queue
      /\ entries' = entries /\ truncated' = truncated /\ pc' = pc
      /\ \A m : Skipped(m)' <=> Skipped(m)
  BY DEF Listed, Paths, Waiting, Skipped, inputs
<1>2. TypeOK'
  BY <1>1 DEF IInv, TypeOK, Requests
<1>3. Seen' \subseteq Seen
  BY <1>1 DEF Seen
<1>4. Fresh'
  BY <1>1, <1>3 DEF IInv, Fresh
<1>5. Once'
  BY <1>1 DEF IInv, Once
<1>6. Complete'
  <2>1. SUFFICES ASSUME NEW m \in Paths', Due(m)'
                 PROVE  m \in (Listed \cup unread)' \/ tree'.parent[m] \in Waiting'
    BY DEF Complete
  <2>2. Due(m) /\ m # n
    BY <1>1, <2>1 DEF Due
  <2>3. ~truncated
    BY DEF IInv, Phases
  <2>4. m \in Listed \cup unread \/ tree.parent[m] \in Waiting
    BY <1>1, <2>2, <2>3 DEF IInv, Complete
  <2>5. QED  BY <1>1, <2>2, <2>4
<1>7. Phases' /\ Bounded'
  BY <1>1 DEF IInv, Phases, Bounded, Cap
<1>8. QED  BY <1>2, <1>4, <1>5, <1>6, <1>7 DEF IInv

-----------------------------------------------------------------------------
(* Listing a path, last one or not, keeps the invariant. *)
LEMMA PathListed ==
  ASSUME IInv, NEW n \in Paths, ListEntry(n)
  PROVE  IInv'
<1>1. /\ pc = "reading" /\ n \in unread /\ ~Skipped(n)
      /\ entries' = Append(entries, n) /\ unread' = unread \ {n}
      /\ lost' = lost /\ tree' = tree /\ request' = request
  BY DEF ListEntry, inputs
<1> DEFINE full == Len(entries) + 1 >= request.max
           enter == request.recursive /\ n \in tree.dirs
<1>2. /\ full => truncated' = TRUE /\ pc' = "done" /\ queue' = queue
      /\ ~full => /\ queue' = IF enter THEN Append(queue, n) ELSE queue
                  /\ truncated' = truncated /\ pc' = pc
  BY DEF ListEntry
<1>3. /\ Paths' = Paths /\ Cap' = Cap /\ \A m : Skipped(m)' <=> Skipped(m)
  BY <1>1 DEF Paths, Skipped, Cap
<1>4. /\ entries' \in Seq(Paths) /\ Len(entries') = Len(entries) + 1
      /\ Listed' = Listed \cup {n}
      /\ n \notin Listed => IsInjective(entries')
  BY <1>1, Appended DEF IInv, TypeOK, Once, Listed
<1>5. n \notin Listed \cup lost /\ ~truncated
  BY <1>1 DEF IInv, Once, Phases
<1>6. n # Root /\ tree.parent[n] # n /\ request.max \in Nat /\ Len(entries) \in Nat
  BY Inputs DEF IInv, TypeOK
<1>7. n \notin Waiting
  BY <1>5, <1>6 DEF IInv, Fresh
<1>8. /\ queue' \in Seq(tree.dirs) /\ IsInjective(queue')
      /\ Waiting' = IF ~full /\ enter THEN Waiting \cup {n} ELSE Waiting
  <2>1. queue \in Seq(tree.dirs) /\ IsInjective(queue)
    BY DEF IInv, TypeOK, Fresh
  <2>2. CASE ~full /\ enter
    <3>1. n \in tree.dirs /\ queue' = Append(queue, n)
      BY <1>2, <2>2
    <3>2. /\ Append(queue, n) \in Seq(tree.dirs) /\ IsInjective(Append(queue, n))
          /\ ToSet(Append(queue, n)) = ToSet(queue) \cup {n}
      BY <1>7, <2>1, <3>1, Appended DEF Waiting
    <3>3. QED  BY <2>2, <3>1, <3>2 DEF Waiting
  <2>3. CASE ~(~full /\ enter)
    BY <1>2, <2>1, <2>3 DEF Waiting
  <2>4. QED  BY <2>2, <2>3
<1> HIDE DEF full, enter
<1>9. TypeOK'
  BY <1>1, <1>2, <1>3, <1>4, <1>8 DEF IInv, TypeOK, Requests
<1>10. Seen' = Seen /\ \A m \in Seen : tree.parent[m] # n
  <2>1. Seen' = Seen
    BY <1>1, <1>4 DEF Seen
  <2>2. QED  BY <1>5, <1>6, <2>1 DEF IInv, Fresh
<1>11. Fresh'
  <2>1. \A d \in Waiting' : d = Root \/ (request.recursive /\ d \in Listed')
    BY <1>4, <1>8 DEF IInv, Fresh, enter
  <2>2. \A m \in Seen : tree.parent[m] \notin Waiting'
    BY <1>8, <1>10 DEF IInv, Fresh
  <2>3. \A m \in Seen : \/ tree.parent[m] = Root
                        \/ request.recursive /\ tree.parent[m] \in Listed'
    BY <1>4 DEF IInv, Fresh
  <2>4. QED  BY <1>1, <1>8, <1>10, <2>1, <2>2, <2>3 DEF Fresh
<1>12. Once'
  <2>1. \A m \in Listed' : ~Skipped(m)
    BY <1>1, <1>4 DEF IInv, Once
  <2>2. (unread' \cap (Listed' \cup lost') = {}) /\ (Listed' \cap lost' = {})
    BY <1>1, <1>4, <1>5 DEF IInv, Once
  <2>3. QED  BY <1>3, <1>4, <1>5, <2>1, <2>2 DEF Once
<1>13. Complete'
  <2>1. SUFFICES ASSUME ~full, NEW m \in Paths, Due(m)'
                 PROVE  m \in (Listed \cup unread)' \/ tree.parent[m] \in Waiting'
    BY <1>1, <1>2, <1>3 DEF Complete
  <2>2. CASE tree.parent[m] = n
    <3>1. enter
      BY <1>1, <1>6, <2>1, <2>2, Inputs DEF Due, IInv, enter
    <3>2. QED  BY <1>8, <2>1, <2>2, <3>1
  <2>3. CASE tree.parent[m] # n
    <3>1. Due(m)
      BY <1>1, <1>3, <1>4, <2>1, <2>3 DEF Due
    <3>2. m \in Listed \cup unread \/ tree.parent[m] \in Waiting
      BY <1>1, <1>5, <3>1 DEF IInv, Complete
    <3>3. QED  BY <1>1, <1>4, <1>8, <3>2
  <2>4. QED  BY <2>2, <2>3
<1>14. Phases'
  BY <1>1, <1>2, <1>5 DEF Phases
<1>15. Bounded'
  <2>1. Len(entries) < Cap
    BY <1>5 DEF IInv, Bounded
  <2>2. CASE full
    BY <1>2, <1>3, <1>4, <1>6, <2>1, <2>2 DEF Bounded, Cap, full
  <2>3. CASE ~full
    BY <1>2, <1>3, <1>4, <1>5, <1>6, <2>1, <2>3 DEF Bounded, Cap, full
  <2>4. QED  BY <2>2, <2>3
<1>16. QED  BY <1>9, <1>11, <1>12, <1>13, <1>14, <1>15 DEF IInv

-----------------------------------------------------------------------------
(* The invariant is inductive. *)
THEOREM Inductive == Spec => []IInv
<1>1. Init => IInv
  BY InitIInv
<1>2. IInv /\ [Next]_vars => IInv'
  <2> SUFFICES ASSUME IInv, [Next]_vars PROVE IInv'
    OBVIOUS
  <2>1. CASE OpenDir
    <3>1. PICK S \in SUBSET Children(Head(queue)) :
            unread' = S /\ lost' = lost \cup (Children(Head(queue)) \ S)
      BY <2>1 DEF OpenDir
    <3>2. /\ pc = "next" /\ pc' = "reading" /\ queue # <<>> /\ queue' = Tail(queue)
          /\ UNCHANGED <<inputs, entries, truncated>>
      BY <2>1 DEF OpenDir
    <3>3. /\ Fresh' /\ Once' /\ Bounded'
          /\ unread' \subseteq Paths' /\ lost' \subseteq Paths'
          /\ queue' \in Seq(tree'.dirs)
          /\ \A n \in Paths' : Due(n)' =>
               n \in (Listed \cup unread)' \/ tree'.parent[n] \in Waiting'
      BY <3>1, <3>2, DirectoryTaken
    <3>4. TypeOK'
      BY <3>2, <3>3 DEF IInv, TypeOK, inputs, Paths, Requests
    <3>5. Complete' /\ Phases'
      BY <3>2, <3>3 DEF IInv, Complete, Phases
    <3>6. QED  BY <3>3, <3>4, <3>5 DEF IInv
  <2>2. CASE OpenFails
    <3>1. /\ pc = "next" /\ pc' = (IF Head(queue) = Root THEN "error" ELSE "next")
          /\ queue # <<>> /\ queue' = Tail(queue) /\ unread' = {}
          /\ lost' = lost \cup (Children(Head(queue)) \ {})
          /\ UNCHANGED <<inputs, entries, truncated>>
      BY <2>2 DEF OpenFails, IInv, Phases
    <3>2. {} \in SUBSET Children(Head(queue))
      OBVIOUS
    <3>3. /\ Fresh' /\ Once' /\ Bounded'
          /\ unread' \subseteq Paths' /\ lost' \subseteq Paths'
          /\ queue' \in Seq(tree'.dirs)
          /\ \A n \in Paths' : Due(n)' =>
               n \in (Listed \cup unread)' \/ tree'.parent[n] \in Waiting'
      BY <3>1, <3>2, DirectoryTaken
    <3>4. TypeOK'
      BY <3>1, <3>3 DEF IInv, TypeOK, inputs, Paths, Requests
    <3>5. Complete' /\ Phases'
      BY <3>1, <3>3 DEF IInv, Complete, Phases
    <3>6. QED  BY <3>3, <3>4, <3>5 DEF IInv
  <2>3. ASSUME UNCHANGED <<inputs, queue, unread, entries, truncated, lost>>
        PROVE  /\ Fresh' /\ Once' /\ Bounded' /\ (Paths' = Paths)
               /\ pc # "error" => Complete'
    <3>1. /\ Listed' = Listed /\ Paths' = Paths /\ Waiting' = Waiting /\ Cap' = Cap
          /\ \A n : Skipped(n)' <=> Skipped(n)
      BY <2>3 DEF Listed, Paths, Waiting, Skipped, inputs, Cap
    <3>2. Seen' = Seen /\ \A n : Due(n)' <=> Due(n)
      BY <2>3, <3>1 DEF Seen, Due, inputs
    <3>3. QED
      BY <2>3, <3>1, <3>2 DEF IInv, Fresh, Once, Bounded, Complete, inputs
  <2>4. CASE ReadFails
    BY <2>3, <2>4 DEF ReadFails, IInv, TypeOK, Phases, Complete, inputs, Requests
  <2>5. CASE DirEnds
    BY <2>3, <2>5 DEF DirEnds, IInv, TypeOK, Phases, inputs, Requests
  <2>6. CASE Finish
    BY <2>3, <2>6 DEF Finish, IInv, TypeOK, Phases, inputs, Requests
  <2>7. CASE \E n \in Paths : SkipHidden(n)
    BY <2>7, PathPassed DEF SkipHidden
  <2>8. CASE \E n \in Paths : MetadataFails(n)
    BY <2>8, PathPassed DEF MetadataFails
  <2>9. CASE \E n \in Paths : ListEntry(n)
    BY <2>9, PathListed
  <2>10. CASE UNCHANGED vars
    BY <2>3, <2>10 DEF vars, IInv, TypeOK, Phases, Complete, inputs, Requests,
                       Fresh, Once, Bounded, Waiting, Seen, Listed, Paths, Due, Skipped, Cap
  <2>11. QED
    BY <2>1, <2>2, <2>4, <2>5, <2>6, <2>7, <2>8, <2>9, <2>10 DEF Next
<1>3. QED  BY <1>1, <1>2, PTL DEF Spec

(* The variables keep their types. *)
THEOREM TypeCorrect == Spec => []TypeOK
<1>1. IInv => TypeOK
  BY DEF IInv
<1>2. QED  BY <1>1, Inductive, PTL

(* The listing has what was asked for and the operating system showed,     *)
(* once, and all of it unless it says that it was cut off                  *)
(* (fs_list.rs:23-74).                                                     *)
THEOREM ListsWhatIsDue == Spec => []ListingIsExact
<1>1. IInv => ListingIsExact
  <2> SUFFICES ASSUME IInv PROVE ListingIsExact
    OBVIOUS
  <2>1. ASSUME NEW n \in Listed PROVE Due(n)
    BY <2>1 DEF IInv, Fresh, Once, Seen, Due
  <2>2. ASSUME pc = "done", ~truncated, NEW n \in Paths, Due(n) PROVE n \in Listed
    <3>1. unread = {} /\ Waiting = {}
      BY <2>2 DEF IInv, Phases, Waiting, ToSet
    <3>2. QED  BY <2>2, <3>1 DEF IInv, Complete
  <2>3. IsInjective(entries)
    BY DEF IInv, Once
  <2>4. QED  BY <2>1, <2>2, <2>3 DEF ListingIsExact
<1>2. QED  BY <1>1, Inductive, PTL

(* A listing has max_entries entries at the most, and exactly so many if   *)
(* it is cut off, a max_entries of zero counting as one                    *)
(* (fs_list.rs:63-66).                                                     *)
THEOREM StaysBounded == Spec => []BoundIsKept
<1>1. IInv => BoundIsKept
  <2> SUFFICES ASSUME IInv PROVE BoundIsKept
    OBVIOUS
  <2>1. Len(entries) \in Nat /\ request.max \in Nat
    BY Inputs DEF IInv, TypeOK
  <2>2. Bounded /\ truncated \in BOOLEAN
    BY DEF IInv, TypeOK
  <2>3. Cap \in Nat
    BY <2>1 DEF Cap
  <2>4. Len(entries) <= Cap /\ (truncated => Len(entries) = Cap)
    <3> HIDE DEF Cap
    <3>1. CASE truncated
      BY <2>1, <2>2, <2>3, <3>1 DEF Bounded
    <3>2. CASE ~truncated
      BY <2>1, <2>2, <2>3, <3>2 DEF Bounded
    <3>3. QED  BY <3>1, <3>2
  <2>5. QED  BY <2>4 DEF BoundIsKept, Cap
<1>2. QED  BY <1>1, Inductive, PTL
-----------------------------------------------------------------------------
(* The order of the listing *)

Ascending(s) == \A i, j \in DOMAIN s : i < j => Depth[s[i]] <= Depth[s[j]]

(* The walk works through two depths at a time: what is read is one level  *)
(* below its directory, at least as deep as all that is listed, and at     *)
(* most as deep as what the directories still waiting hold.                *)
Layered ==
  /\ Ascending(entries)
  /\ Ascending(queue)
  /\ \A m \in Listed, d \in Waiting : Depth[m] <= Depth[d] + 1
  /\ \A n \in unread :
       /\ \A m \in Listed : Depth[m] <= Depth[n]
       /\ \A m \in unread : Depth[m] = Depth[n]
       /\ \A d \in Waiting : Depth[n] <= Depth[d] + 1

(* The depths of everything the walk holds are numbers.                    *)
LEMMA Depths ==
  ASSUME IInv
  PROVE  /\ \A n \in Listed \cup unread \cup Waiting : Depth[n] \in Nat
         /\ \A n \in Paths : Depth[n] = Depth[tree.parent[n]] + 1
         /\ Depth[Root] = 0
<1>1. Waiting \subseteq {Root} \cup Paths
  <2>1. queue \in Seq(tree.dirs) /\ tree.dirs \subseteq {Root} \cup Paths
    BY Inputs DEF IInv, TypeOK
  <2>2. QED  BY <2>1 DEF Waiting, ToSet
<1>2. Listed \subseteq Paths
  <2>1. entries \in Seq(Paths)
    BY DEF IInv, TypeOK
  <2>2. QED  BY <2>1 DEF Listed, ToSet
<1>3. unread \subseteq Paths
  BY DEF IInv, TypeOK
<1>4. QED  BY <1>1, <1>2, <1>3, DepthDefined DEF IInv

LEMMA AscendingAppend ==
  ASSUME NEW S, NEW s \in Seq(S), NEW x \in S, Ascending(s),
         \A y \in ToSet(s) : Depth[y] <= Depth[x]
  PROVE  Ascending(Append(s, x))
<1> DEFINE t == Append(s, x)
<1>1. /\ Len(s) \in Nat /\ DOMAIN s = 1..Len(s) /\ DOMAIN t = 1..(Len(s) + 1)
      /\ \A i \in 1..Len(s) : t[i] = s[i] /\ s[i] \in ToSet(s)
      /\ t[Len(s) + 1] = x
  BY DEF ToSet
<1> HIDE DEF t
<1>2. ASSUME NEW i \in DOMAIN t, NEW j \in DOMAIN t, i < j
      PROVE  Depth[t[i]] <= Depth[t[j]]
  <2>1. i \in 1..Len(s)
    BY <1>1, <1>2
  <2>2. CASE j \in 1..Len(s)
    BY <1>1, <1>2, <2>1, <2>2 DEF Ascending
  <2>3. CASE j = Len(s) + 1
    BY <1>1, <2>1, <2>3
  <2>4. QED  BY <1>1, <2>2, <2>3
<1>3. Ascending(t)
  BY <1>2 DEF Ascending
<1>4. QED  BY <1>3 DEF t

LEMMA AscendingTail ==
  ASSUME NEW S, NEW s \in Seq(S), s # <<>>, Ascending(s)
  PROVE  /\ Ascending(Tail(s))
         /\ \A y \in ToSet(Tail(s)) : Depth[Head(s)] <= Depth[y]
<1> DEFINE t == Tail(s)
<1>1. /\ Head(s) = s[1] /\ Len(s) \in Nat /\ Len(s) > 0
      /\ DOMAIN s = 1..Len(s) /\ DOMAIN t = 1..(Len(s) - 1)
      /\ \A i \in 1..(Len(s) - 1) : t[i] = s[i + 1]
  OBVIOUS
<1> HIDE DEF t
<1>2. \A i \in DOMAIN t : /\ i \in Int /\ i + 1 \in DOMAIN s /\ 1 < i + 1
                          /\ t[i] = s[i + 1]
  BY <1>1
<1>3. Ascending(t)
  <2> SUFFICES ASSUME NEW i \in DOMAIN t, NEW j \in DOMAIN t, i < j
               PROVE  Depth[t[i]] <= Depth[t[j]]
    BY DEF Ascending
  <2>1. i + 1 < j + 1
    BY <1>2
  <2>2. QED  BY <1>2, <2>1 DEF Ascending
<1>4. ASSUME NEW y \in ToSet(t) PROVE Depth[Head(s)] <= Depth[y]
  <2>1. PICK i \in DOMAIN t : y = t[i]
    BY DEF ToSet
  <2>2. 1 \in DOMAIN s
    BY <1>1
  <2>3. QED  BY <1>1, <1>2, <2>1, <2>2 DEF Ascending
<1>5. QED  BY <1>3, <1>4 DEF t

(* Layered with everything it reads spelt out, so that it is kept by steps *)
(* that take from queue and unread, or leave them alone.                   *)
LEMMA LayeredKept ==
  ASSUME IInv, Layered, tree' = tree, entries' = entries,
         queue' = queue, unread' \subseteq unread
  PROVE  Layered'
<1>1. Depth' = Depth
  BY DEF Depth, Paths
<1>2. Listed' = Listed /\ Waiting' = Waiting
  BY DEF Listed, Waiting
<1>3. QED  BY <1>1, <1>2 DEF Layered, Ascending

(* The children of the next directory are one level below it.              *)
LEMMA LayeredDescent ==
  ASSUME IInv, Layered, pc = "next", queue # <<>>, queue' = Tail(queue),
         UNCHANGED <<inputs, entries>>, unread' \subseteq Children(Head(queue))
  PROVE  Layered'
<1> DEFINE h == Head(queue)
<1>1. Depth' = Depth
  BY DEF Depth, Paths, inputs
<1>2. Listed' = Listed
  BY DEF Listed
<1>3. queue \in Seq(tree.dirs)
  BY DEF IInv, TypeOK
<1>4. /\ Waiting = Waiting' \cup {h}
      /\ Ascending(queue') /\ \A d \in Waiting' : Depth[h] <= Depth[d]
  BY <1>3, Taken, AscendingTail DEF Layered, Waiting
<1> HIDE DEF h
<1>5. \A n \in unread' : Depth[n] = Depth[h] + 1
  BY Depths DEF Children, h
<1>6. Depth[h] \in Nat /\ \A d \in Waiting' : Depth[d] \in Nat
  BY <1>4, Depths
<1>7. \A m \in Listed : Depth[m] <= Depth[h] + 1
  BY <1>4 DEF Layered
<1>8. \A n \in unread' : /\ \A m \in Listed : Depth[m] <= Depth[n]
                        /\ \A m \in unread' : Depth[m] = Depth[n]
                        /\ \A d \in Waiting' : Depth[n] <= Depth[d] + 1
  BY <1>4, <1>5, <1>6, <1>7
<1>9. Ascending(entries)' /\ Ascending(queue)'
  BY <1>1, <1>4 DEF Layered, Ascending
<1>10. \A m \in Listed', d \in Waiting' : Depth[m] <= Depth[d] + 1
  BY <1>2, <1>4 DEF Layered
<1>11. QED  BY <1>1, <1>2, <1>8, <1>9, <1>10 DEF Layered

(* A listed path is as deep as what is read with it, and is itself at      *)
(* least as deep as every directory that waits.                            *)
LEMMA LayeredListed ==
  ASSUME IInv, Layered, NEW n \in Paths, ListEntry(n)
  PROVE  Layered'
<1>1. /\ n \in unread /\ entries' = Append(entries, n) /\ unread' \subseteq unread
      /\ tree' = tree
      /\ queue' = queue \/ (n \in tree.dirs /\ queue' = Append(queue, n))
  BY DEF ListEntry, inputs
<1>2. Depth' = Depth
  BY <1>1 DEF Depth, Paths
<1>3. /\ entries \in Seq(Paths) /\ queue \in Seq(tree.dirs)
      /\ Listed' = Listed \cup {n}
      /\ Waiting' = Waiting \/ Waiting' = Waiting \cup {n}
  <2>1. entries \in Seq(Paths) /\ queue \in Seq(tree.dirs)
    BY DEF IInv, TypeOK
  <2>2. Listed' = Listed \cup {n}
    BY <1>1, <2>1, Appended DEF Listed
  <2>3. CASE n \in tree.dirs /\ queue' = Append(queue, n)
    <3>1. ToSet(Append(queue, n)) = ToSet(queue) \cup {n}
      BY <2>1, <2>3, Appended
    <3>2. QED  BY <2>1, <2>2, <2>3, <3>1 DEF Waiting
  <2>4. CASE queue' = queue
    BY <2>1, <2>2, <2>4 DEF Waiting
  <2>5. QED  BY <1>1, <2>3, <2>4
<1>4. \A m \in Listed : Depth[m] <= Depth[n]
  BY <1>1 DEF Layered
<1>5. \A d \in Waiting : Depth[d] <= Depth[n]
  <2>1. ASSUME NEW d \in Waiting PROVE Depth[d] <= Depth[n]
    <3>1. d = Root \/ d \in Listed
      BY DEF IInv, Fresh
    <3>2. QED  BY <1>1, <1>4, <3>1, Depths
  <2>2. QED  BY <2>1
<1>6. Ascending(entries)'
  <2>1. Ascending(Append(entries, n))
    BY <1>3, <1>4, AscendingAppend DEF Layered, Listed
  <2>2. QED  BY <1>1, <1>2, <2>1 DEF Ascending
<1>7. Ascending(queue)'
  <2>1. CASE queue' = queue
    BY <1>2, <2>1 DEF Layered, Ascending
  <2>2. CASE n \in tree.dirs /\ queue' = Append(queue, n)
    <3>1. Ascending(Append(queue, n))
      BY <1>3, <1>5, <2>2, AscendingAppend DEF Layered, Waiting
    <3>2. QED  BY <1>2, <2>2, <3>1 DEF Ascending
  <2>3. QED  BY <1>1, <2>1, <2>2
<1>8. Depth[n] \in Nat /\ \A m \in Listed \cup unread \cup Waiting : Depth[m] \in Nat
  BY <1>1, Depths
<1>9. \A m \in Listed', d \in Waiting' : Depth[m] <= Depth[d] + 1
  BY <1>1, <1>3, <1>4, <1>8 DEF Layered
<1>10. \A k \in unread' : /\ \A m \in Listed' : Depth[m] <= Depth[k]
                         /\ \A m \in unread' : Depth[m] = Depth[k]
                         /\ \A d \in Waiting' : Depth[k] <= Depth[d] + 1
  BY <1>1, <1>3, <1>8 DEF Layered
<1>11. QED  BY <1>2, <1>6, <1>7, <1>9, <1>10 DEF Layered

(* No path is listed after a deeper one, so that what max_entries cuts off *)
(* is what lies deepest (fs_list.rs:23-66).                                *)
THEOREM ListsNearestFirst == Spec => []BreadthFirst
<1>1. Init => Layered
  BY DEF Init, Layered, Ascending, Listed, ToSet
<1>2. IInv /\ Layered /\ [Next]_vars => Layered'
  <2> SUFFICES ASSUME IInv, Layered, [Next]_vars PROVE Layered'
    OBVIOUS
  <2>1. CASE OpenDir
    BY <2>1, LayeredDescent DEF OpenDir
  <2>2. CASE OpenFails
    <3>1. unread = {}
      BY <2>2 DEF OpenFails, IInv, Phases
    <3>2. QED  BY <2>2, <3>1, LayeredDescent DEF OpenFails
  <2>3. CASE ReadFails \/ DirEnds \/ Finish \/ UNCHANGED vars
    BY <2>3, LayeredKept DEF ReadFails, DirEnds, Finish, vars, inputs
  <2>4. CASE \E n \in Paths : SkipHidden(n) \/ MetadataFails(n)
    BY <2>4, LayeredKept DEF SkipHidden, MetadataFails, inputs
  <2>5. CASE \E n \in Paths : ListEntry(n)
    BY <2>5, LayeredListed
  <2>6. QED  BY <2>1, <2>2, <2>3, <2>4, <2>5 DEF Next
<1>3. Layered => BreadthFirst
  BY DEF Layered, Ascending, BreadthFirst
<1>4. QED  BY <1>1, <1>2, <1>3, Inductive, PTL DEF Spec

-----------------------------------------------------------------------------
(* The length of the walk *)

(* Directories that wait, or may still be found. *)
Unopened == {d \in tree.dirs : d \in Waiting \/ d \notin Listed \cup {Root}}

Stage == CASE pc = "reading" -> 2
           [] pc = "next" -> 1
           [] OTHER -> 0

(* A directory is worth more than all the steps it takes to read one.      *)
Remaining ==
  Cardinality(Unopened) * (Cardinality(Paths) + 3) + Cardinality(unread) + Stage

LEMMA Finite ==
  ASSUME IInv
  PROVE  /\ IsFiniteSet(Paths) /\ IsFiniteSet(unread) /\ IsFiniteSet(Unopened)
         /\ Cardinality(Paths) \in Nat /\ Cardinality(unread) \in Nat
         /\ Cardinality(Unopened) \in Nat
         /\ Cardinality(unread) <= Cardinality(Paths)
<1>1. IsFiniteSet(Paths)
  BY FsListAssumption DEF IInv, TypeOK, IsTree, Paths
<1>2. unread \in SUBSET Paths
  BY DEF IInv, TypeOK
<1>3. IsFiniteSet(unread) /\ Cardinality(unread) <= Cardinality(Paths)
  BY <1>1, <1>2, FS_Subset
<1>4. IsFiniteSet(Paths \cup {Root})
  BY <1>1, FS_AddElement
<1>5. Unopened \in SUBSET (Paths \cup {Root})
  BY Inputs DEF IInv, Unopened
<1>6. IsFiniteSet(Unopened)
  BY <1>4, <1>5, FS_Subset
<1>7. QED  BY <1>1, <1>3, <1>6, FS_CardinalityType

(* One directory less outweighs everything else. *)
LEMMA Outweighs ==
  ASSUME NEW r \in Nat, NEW s \in Nat, r < s, NEW m \in Nat,
         NEW x \in 0..(m + 2), NEW y \in Nat
  PROVE  r * (m + 3) + x < s * (m + 3) + y
<1>1. (r + 1) * (m + 3) <= s * (m + 3)
  <2>1. PICK k \in Nat : s = r + 1 + k
    <3>1. s - (r + 1) \in Nat
      OBVIOUS
    <3>2. QED  BY <3>1
  <2>2. s * (m + 3) = (r + 1) * (m + 3) + k * (m + 3)
    BY <2>1
  <2>3. k * (m + 3) \in Nat
    OBVIOUS
  <2>4. (r + 1) * (m + 3) \in Nat
    OBVIOUS
  <2>5. QED  BY <2>2, <2>3, <2>4
<1>2. (r + 1) * (m + 3) = r * (m + 3) + m + 3
  OBVIOUS
<1>3. r * (m + 3) \in Nat /\ s * (m + 3) \in Nat
  OBVIOUS
<1>4. QED  BY <1>1, <1>2, <1>3

(* Fewer directories, or as many and less to do in the one that is read.   *)
LEMMA Shrinks ==
  ASSUME IInv, IInv', Paths' = Paths, Unopened' \subseteq Unopened,
         \/ Unopened' # Unopened
         \/ Cardinality(unread') + Stage' < Cardinality(unread) + Stage
  PROVE  Remaining' < Remaining
<1> DEFINE r == Cardinality(Unopened')
           s == Cardinality(Unopened)
           m == Cardinality(Paths)
           x == Cardinality(unread') + Stage'
           y == Cardinality(unread) + Stage
<1>1. /\ r \in Nat /\ s \in Nat /\ m \in Nat
      /\ Cardinality(unread') \in Nat /\ Cardinality(unread') <= m
      /\ Cardinality(unread) \in Nat
  <2>1. unread' \in SUBSET Paths
    BY DEF IInv, TypeOK
  <2>2. /\ IsFiniteSet(unread') /\ IsFiniteSet(Unopened')
        /\ Cardinality(unread') <= Cardinality(Paths)
    BY <2>1, Finite, FS_Subset
  <2>3. QED  BY <2>2, Finite, FS_CardinalityType
<1>2. Stage' \in 0..2 /\ Stage \in 0..2
  BY DEF Stage
<1>3. x \in 0..(m + 2) /\ y \in Nat
  BY <1>1, <1>2
<1>4. Remaining' = r * (m + 3) + x /\ Remaining = s * (m + 3) + y
  <2>1. r * (m + 3) \in Nat /\ s * (m + 3) \in Nat
    BY <1>1
  <2>2. QED  BY <1>1, <1>2, <2>1 DEF Remaining
<1>5. r <= s /\ (r = s => Unopened' = Unopened)
  BY Finite, FS_Subset
<1> HIDE DEF r, s, m, x, y
<1>6. CASE r < s
  BY <1>1, <1>3, <1>4, <1>6, Outweighs
<1>7. CASE r = s
  <2>1. x < y
    BY <1>5, <1>7 DEF x, y, r, s
  <2>2. r * (m + 3) \in Nat
    BY <1>1
  <2>3. QED  BY <1>3, <1>4, <1>7, <2>1, <2>2
<1>8. QED  BY <1>1, <1>5, <1>6, <1>7

(* Every step of the walk leaves less to do, so that it ends after finitely *)
(* many steps in every order in which the operating system may show,       *)
(* withhold or refuse what is there (fs_list.rs:23-80).                    *)
THEOREM WalkShrinks == Spec => [](Remaining \in Nat) /\ [][Remaining' < Remaining]_vars
<1>1. IInv => Remaining \in Nat
  <2> SUFFICES ASSUME IInv PROVE Remaining \in Nat
    OBVIOUS
  <2>1. Stage \in Nat
    BY DEF Stage
  <2>2. QED  BY <2>1, Finite DEF Remaining
<1>2. IInv /\ IInv' /\ [Next]_vars => [Remaining' < Remaining]_vars
  <2> SUFFICES ASSUME IInv, IInv', Next PROVE Remaining' < Remaining
    OBVIOUS
  <2>1. CASE pc = "next" /\ queue # <<>> /\ queue' = Tail(queue)
             /\ UNCHANGED <<inputs, entries>>
    <3>1. queue \in Seq(tree.dirs) /\ IsInjective(queue)
      BY DEF IInv, TypeOK, Fresh
    <3>2. /\ Head(queue) \in Waiting /\ Waiting = Waiting' \cup {Head(queue)}
          /\ Head(queue) \notin Waiting'
      BY <2>1, <3>1, Taken DEF Waiting
    <3>3. Head(queue) \in tree.dirs
      BY <2>1, <3>1
    <3>4. Head(queue) = Root \/ Head(queue) \in Listed
      BY <3>2 DEF IInv, Fresh
    <3>5. Listed' = Listed /\ tree' = tree /\ Paths' = Paths
      BY <2>1 DEF Listed, Paths, inputs
    <3>6. Unopened' \subseteq Unopened
      BY <3>2, <3>5 DEF Unopened
    <3>7. Head(queue) \in Unopened /\ Head(queue) \notin Unopened'
      BY <3>2, <3>3, <3>4, <3>5 DEF Unopened
    <3>8. QED  BY <3>5, <3>6, <3>7, Shrinks
  <2>2. CASE /\ UNCHANGED <<inputs, queue, unread, entries>>
             /\ \/ pc = "reading" /\ pc' \in {"next", "error"}
                \/ pc = "next" /\ pc' = "done"
    <3>1. Listed' = Listed /\ Waiting' = Waiting /\ tree' = tree /\ Paths' = Paths
      BY <2>2 DEF Listed, Waiting, Paths, inputs
    <3>2. Unopened' = Unopened
      BY <3>1 DEF Unopened
    <3>3. Stage' < Stage /\ Stage \in Nat /\ Stage' \in Nat
      BY <2>2 DEF Stage
    <3>4. Cardinality(unread') + Stage' < Cardinality(unread) + Stage
      BY <2>2, <3>3, Finite
    <3>5. QED  BY <3>1, <3>2, <3>4, Shrinks
  <2>3. ASSUME NEW n \in unread, unread' = unread \ {n}, pc = "reading",
               tree' = tree, Unopened' \subseteq Unopened, pc' \in {"reading", "done"}
        PROVE  Remaining' < Remaining
    <3>1. Paths' = Paths
      BY <2>3 DEF Paths
    <3>2. Cardinality(unread') = Cardinality(unread) - 1
      BY <2>3, Finite, FS_RemoveElement
    <3>3. Stage' <= Stage /\ Stage \in Nat /\ Stage' \in Nat
      BY <2>3 DEF Stage
    <3>4. Cardinality(unread') + Stage' < Cardinality(unread) + Stage
      BY <3>2, <3>3, Finite
    <3>5. QED  BY <2>3, <3>1, <3>4, Shrinks
  <2>4. CASE \E n \in Paths : SkipHidden(n) \/ MetadataFails(n)
    <3>1. PICK n \in Paths : SkipHidden(n) \/ MetadataFails(n)
      BY <2>4
    <3>2. /\ n \in unread /\ unread' = unread \ {n} /\ pc = "reading" /\ pc' = "reading"
          /\ tree' = tree /\ queue' = queue /\ entries' = entries
      BY <3>1 DEF SkipHidden, MetadataFails, inputs
    <3>3. Unopened' \subseteq Unopened
      BY <3>2 DEF Unopened, Waiting, Listed
    <3>4. QED  BY <2>3, <3>2, <3>3
  <2>5. CASE \E n \in Paths : ListEntry(n)
    <3>1. PICK n \in Paths : ListEntry(n)
      BY <2>5
    <3>2. /\ n \in unread /\ unread' = unread \ {n} /\ pc = "reading"
          /\ pc' \in {"reading", "done"}
          /\ tree' = tree /\ entries' = Append(entries, n)
          /\ queue' = queue \/ (n \in tree.dirs /\ queue' = Append(queue, n))
      BY <3>1 DEF ListEntry, inputs
    <3>3. queue \in Seq(tree.dirs) /\ entries \in Seq(Paths)
      BY DEF IInv, TypeOK
    <3>4. Listed' = Listed \cup {n}
      BY <3>2, <3>3, Appended DEF Listed
    <3>5. Waiting' \subseteq Waiting \cup {n}
      <4>1. CASE queue' = queue
        BY <4>1 DEF Waiting
      <4>2. CASE n \in tree.dirs /\ queue' = Append(queue, n)
        <5>1. ToSet(Append(queue, n)) = ToSet(queue) \cup {n}
          BY <3>3, <4>2, Appended
        <5>2. QED  BY <4>2, <5>1 DEF Waiting
      <4>3. QED  BY <3>2, <4>1, <4>2
    <3>6. n \notin Listed \cup {Root}
      BY <3>2, Inputs DEF IInv, Once, TypeOK
    <3>7. Unopened' \subseteq Unopened
      BY <3>2, <3>4, <3>5, <3>6 DEF Unopened
    <3>8. QED  BY <2>3, <3>2, <3>7
  <2>6. CASE OpenDir \/ OpenFails
    BY <2>1, <2>6 DEF OpenDir, OpenFails
  <2>7. CASE ReadFails \/ DirEnds \/ Finish
    BY <2>2, <2>7 DEF ReadFails, DirEnds, Finish
  <2>8. QED  BY <2>4, <2>5, <2>6, <2>7 DEF Next
<1>3. QED  BY <1>1, <1>2, Inductive, PTL DEF Spec
=============================================================================
