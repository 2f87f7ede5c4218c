-------------------------- MODULE SpaceStackProofs --------------------------
(***************************************************************************)
(* Proofs about SpaceStack, for every syntax tree of every size.            *)
(*                                                                          *)
(* The open spaces are those around the node in hand; a branch pays for the *)
(* nesting it stands in; exactly the test code is pruned; and a space is    *)
(* closed once, inside out, and holds what stands in it.  Each of the four  *)
(* parts of the walk has an invariant that rests on the one before.         *)
(***************************************************************************)
EXTENDS SpaceStack, FiniteSetTheorems, WellFoundedInduction, TLAPS

(***************************************************************************)
(* Numbers and sorted sequences.                                            *)
(***************************************************************************)
\* Every set of numbers has a least one.
LEMMA Least == \A T \in SUBSET Nat : T # {} => \E m \in T : \A k \in T : m <= k
<1> DEFINE R == {ss \in Nat \X Nat : ss[1] < ss[2]}
<1>1. IsWellFoundedOn(R, Nat)
  BY NatLessThanWellFounded DEF OpToRel
<1> HIDE DEF R
<1> SUFFICES ASSUME NEW T \in SUBSET Nat, T # {} PROVE \E m \in T : \A k \in T : m <= k
  OBVIOUS
<1>2. PICK x \in T : \A y \in T : ~(<<y, x>> \in R)
  BY <1>1, WFMin
<1>3. \A y \in T : ~ (y < x)
  BY <1>2 DEF R
<1> QED
  BY <1>3

\* A set of numbers that goes on at every number it holds all smaller ones of
\* is all of them.
LEMMA Induct == \A T \in SUBSET Nat : 0 \in T /\ (\A n \in T : n + 1 \in T) => T = Nat
<1> SUFFICES ASSUME NEW T \in SUBSET Nat, 0 \in T, \A n \in T : n + 1 \in T, Nat \ T # {}
             PROVE  FALSE
  OBVIOUS
<1>1. PICK m \in Nat \ T : \A k \in Nat \ T : m <= k
  BY Least
<1>2. m - 1 \in Nat /\ m - 1 \in T /\ (m - 1) + 1 = m
  BY <1>1
<1> QED
  BY <1>2

Sorted(s) == \A i, j \in DOMAIN s : i < j => s[i] < s[j]

\* The members of a set of numbers can be put in order.
LEMMA CanSort ==
  ASSUME NEW S \in SUBSET Nat, NEW n \in Nat, \A x \in S : x < n
  PROVE  /\ IsFiniteSet(S) /\ Cardinality(S) \in Nat
         /\ \E s \in [1..Cardinality(S) -> S] : Sorted(s)
<1> DEFINE Upto(k) == {x \in S : x < k}
           Can(U) == /\ IsFiniteSet(U) /\ Cardinality(U) \in Nat
                     /\ \E s \in [1..Cardinality(U) -> U] : Sorted(s)
           T == {k \in Nat : Can(Upto(k))}
<1>0. \A x \in S : x \in Nat /\ x < n
  OBVIOUS
<1>1. Can({})
  <2> DEFINE s == [i \in 1..0 |-> 0]
             c == Cardinality({})
  <2>1. s \in [1..0 -> {}] /\ Sorted(s)
    BY DEF Sorted
  <2>2. IsFiniteSet({}) /\ c = 0
    BY FS_EmptySet
  <2>3. s \in [1..c -> {}]
    BY <2>1, <2>2
  <2> HIDE DEF s
  <2>4. \E s0 \in [1..c -> {}] : Sorted(s0)
    BY <2>1, <2>3
  <2> QED
    BY <2>2, <2>4
<1> HIDE DEF Can
<1>2. 0 \in T
  <2>1. ASSUME NEW x \in Upto(0) PROVE FALSE
    BY <1>0
  <2> HIDE DEF Upto
  <2>2. Upto(0) = {}
    BY <2>1
  <2> QED
    BY <1>1, <2>2
<1>3. ASSUME NEW k \in T PROVE k + 1 \in T
  <2>1. k \in Nat /\ Can(Upto(k))
    OBVIOUS
  <2>2. CASE k \notin S
    <3>1. ASSUME NEW x \in S PROVE x < k + 1 <=> x < k
      BY <1>0, <2>1, <2>2
    <3>2. Upto(k + 1) = Upto(k)
      BY <3>1
    <3> HIDE DEF Upto
    <3> QED
      BY <2>1, <3>2
  <2>3. CASE k \in S
    <3> DEFINE U == Upto(k)
               W == Upto(k + 1)
               c == Cardinality(U)
    <3>1. W = U \cup {k} /\ k \notin U /\ \A x \in U : x \in Nat /\ x < k
      <4>1. ASSUME NEW x \in S PROVE x < k + 1 <=> x < k \/ x = k
        BY <1>0, <2>1
      <4>2. W = U \cup {k}
        BY <2>3, <4>1
      <4> QED
        BY <1>0, <2>1, <4>2
    <3>2. PICK s \in [1..c -> U] : Sorted(s)
      BY <2>1 DEF Can
    <3>3. IsFiniteSet(U) /\ c \in Nat
      BY <2>1 DEF Can
    <3> HIDE DEF Upto, T, U
    <3>4. IsFiniteSet(W) /\ Cardinality(W) = c + 1
      BY <3>1, <3>3, FS_AddElement
    <3> HIDE DEF W, c
    <3> DEFINE t == [i \in 1..(c + 1) |-> IF i <= c THEN s[i] ELSE k]
    <3>5. t \in [1..(c + 1) -> W]
      BY <3>1, <3>2, <3>3
    <3>6. Sorted(t)
      <4> SUFFICES ASSUME NEW i \in 1..(c + 1), NEW j \in 1..(c + 1), i < j PROVE t[i] < t[j]
        BY DEF Sorted
      <4>1. i \in 1..c /\ t[i] = s[i] /\ s[i] \in U
        BY <3>2, <3>3
      <4>2. CASE j = c + 1
        BY <3>1, <3>3, <4>1, <4>2
      <4>3. CASE j # c + 1
        <5>1. j \in 1..c /\ t[j] = s[j]
          BY <3>3, <4>3
        <5> QED
          BY <3>2, <4>1, <5>1 DEF Sorted
      <4> QED
        BY <4>2, <4>3
    <3> HIDE DEF t
    <3>7. \E t0 \in [1..(c + 1) -> W] : Sorted(t0)
      BY <3>5, <3>6
    <3>8. Can(W)
      BY <3>3, <3>4, <3>7 DEF Can
    <3> QED
      BY <2>1, <3>8 DEF W, T
  <2> QED
    BY <2>2, <2>3
<1> HIDE DEF T
<1>4. T = Nat
  <2>1. T \in SUBSET Nat
    BY DEF T
  <2> QED
    BY <1>2, <1>3, <2>1, Induct
<1>5. Can(Upto(n))
  BY <1>4 DEF T
<1>6. Upto(n) = S
  BY <1>0
<1> HIDE DEF Upto
<1>7. Can(S)
  BY <1>5, <1>6
<1> QED
  BY <1>7 DEF Can

-----------------------------------------------------------------------------
(***************************************************************************)
(* The tree.                                                                *)
(***************************************************************************)
\* The input is a tree of the kinds it may have, numbered in source order.
TreeRight ==
  /\ parent \in [Node \ {1} -> Node] /\ \A n \in Node \ {1} : parent[n] < n
  /\ \A n \in Node \ {1, 2} : parent[n] \in {n - 1} \cup ancestors[n - 1]
  /\ DOMAIN kind = Node /\ kind[1] \in {"unit", "error"}
  /\ \A n \in Node \ {1} : kind[n] # "unit"
  /\ \A n \in Node : kind[n] \in RunMember => below(n) = {}
  /\ exclude_tests \in BOOLEAN

\* The nodes are the numbers from 1 to N.
LEMMA Nodes == /\ Node \subseteq Nat /\ 1 \in Node /\ N \in Node /\ N \in Nat
               /\ \A n \in Node : n >= 1 /\ n <= N
               /\ \A n \in Nat : n >= 1 /\ n <= N => n \in Node
BY SpaceAssumption DEF Node

\* What holds of a node when it holds of all smaller ones holds of all.
LEMMA NodeInduct ==
  \A T \in SUBSET Node :
    (\A n \in Node : (\A m \in Node : m < n => m \in T) => n \in T) => T = Node
<1> SUFFICES ASSUME NEW T \in SUBSET Node, Node \ T # {},
                    \A n \in Node : (\A m \in Node : m < n => m \in T) => n \in T
             PROVE  FALSE
  OBVIOUS
<1>1. PICK m \in Node \ T : \A k \in Node \ T : m <= k
  BY Least, Nodes
<1>2. \A k \in Node : k < m => k \in T
  BY <1>1, Nodes
<1> QED
  BY <1>1, <1>2

\* The ancestors are those of the parent and the parent itself.
LEMMA AncestorsUnfold ==
  ASSUME parent \in [Node \ {1} -> Node], \A n \in Node \ {1} : parent[n] < n
  PROVE  /\ DOMAIN ancestors = Node
         /\ ancestors[1] = {}
         /\ \A n \in Node \ {1} : ancestors[n] = {parent[n]} \cup ancestors[parent[n]]
<1> DEFINE At(g, n) == IF n = 1 THEN {} ELSE {parent[n]} \cup g[parent[n]]
           Upto(k) == {n \in Node : n <= k}
           Can(k) == \E g : DOMAIN g = Upto(k) /\ \A n \in Upto(k) : g[n] = At(g, n)
           T == {k \in Nat : Can(k)}
<1>1. 0 \in T
  <2> DEFINE g == [n \in Upto(0) |-> {}]
  <2>1. DOMAIN g = Upto(0)
    OBVIOUS
  <2>2. ASSUME NEW n \in Upto(0) PROVE FALSE
    BY Nodes
  <2> HIDE DEF g, Upto
  <2>3. Can(0)
    BY <2>1, <2>2
  <2> HIDE DEF Can
  <2> QED
    BY <2>3
<1>2. ASSUME NEW k \in T PROVE k + 1 \in T
  <2>0. k \in Nat
    OBVIOUS
  <2>1. PICK g : DOMAIN g = Upto(k) /\ \A n \in Upto(k) : g[n] = At(g, n)
    OBVIOUS
  <2> DEFINE h == [n \in Upto(k + 1) |-> At(g, n)]
  <2>2. DOMAIN h = Upto(k + 1)
    OBVIOUS
  <2>3. \A n \in Upto(k) : n \in Upto(k + 1)
    BY <2>0, Nodes
  <2>4. \A n \in Upto(k) : h[n] = g[n]
    BY <2>1, <2>3
  <2>5. ASSUME NEW n \in Upto(k + 1) PROVE h[n] = At(h, n)
    <3>1. CASE n = 1
      BY <3>1
    <3>2. CASE n # 1
      <4>1. parent[n] \in Upto(k)
        BY <2>0, <3>2, Nodes
      <4>2. h[parent[n]] = g[parent[n]]
        BY <2>4, <4>1
      <4> QED
        BY <3>2, <4>2
    <3> QED
      BY <3>1, <3>2
  <2> HIDE DEF h, Upto, At
  <2>6. Can(k + 1)
    BY <2>2, <2>5
  <2> HIDE DEF Can
  <2> QED
    BY <2>0, <2>6
<1>3. N \in T
  <2> HIDE DEF T
  <2>1. T \in SUBSET Nat
    BY DEF T
  <2>2. T = Nat
    BY <1>1, <1>2, <2>1, Induct
  <2> QED
    BY <2>2, Nodes
<1>4. Upto(N) = Node
  BY Nodes
<1> DEFINE Fits(g) == g = [n \in Node |-> IF n = 1 THEN {} ELSE {parent[n]} \cup g[parent[n]]]
<1>5. \E g : Fits(g)
  <2>1. PICK g : DOMAIN g = Upto(N) /\ \A n \in Upto(N) : g[n] = At(g, n)
    BY <1>3
  <2> HIDE DEF Upto
  <2>2. \A n \in Node : g[n] = At(g, n)
    BY <1>4, <2>1
  <2> DEFINE h == [n \in Node |-> g[n]]
  <2>3. \A n \in Node : h[n] = IF n = 1 THEN {} ELSE {parent[n]} \cup h[parent[n]]
    BY <2>2
  <2>4. Fits(h)
    BY <2>3
  <2> HIDE DEF h, Fits
  <2> QED
    BY <2>4
<1>6. ancestors = CHOOSE g : Fits(g)
  BY Zenon DEF ancestors
<1>7. Fits(ancestors)
  <2> HIDE DEF Fits
  <2> QED
    BY <1>5, <1>6
<1> QED
  BY <1>7, Nodes

\* Ancestors have smaller numbers, theirs are among them, the root is one, and
\* a node has the same ancestors as the one before, or that one too.
LEMMA AncestorFacts ==
  ASSUME TreeRight
  PROVE  /\ \A n \in Node : ancestors[n] \subseteq Node
         /\ \A n \in Node : \A m \in ancestors[n] : m < n /\ ancestors[m] \subseteq ancestors[n]
         /\ \A n \in Node \ {1} : /\ 1 \in ancestors[n]
                                  /\ ancestors[n] = {parent[n]} \cup ancestors[parent[n]]
                                  /\ parent[n] \in Node /\ parent[n] < n
                                  /\ ancestors[n] \subseteq {n - 1} \cup ancestors[n - 1]
         /\ ancestors[1] = {}
<1> DEFINE Fine(n) == /\ ancestors[n] \subseteq Node
                      /\ \A m \in ancestors[n] : m < n /\ ancestors[m] \subseteq ancestors[n]
                      /\ n # 1 => 1 \in ancestors[n]
           T == {n \in Node : Fine(n)}
<1>0. /\ \A n \in Node \ {1} : ancestors[n] = {parent[n]} \cup ancestors[parent[n]]
      /\ ancestors[1] = {}
      /\ \A n \in Node \ {1} : parent[n] \in Node /\ parent[n] < n
  BY AncestorsUnfold DEF TreeRight
<1>1. ASSUME NEW n \in Node, \A m \in Node : m < n => m \in T PROVE n \in T
  <2>1. CASE n = 1
    BY <1>0, <2>1
  <2>2. CASE n # 1
    <3>1. /\ parent[n] \in Node /\ parent[n] < n
          /\ ancestors[n] = {parent[n]} \cup ancestors[parent[n]]
      BY <1>0, <2>2
    <3>2. Fine(parent[n])
      BY <1>1, <3>1
    <3>3. ASSUME NEW m \in ancestors[parent[n]] PROVE m < n
      <4>1. m \in Node /\ m < parent[n]
        BY <3>2
      <4>2. m \in Nat /\ n \in Nat /\ parent[n] \in Nat
        BY <3>1, <4>1, Nodes
      <4> QED
        BY <3>1, <4>1, <4>2
    <3>4. 1 \in ancestors[n]
      BY <3>1, <3>2
    <3>5. \A m \in ancestors[n] : ancestors[m] \subseteq ancestors[n]
      BY <3>1, <3>2
    <3> QED
      BY <3>1, <3>2, <3>3, <3>4, <3>5
  <2> QED
    BY <2>1, <2>2
<1> HIDE DEF T
<1>2. T = Node
  <2>1. T \subseteq Node
    BY DEF T
  <2> QED
    BY <1>1, <2>1, NodeInduct
<1>3. \A n \in Node : Fine(n)
  BY <1>2 DEF T
<1>4. ASSUME NEW n \in Node \ {1} PROVE ancestors[n] \subseteq {n - 1} \cup ancestors[n - 1]
  <2>1. CASE n = 2
    <3>1. parent[n] \in Node /\ parent[n] < n
      BY <1>0
    <3>2. parent[n] \in Nat /\ parent[n] >= 1
      BY <3>1, Nodes
    <3>3. parent[n] = 1 /\ n - 1 = 1
      BY <2>1, <3>1, <3>2
    <3> QED
      BY <1>0, <3>3
  <2>2. CASE n # 2
    <3>1. parent[n] \in {n - 1} \cup ancestors[n - 1] /\ n - 1 \in Node
      BY <2>2, Nodes DEF TreeRight
    <3>2. Fine(n - 1)
      BY <1>3, <3>1
    <3> QED
      BY <1>0, <3>1, <3>2
  <2> QED
    BY <2>1, <2>2
<1> QED
  BY <1>0, <1>3, <1>4

\* What is below a node follows it without a gap.
LEMMA Between ==
  ASSUME TreeRight, NEW n \in Node, NEW m \in ancestors[n], NEW k \in Node, m < k, k <= n
  PROVE  m \in ancestors[k]
<1> DEFINE T == {j \in Nat : n - j >= k => m \in ancestors[n - j]}
<1>1. 0 \in T
  BY Nodes
<1>2. ASSUME NEW j \in T PROVE j + 1 \in T
  <2> SUFFICES ASSUME n - (j + 1) >= k PROVE m \in ancestors[n - (j + 1)]
    OBVIOUS
  <2> DEFINE q == n - j
  <2>1. j \in Nat /\ q \in Node /\ q # 1 /\ q - 1 >= k /\ q - 1 = n - (j + 1) /\ m \in ancestors[q]
    BY Nodes
  <2>2. ancestors[q] \subseteq {q - 1} \cup ancestors[q - 1]
    BY <2>1, AncestorFacts
  <2>3. m # q - 1
    <3>1. m \in Node
      BY AncestorFacts
    <3> QED
      BY <2>1, <3>1, Nodes
  <2> QED
    BY <2>1, <2>2, <2>3
<1>3. T = Nat
  <2>1. T \in SUBSET Nat
    OBVIOUS
  <2> HIDE DEF T
  <2> QED
    BY <1>1, <1>2, <2>1, Induct
<1>4. n - k \in Nat /\ n - (n - k) = k /\ k >= k
  BY Nodes
<1> QED
  BY <1>3, <1>4

-----------------------------------------------------------------------------
(***************************************************************************)
(* Sequences: the children of a node, the stack, the closing of spaces.     *)
(***************************************************************************)
\* The children of a node, each once, in source order.
LEMMA ChildrenFacts ==
  ASSUME NEW n \in Node
  PROVE  LET k == Cardinality(Kids(n))
             kids == children(n)
         IN  /\ k \in Nat /\ kids \in [1..k -> Kids(n)] /\ Sorted(kids)
             /\ \A m \in Kids(n) : \E i \in 1..k : kids[i] = m
<1> DEFINE S == Kids(n)
           k == Cardinality(S)
<1>1. S \in SUBSET Nat /\ N + 1 \in Nat /\ \A m \in S : m < N + 1
  <2>1. ASSUME NEW m \in S PROVE m \in Nat /\ m < N + 1
    <3>1. m \in Node
      BY DEF Kids
    <3> QED
      BY <3>1, Nodes
  <2> HIDE DEF S
  <2> QED
    BY <2>1, Nodes
<1> HIDE DEF S
<1>2. k \in Nat /\ IsFiniteSet(S) /\ \E s \in [1..k -> S] : Sorted(s)
  BY <1>1, CanSort
<1>3. children(n) = CHOOSE s \in [1..k -> S] : Sorted(s)
  BY DEF children, S, Sorted
<1>4. children(n) \in [1..k -> S] /\ Sorted(children(n))
  BY <1>2, <1>3
<1>5. \A i, j \in 1..k : i # j => children(n)[i] # children(n)[j]
  <2> SUFFICES ASSUME NEW i \in 1..k, NEW j \in 1..k, i < j PROVE children(n)[i] # children(n)[j]
    BY <1>2
  <2>1. children(n)[i] < children(n)[j] /\ children(n)[i] \in Nat /\ children(n)[j] \in Nat
    BY <1>1, <1>4 DEF Sorted
  <2> QED
    BY <2>1
<1>6. \A x \in S : \E i \in 1..k : children(n)[i] = x
  <2> DEFINE f == children(n)
  <2>1. f \in Injection(1..k, S)
    BY <1>4, <1>5 DEF Injection, IsInjective
  <2>2. IsFiniteSet(1..k) /\ Cardinality(1..k) = k
    BY <1>2, FS_Interval
  <2> HIDE DEF f
  <2>3. f \in Surjection(1..k, S)
    BY <1>2, <2>1, <2>2, FS_Injection
  <2> QED
    BY <2>3 DEF Surjection, f
<1> QED
  BY <1>2, <1>4, <1>6 DEF S

\* A sequence without its last element.
LEMMA FrontFacts ==
  ASSUME NEW S, NEW s \in Seq(S), s # <<>>
  PROVE  /\ Front(s) \in Seq(S) /\ Len(Front(s)) = Len(s) - 1
         /\ \A i \in 1..(Len(s) - 1) : Front(s)[i] = s[i]
         /\ Last(s) = s[Len(s)] /\ Last(s) \in S /\ Len(s) \in Nat /\ Len(s) > 0
<1> DEFINE n == Len(s)
<1>1. n \in Nat /\ n > 0 /\ n \in 1..n /\ n - 1 \in Nat /\ n - 1 <= n
  OBVIOUS
<1>2. \A i \in 1..n : s[i] \in S
  OBVIOUS
<1>3. Front(s) = SubSeq(s, 1, n - 1) /\ Last(s) = s[n]
  BY DEF Front, Last
<1>4. /\ SubSeq(s, 1, n - 1) \in Seq(S) /\ Len(SubSeq(s, 1, n - 1)) = n - 1
      /\ \A i \in 1..(n - 1) : SubSeq(s, 1, n - 1)[i] = s[i]
  <2>1. n - 1 \in 0..n
    BY <1>1
  <2>2. Len(SubSeq(s, 1, n - 1)) = n - 1
    BY <1>1
  <2>3. \A i \in 1..(n - 1) : SubSeq(s, 1, n - 1)[i] = s[i]
    BY <1>1
  <2>4. SubSeq(s, 1, n - 1) \in Seq(S)
    BY <1>1, <1>2
  <2> QED
    BY <2>2, <2>3, <2>4
<1> QED
  BY <1>1, <1>2, <1>3, <1>4

\* A frame, and what `finalize` works on.
Frame == [space : 0..N, kind : Space, counted : Seq(Node \X Nat),
          excluded : SUBSET Node, suppressed : SUBSET Node]
World == [open : Seq(Frame), finalized : Seq(0..N), spaces : SUBSET [frame : Frame, into : 0..N]]

\* What closing a space does while another one is open around it.
LEMMA CloseFacts ==
  ASSUME NEW w \in World, Len(w.open) > 1
  PROVE  LET n == Len(w.open)
             c == CloseInnermost(w)
         IN  /\ c \in World /\ Len(c.open) = n - 1
             /\ \A i \in 1..(n - 2) : c.open[i] = w.open[i]
             /\ c.open[n - 1] = merge(w.open[n - 1], w.open[n])
             /\ c.finalized = Append(w.finalized, w.open[n].space)
             /\ c.spaces = w.spaces \cup {[frame |-> w.open[n], into |-> w.open[n - 1].space]}
<1> DEFINE n == Len(w.open)
           o == w.open
           m == merge(o[n - 1], o[n])
<1>1. o \in Seq(Frame) /\ n \in Nat /\ n > 1 /\ n \in 1..n /\ n - 1 \in 1..n
  BY DEF World
<1>2. o[n] \in Frame /\ o[n - 1] \in Frame
  BY <1>1
<1>3. m \in Frame
  <2>1. /\ o[n - 1].counted \in Seq(Node \X Nat) /\ o[n].counted \in Seq(Node \X Nat)
        /\ o[n - 1].excluded \in SUBSET Node /\ o[n].excluded \in SUBSET Node
    BY <1>2 DEF Frame
  <2>2. o[n - 1].counted \o o[n].counted \in Seq(Node \X Nat)
    BY <2>1
  <2> QED
    BY <1>2, <2>1, <2>2 DEF merge, Frame
<1> DEFINE rest == Front(o)
<1> HIDE DEF o, Frame
<1>4. /\ rest \in Seq(Frame) /\ Len(rest) = n - 1 /\ rest # <<>>
      /\ \A i \in 1..(n - 1) : rest[i] = o[i]
      /\ Last(o) = o[n]
  <2>1. o # <<>> /\ n = Len(o)
    BY <1>1 DEF o
  <2>2. /\ rest \in Seq(Frame) /\ Len(rest) = Len(o) - 1 /\ Last(o) = o[Len(o)]
        /\ \A i \in 1..(Len(o) - 1) : rest[i] = o[i]
    BY <1>1, <2>1, FrontFacts
  <2>3. rest # <<>>
    BY <1>1, <2>1, <2>2
  <2> QED
    BY <2>1, <2>2, <2>3
<1> HIDE DEF rest
<1>6. /\ Front(rest) \in Seq(Frame) /\ Len(Front(rest)) = n - 2
      /\ \A i \in 1..(n - 2) : Front(rest)[i] = o[i]
      /\ Last(rest) = o[n - 1]
  <2>1. /\ Front(rest) \in Seq(Frame) /\ Len(Front(rest)) = Len(rest) - 1
        /\ \A i \in 1..(Len(rest) - 1) : Front(rest)[i] = rest[i]
        /\ Last(rest) = rest[Len(rest)]
    BY <1>4, FrontFacts
  <2>2. n - 1 \in 1..(n - 1) /\ \A i \in 1..(n - 2) : i \in 1..(n - 1)
    BY <1>1
  <2> QED
    BY <1>1, <1>4, <2>1, <2>2
<1>5. Last(o) = o[n] /\ Last(rest) = o[n - 1]
  BY <1>4, <1>6
<1> DEFINE open1 == Append(Front(rest), m)
<1>7. CloseInnermost(w) = [open |-> open1, finalized |-> Append(w.finalized, o[n].space),
                           spaces |-> w.spaces \cup {[frame |-> o[n], into |-> o[n - 1].space]}]
  BY <1>4, <1>5 DEF CloseInnermost, o, rest
<1> HIDE DEF m
<1>8. /\ open1 \in Seq(Frame) /\ Len(open1) = n - 1 /\ open1[n - 1] = m
      /\ \A i \in 1..(n - 2) : open1[i] = o[i]
  BY <1>1, <1>3, <1>6
<1>9. /\ Append(w.finalized, o[n].space) \in Seq(0..N)
      /\ w.spaces \cup {[frame |-> o[n], into |-> o[n - 1].space]} \in SUBSET [frame : Frame, into : 0..N]
  <2>1. o[n].space \in 0..N /\ o[n - 1].space \in 0..N
    BY <1>2 DEF Frame
  <2> QED
    BY <1>2, <2>1 DEF World
<1> HIDE DEF open1
<1>10. CloseInnermost(w) \in World
  BY <1>7, <1>8, <1>9 DEF World
<1> QED
  BY <1>7, <1>8, <1>10 DEF m, o

\* The last one is finalised where it stands.
LEMMA CloseLast ==
  ASSUME NEW w \in World, Len(w.open) = 1
  PROVE  /\ CloseInnermost(w) \in World
         /\ CloseInnermost(w) = [w EXCEPT !.finalized = Append(@, w.open[1].space)]
<1>1. w.open \in Seq(Frame) /\ Front(w.open) = <<>> /\ Last(w.open) = w.open[1]
  BY DEF World, Front, Last
<1>2. CloseInnermost(w) = [w EXCEPT !.finalized = Append(@, w.open[1].space)]
  BY <1>1 DEF CloseInnermost
<1>3. w.open[1] \in Frame /\ w.open[1].space \in 0..N
  <2>1. 1 \in 1..Len(w.open)
    OBVIOUS
  <2> HIDE DEF Frame
  <2>2. w.open[1] \in Frame
    BY <1>1, <2>1
  <2> QED
    BY <2>2 DEF Frame
<1>4. Append(w.finalized, w.open[1].space) \in Seq(0..N)
  BY <1>3 DEF World
<1> QED
  BY <1>2, <1>4 DEF World

Unclosed == [open |-> open, finalized |-> finalized, spaces |-> spaces]

\* `finalize` closes as many spaces as it is asked to, if there are as many.
LEMMA FinalizeInduct ==
  ASSUME NEW d \in Nat, Len(open) \in Nat, d <= Len(open),
         NEW P, Unclosed \in P[0],
         \A k \in 0..(d - 1) : \A w \in P[k] : CloseInnermost(w) \in P[k + 1]
  PROVE  finalize(d) \in P[d]
<1> DEFINE Rule(g, k) == IF k = 0 THEN Unclosed ELSE CloseInnermost(g[k - 1])
           Fits(g) == g = [k \in 0..d |-> IF k = 0 THEN Unclosed ELSE CloseInnermost(g[k - 1])]
           closed == CHOOSE g : Fits(g)
<1>1. Min({d, Len(open)}) = d
  <2> DEFINE S == {d, Len(open)}
  <2>1. d \in S /\ \A x \in S : d <= x
    OBVIOUS
  <2>2. \A x \in S : (\A y \in S : x <= y) => x = d
    OBVIOUS
  <2> HIDE DEF S
  <2> QED
    BY <2>1, <2>2 DEF Min
<1>2. finalize(d) = closed[d]
  <2> DEFINE fin(t) == LET c == CHOOSE g : g = [k \in 0..t |-> IF k = 0 THEN Unclosed
                                                        ELSE CloseInnermost(g[k - 1])]
                       IN  c[t]
  <2>1. finalize(d) = fin(Min({d, Len(open)}))
    BY Zenon DEF finalize, Unclosed
  <2> QED
    BY <1>1, <2>1, Zenon
<1> DEFINE Can(n) == \E g : DOMAIN g = 0..n /\ \A k \in 0..n : g[k] = Rule(g, k)
           T == {n \in Nat : Can(n)}
<1>3. 0 \in T
  <2> DEFINE g == [k \in 0..0 |-> Unclosed]
  <2>1. DOMAIN g = 0..0 /\ \A k \in 0..0 : g[k] = Unclosed /\ k = 0
    OBVIOUS
  <2> HIDE DEF g
  <2>2. Can(0)
    BY <2>1
  <2> HIDE DEF Can
  <2> QED
    BY <2>2
<1>4. ASSUME NEW n \in T PROVE n + 1 \in T
  <2>0. n \in Nat
    OBVIOUS
  <2>1. PICK g : DOMAIN g = 0..n /\ \A k \in 0..n : g[k] = Rule(g, k)
    OBVIOUS
  <2> DEFINE h == [k \in 0..(n + 1) |-> Rule(g, k)]
  <2>2. \A k \in 0..n : k \in 0..(n + 1) /\ h[k] = g[k]
    BY <2>0, <2>1
  <2>3. ASSUME NEW k \in 0..(n + 1) PROVE h[k] = Rule(h, k)
    <3>1. CASE k = 0
      BY <3>1
    <3>2. CASE k # 0
      <4>1. k - 1 \in 0..n
        BY <2>0, <3>2
      <4>2. h[k - 1] = g[k - 1]
        BY <2>2, <4>1
      <4> QED
        BY <3>2, <4>2
    <3> QED
      BY <3>1, <3>2
  <2>4. DOMAIN h = 0..(n + 1)
    OBVIOUS
  <2> HIDE DEF h, Rule
  <2>5. Can(n + 1)
    BY <2>3, <2>4
  <2> HIDE DEF Can
  <2> QED
    BY <2>0, <2>5
<1>5. d \in T
  <2> HIDE DEF T
  <2>1. T \in SUBSET Nat
    BY DEF T
  <2>2. T = Nat
    BY <1>3, <1>4, <2>1, Induct
  <2> QED
    BY <2>2
<1>6. Fits(closed)
  <2>1. PICK g : DOMAIN g = 0..d /\ \A k \in 0..d : g[k] = Rule(g, k)
    BY <1>5
  <2> DEFINE h == [k \in 0..d |-> g[k]]
  <2>2. ASSUME NEW k \in 0..d
        PROVE  h[k] = IF k = 0 THEN Unclosed ELSE CloseInnermost(h[k - 1])
    <3>1. CASE k = 0
      BY <2>1, <3>1
    <3>2. CASE k # 0
      <4>1. k - 1 \in 0..d
        BY <3>2
      <4>2. h[k] = CloseInnermost(g[k - 1]) /\ h[k - 1] = g[k - 1]
        BY <2>1, <3>2, <4>1
      <4> QED
        BY <3>2, <4>2
    <3> QED
      BY <3>1, <3>2
  <2>3. Fits(h)
    BY <2>2
  <2> HIDE DEF h, Fits
  <2> QED
    BY <2>3
<1> HIDE DEF closed
<1>7. closed[0] = Unclosed /\ \A k \in 0..(d - 1) : closed[k + 1] = CloseInnermost(closed[k])
  <2>1. 0 \in 0..d
    OBVIOUS
  <2>2. ASSUME NEW k \in 0..(d - 1) PROVE closed[k + 1] = CloseInnermost(closed[k])
    <3>1. k + 1 \in 0..d /\ k + 1 # 0 /\ (k + 1) - 1 = k
      OBVIOUS
    <3>2. closed[k + 1] = IF k + 1 = 0 THEN Unclosed ELSE CloseInnermost(closed[(k + 1) - 1])
      BY <1>6, <3>1
    <3> QED
      BY <3>1, <3>2
  <2> QED
    BY <1>6, <2>1, <2>2
<1> DEFINE Q == {k \in Nat : k <= d => closed[k] \in P[k]}
<1>8. 0 \in Q
  BY <1>7
<1>9. ASSUME NEW k \in Q PROVE k + 1 \in Q
  <2>1. k \in Nat
    OBVIOUS
  <2> SUFFICES ASSUME k + 1 <= d PROVE closed[k + 1] \in P[k + 1]
    BY <2>1
  <2>2. k \in 0..(d - 1) /\ closed[k] \in P[k]
    BY <2>1
  <2> QED
    BY <1>7, <2>2
<1> HIDE DEF Q
<1>10. Q = Nat
  <2>1. Q \in SUBSET Nat
    BY DEF Q
  <2> QED
    BY <1>8, <1>9, <2>1, Induct
<1> QED
  BY <1>2, <1>10 DEF Q

\* What closing a space keeps while another one is open, `finalize` keeps.
LEMMA FinalizeKeeps ==
  ASSUME Unclosed \in World, NEW d \in Nat, d = 0 \/ d < Len(open),
         NEW G, Unclosed \in G,
         \A w \in G : w \in World /\ Len(w.open) > 1 => CloseInnermost(w) \in G
  PROVE  /\ finalize(d) \in G /\ finalize(d) \in World
         /\ Len(finalize(d).open) = Len(open) - d
<1> DEFINE n == Len(open)
           Good(w, k) == w \in G /\ w \in World /\ Len(w.open) = n - k
           P == [k \in 0..d |-> {w \in World : Good(w, k)}]
<1>1. n \in Nat /\ d <= n /\ Unclosed.open = open
  BY DEF Unclosed, World
<1> HIDE DEF n
<1>2. Unclosed \in P[0]
  BY <1>1 DEF n
<1>3. ASSUME NEW k \in 0..(d - 1), NEW w \in P[k] PROVE CloseInnermost(w) \in P[k + 1]
  <2>1. k \in 0..d /\ k + 1 \in 0..d /\ n - k > 1 /\ (n - k) - 1 = n - (k + 1)
    BY <1>1 DEF n
  <2>2. w \in G /\ w \in World /\ Len(w.open) = n - k
    BY <2>1
  <2>3. CloseInnermost(w) \in G
    BY <2>1, <2>2
  <2>4. CloseInnermost(w) \in World /\ Len(CloseInnermost(w).open) = (n - k) - 1
    BY <2>1, <2>2, CloseFacts
  <2> QED
    BY <2>1, <2>3, <2>4
<1> HIDE DEF P
<1>4. finalize(d) \in P[d]
  BY <1>1, <1>2, <1>3, FinalizeInduct DEF n
<1> QED
  BY <1>4 DEF P, n

\* Closing all of them ends with the last one, finalised where it stands.
LEMMA FinalizeAll ==
  ASSUME Unclosed \in World, Len(open) > 0,
         NEW G, Unclosed \in G,
         \A w \in G : w \in World /\ Len(w.open) > 1 => CloseInnermost(w) \in G
  PROVE  \E w \in G : /\ w \in World /\ Len(w.open) = 1
                      /\ finalize(Len(open)) =
                           [w EXCEPT !.finalized = Append(@, w.open[1].space)]
<1> DEFINE n == Len(open)
           Ends == {w \in World : \E v \in G : v \in World /\ Len(v.open) = 1
                                             /\ w = CloseInnermost(v)}
           Goes0(k) == {w \in World : w \in G /\ Len(w.open) = n - k}
           P == [k \in 0..n |-> IF k = n THEN Ends ELSE Goes0(k)]
<1>1. n \in Nat /\ n > 0 /\ Unclosed.open = open
  BY DEF Unclosed, World
<1> HIDE DEF n
<1>2. Unclosed \in P[0]
  <2>1. Unclosed \in Goes0(0)
    BY <1>1 DEF n
  <2> HIDE DEF Goes0, Ends
  <2> QED
    BY <1>1, <2>1
<1>3. ASSUME NEW k \in 0..(n - 1), NEW w \in P[k] PROVE CloseInnermost(w) \in P[k + 1]
  <2>1. k \in 0..n /\ k + 1 \in 0..n /\ k # n /\ (n - k) - 1 = n - (k + 1)
    BY <1>1
  <2>2. w \in G /\ w \in World /\ Len(w.open) = n - k
    <3>1. w \in Goes0(k)
      <4> HIDE DEF Goes0, Ends
      <4> QED
        BY <2>1
    <3> QED
      BY <3>1
  <2>3. CASE k + 1 = n
    <3>1. Len(w.open) = 1
      BY <1>1, <2>2, <2>3
    <3>2. CloseInnermost(w) \in World
      BY <2>2, <3>1, CloseLast
    <3>3. CloseInnermost(w) \in Ends
      BY <2>2, <3>1, <3>2
    <3> HIDE DEF Goes0, Ends
    <3> QED
      BY <2>1, <2>3, <3>3
  <2>4. CASE k + 1 # n
    <3>1. n - k > 1
      BY <1>1, <2>4
    <3>2. /\ CloseInnermost(w) \in World /\ Len(CloseInnermost(w).open) = (n - k) - 1
          /\ CloseInnermost(w) \in G
      BY <2>2, <3>1, CloseFacts
    <3>3. CloseInnermost(w) \in Goes0(k + 1)
      BY <2>1, <3>2
    <3> HIDE DEF Goes0, Ends
    <3> QED
      BY <2>1, <2>4, <3>3
  <2> QED
    BY <2>3, <2>4
<1>4. n \in 0..n
  BY <1>1
<1> HIDE DEF P
<1>5. finalize(n) \in P[n]
  BY <1>1, <1>2, <1>3, FinalizeInduct DEF n
<1>6. PICK v \in G : v \in World /\ Len(v.open) = 1 /\ finalize(n) = CloseInnermost(v)
  <2>1. finalize(n) \in Ends
    <3> HIDE DEF Goes0, Ends
    <3> QED
      BY <1>4, <1>5 DEF P
  <2> QED
    BY <2>1
<1>7. CloseInnermost(v) = [v EXCEPT !.finalized = Append(@, v.open[1].space)]
  BY <1>6, CloseLast
<1> QED
  BY <1>6, <1>7 DEF n

-----------------------------------------------------------------------------
(***************************************************************************)
(* The walk, first part: what is open is what encloses the node in hand.    *)
(***************************************************************************)
Entry == [node : Node, level : Nat, depth : Nat]
Base == IF kind[1] = "unit" THEN 0 ELSE 1       \* spaces that no node opened
Members(c, n) == {c[k] : k \in 1..n}
Spaces(o, n) == {o[k].space : k \in 1..n}

NestingType == [conditional : Nat, function_depth : Nat, lambda : Nat]

TypeRight ==
  /\ stack \in Seq(Entry) /\ chain \in Seq(Node) /\ last_level \in Nat
  /\ Unclosed \in World
  /\ \A m \in DOMAIN nesting_map : nesting_map[m] \in NestingType
  /\ pc \in {"walk", "done"}

\* A waiting node follows the chain; its depth and its level are those of its
\* ancestors and of the spaces around it, and deeper ones wait on top.
StackRight ==
  /\ \A i, j \in 1..Len(stack) : i < j =>
       /\ stack[j].node < stack[i].node
       /\ stack[i].level <= stack[j].level
       /\ stack[i].depth <= stack[j].depth
  /\ \A i \in 1..Len(stack) :
       /\ stack[i].depth <= Len(chain)
       /\ Members(chain, stack[i].depth) = ancestors[stack[i].node]
       /\ stack[i].level + Base <= Len(open)
       /\ Spaces(open, stack[i].level + Base) = SpacesOf(ancestors[stack[i].node])
       /\ \A k \in 1..Len(chain) : chain[k] < stack[i].node

\* The chain is a node with its ancestors, outermost first.
ChainRight ==
  /\ \A j, k \in 1..Len(chain) : j < k => chain[j] < chain[k]
  /\ chain # <<>> => Members(chain, Len(chain)) = {Last(chain)} \cup ancestors[Last(chain)]

\* The open spaces are those on the chain, outermost first.
OpenRight ==
  /\ Len(open) = last_level + Base
  /\ \A i, j \in 1..Len(open) : i < j => open[i].space < open[j].space
  /\ Spaces(open, Len(open)) = SpacesOf(Members(chain, Len(chain)))

\* The walk starts at the root, and no verdict waits for it.
RootRight == /\ stack = <<>> => chain # <<>>
             /\ stack # <<>> /\ Top.node = 1 => ~run_verdict.skipped

WalkRight == pc = "walk" => StackRight /\ ChainRight /\ OpenRight /\ RootRight

\* The assumption of every lemma about a step of the walk.
Walking == pc = "walk" /\ TreeRight /\ TypeRight /\ StackRight /\ ChainRight /\ OpenRight
           /\ RootRight

\* The node on top, and how many spaces are closed before it is handled.
LEMMA TopFacts ==
  ASSUME Walking, stack # <<>>
  PROVE  LET d == last_level - Top.level
             l == Top.level + Base
         IN  /\ Len(stack) \in Nat /\ Len(stack) > 0 /\ Top = stack[Len(stack)]
             /\ Top \in Entry /\ Top.node \in Node /\ Top.level \in Nat /\ Top.depth \in Nat
             /\ Base \in 0..1 /\ Len(open) \in Nat /\ l \in Nat
             /\ d \in Nat /\ d <= Len(open) /\ Len(open) - d = l
             /\ Closed = finalize(d) /\ LevelHere = Top.level
             /\ Top.node = 1 => chain = <<>> /\ d = 0 /\ l = Base
             /\ Top.node # 1 => l > 0
<1> DEFINE s == Len(stack)
           n == Len(open)
           d == last_level - Top.level
           l == Top.level + Base
<1>1. s \in Nat /\ s > 0 /\ s \in 1..s /\ Top = stack[s] /\ Top \in Entry
  <2>1. stack \in Seq(Entry)
    BY DEF Walking, TypeRight
  <2> HIDE DEF Entry
  <2>2. s \in Nat /\ s > 0 /\ Last(stack) = stack[s] /\ Last(stack) \in Entry
    BY <2>1, FrontFacts
  <2> QED
    BY <2>2 DEF Top
<1>2. Top.node \in Node /\ Top.level \in Nat /\ Top.depth \in Nat
  BY <1>1 DEF Entry
<1>3. Base \in 0..1 /\ n \in Nat /\ last_level \in Nat /\ chain \in Seq(Node)
  BY DEF Base, Walking, TypeRight, World, Unclosed
<1>4. /\ Top.depth <= Len(chain) /\ Members(chain, Top.depth) = ancestors[Top.node]
      /\ l <= n /\ Spaces(open, l) = SpacesOf(ancestors[Top.node])
      /\ \A k \in 1..Len(chain) : chain[k] < Top.node
  BY <1>1 DEF Walking, StackRight
<1>5. n = last_level + Base
  BY DEF Walking, OpenRight
<1>6. d \in Nat /\ d <= n /\ n - d = l /\ l \in Nat
  BY <1>2, <1>3, <1>4, <1>5
<1>7. Closed = finalize(d) /\ LevelHere = Top.level
  <2>1. CASE Top.level < last_level
    BY <2>1 DEF Closed, LevelHere, Returned
  <2>2. CASE ~(Top.level < last_level)
    <3>1. d = 0 /\ Top.level = last_level
      BY <1>2, <1>3, <1>6, <2>2
    <3> QED
      BY <2>2, <3>1 DEF Closed, LevelHere, Returned
  <2> QED
    BY <2>1, <2>2
<1>8. ASSUME Top.node = 1 PROVE chain = <<>> /\ d = 0 /\ l = Base
  <2>1. ASSUME NEW k \in 1..Len(chain) PROVE FALSE
    <3>1. chain[k] \in Node /\ chain[k] < 1
      BY <1>3, <1>4, <1>8
    <3> QED
      BY <3>1 DEF Node
  <2>2. chain = <<>>
    BY <1>3, <2>1
  <2>3. Spaces(open, n) = IF kind[1] = "unit" THEN {} ELSE {Synthetic}
    <3>1. Members(chain, Len(chain)) = {}
      BY <2>1 DEF Members
    <3>2. Spaces(open, n) = SpacesOf(Members(chain, Len(chain)))
      BY DEF Walking, OpenRight
    <3> QED
      BY <3>1, <3>2 DEF SpacesOf
  <2>4. n = Base
    <3>1. CASE kind[1] = "unit"
      <4>1. \A k \in 1..n : FALSE
        BY <2>3, <3>1 DEF Spaces
      <4> QED
        BY <1>3, <3>1, <4>1 DEF Base
    <3>2. CASE kind[1] # "unit"
      <4>1. \A k \in 1..n : open[k].space = 0
        BY <2>3, <3>2 DEF Spaces, Synthetic
      <4>2. \A i, j \in 1..n : i < j => open[i].space < open[j].space
        BY DEF Walking, OpenRight
      <4>3. ~(n > 1)
        <5> SUFFICES ASSUME n > 1 PROVE FALSE
          OBVIOUS
        <5>1. 1 \in 1..n /\ 2 \in 1..n
          BY <1>3
        <5>2. open[1].space < open[2].space /\ open[1].space = 0 /\ open[2].space = 0
          BY <4>1, <4>2, <5>1
        <5> QED
          BY <5>2
      <4>4. Base = 1
        BY <3>2 DEF Base
      <4> QED
        BY <1>3, <1>5, <4>3, <4>4
    <3> QED
      BY <3>1, <3>2
  <2> QED
    BY <1>2, <1>3, <1>4, <1>5, <1>6, <2>2, <2>4
<1>9. ASSUME Top.node # 1 PROVE l > 0
  <2>1. SpacesOf(ancestors[Top.node]) # {}
    <3>1. 1 \in ancestors[Top.node]
      BY <1>2, <1>9, AncestorFacts DEF Walking
    <3> QED
      BY <3>1 DEF SpacesOf, Space
  <2>2. l # 0
    <3> SUFFICES ASSUME l = 0 PROVE FALSE
      OBVIOUS
    <3>1. Spaces(open, 0) = {}
      BY DEF Spaces
    <3> QED
      BY <1>4, <2>1, <3>1
  <2> QED
    BY <1>6, <2>2
<1> QED
  BY <1>1, <1>2, <1>3, <1>6, <1>7, <1>8, <1>9

\* A frame keeps its space and its kind when another one is merged into it.
LEMMA MergeFacts ==
  ASSUME NEW a \in Frame, NEW b
  PROVE  /\ merge(a, b).space = a.space /\ merge(a, b).kind = a.kind
         /\ merge(a, b).counted = a.counted \o b.counted
         /\ merge(a, b).excluded = a.excluded \cup b.excluded
         /\ merge(a, b).suppressed = a.suppressed
BY DEF merge, Frame

\* The spaces that stay open are the first ones, and they stay what they were.
LEMMA ClosedRight ==
  ASSUME Walking, stack # <<>>
  PROVE  LET o == Closed.open
             l == Top.level + Base
         IN  /\ Closed \in World /\ o \in Seq(Frame) /\ Len(o) = l
             /\ \A i \in 1..l : o[i].space = open[i].space /\ o[i].kind = open[i].kind
<1> DEFINE d == last_level - Top.level
           l == Top.level + Base
           Same(w) == \A i \in 1..Len(w.open) : /\ w.open[i].space = open[i].space
                                                /\ w.open[i].kind = open[i].kind
           G == {w \in World : Same(w)}
<1>1. /\ d \in Nat /\ Len(open) - d = l /\ Closed = finalize(d) /\ (d = 0 \/ d < Len(open))
  BY TopFacts
<1>2. Unclosed \in World /\ Unclosed.open = open
  BY DEF Walking, TypeRight, Unclosed
<1> HIDE DEF d, l
<1>3. Same(Unclosed)
  BY <1>2
<1>4. ASSUME NEW w \in World, Same(w), Len(w.open) > 1 PROVE Same(CloseInnermost(w))
  <2> DEFINE c == CloseInnermost(w)
             m == Len(w.open)
  <2>1. /\ Len(c.open) = m - 1
        /\ \A i \in 1..(m - 2) : c.open[i] = w.open[i]
        /\ c.open[m - 1] = merge(w.open[m - 1], w.open[m])
    BY <1>4, CloseFacts
  <2>2. w.open \in Seq(Frame) /\ m \in Nat /\ m - 1 \in 1..m
    BY <1>4 DEF World
  <2> HIDE DEF c, m
  <2> SUFFICES ASSUME NEW i \in 1..(m - 1)
               PROVE  c.open[i].space = open[i].space /\ c.open[i].kind = open[i].kind
    BY <2>1 DEF c
  <2>3. i \in 1..m /\ (i \in 1..(m - 2) \/ i = m - 1)
    BY <2>2
  <2>4. w.open[i].space = open[i].space /\ w.open[i].kind = open[i].kind
    BY <1>4, <2>3 DEF m
  <2>5. CASE i \in 1..(m - 2)
    BY <2>1, <2>4, <2>5
  <2>6. CASE i = m - 1
    <3>1. w.open[i] \in Frame
      <4> HIDE DEF Frame
      <4> QED
        BY <2>2, <2>3 DEF m
    <3>2. /\ merge(w.open[i], w.open[m]).space = w.open[i].space
          /\ merge(w.open[i], w.open[m]).kind = w.open[i].kind
      BY <3>1, MergeFacts
    <3> QED
      BY <2>1, <2>4, <2>6, <3>2
  <2> QED
    BY <2>3, <2>5, <2>6
<1> HIDE DEF Same
<1>5. Unclosed \in G /\ \A w \in G : w \in World /\ Len(w.open) > 1 => CloseInnermost(w) \in G
  <2>1. ASSUME NEW w \in G, Len(w.open) > 1 PROVE CloseInnermost(w) \in World
    BY <2>1, CloseFacts
  <2> QED
    BY <1>2, <1>3, <1>4, <2>1
<1> HIDE DEF G
<1>6. Closed \in G /\ Closed \in World /\ Len(Closed.open) = l
  BY <1>1, <1>2, <1>5, FinalizeKeeps
<1>7. Closed.open \in Seq(Frame)
  BY <1>6 DEF World
<1> QED
  BY <1>6, <1>7 DEF G, Same, l

\* The root is never pruned.
LEMMA RootStays ==
  ASSUME Walking, stack # <<>>, prunes_subtree
  PROVE  Top.node # 1
<1> SUFFICES ASSUME Top.node = 1 PROVE FALSE
  OBVIOUS
<1>1. ~run_verdict.skipped /\ Verdict.skipped
  BY DEF Walking, RootRight, prunes_subtree
<1>2. Verdict = should_skip_subtree(1)
  BY <1>1 DEF Verdict
<1>3. kind[1] \notin AttributeRow /\ kind[1] \notin Prunable
  BY DEF Walking, TreeRight, AttributeRow, Prunable
<1> QED
  BY <1>1, <1>2, <1>3 DEF should_skip_subtree

\* New contents of the innermost frame.
LEMMA InnermostFacts ==
  ASSUME NEW o \in Seq(Frame), Len(o) > 0, NEW f \in Frame
  PROVE  LET w == WithInnermost(o, f)
             n == Len(o)
         IN  /\ w \in Seq(Frame) /\ Len(w) = n /\ w[n] = f
             /\ \A i \in 1..(n - 1) : w[i] = o[i]
<1> HIDE DEF Frame
<1>1. /\ Front(o) \in Seq(Frame) /\ Len(Front(o)) = Len(o) - 1
      /\ \A i \in 1..(Len(o) - 1) : Front(o)[i] = o[i]
      /\ Len(o) \in Nat
  BY FrontFacts
<1> QED
  BY <1>1 DEF WithInnermost

\* What a node pays and hands down are numbers.
LEMMA NestingFacts ==
  ASSUME TypeRight
  PROVE  Inherited \in NestingType /\ Charge \in Nat /\ HandedDown \in NestingType
<1>1. Inherited \in NestingType
  BY DEF TypeRight, Inherited, Nesting, NestingType
<1>2. /\ Inherited.conditional \in Nat /\ Inherited.function_depth \in Nat
      /\ Inherited.lambda \in Nat
  BY <1>1 DEF NestingType
<1>3. Charge \in Nat
  BY <1>2 DEF Charge
<1>4. HandedDown \in NestingType
  <2>1. [Inherited EXCEPT !.conditional = @ + 1] \in NestingType
    BY <1>1, <1>2 DEF NestingType
  <2>2. [Inherited EXCEPT !.lambda = @ + 1] \in NestingType
    BY <1>1, <1>2 DEF NestingType
  <2>3. \A x \in {0, 1} : Nesting(0, Inherited.function_depth + x, 0) \in NestingType
    BY <1>2 DEF Nesting, NestingType
  <2> HIDE DEF NestingType
  <2> QED
    BY <1>1, <2>1, <2>2, <2>3 DEF HandedDown
<1> QED
  BY <1>1, <1>3, <1>4

FuncSpace == kind[Top.node] \in Space
FramesHere == IF FuncSpace THEN open_func_space(Closed.open) ELSE Closed.open
FreshFrame == [space |-> Top.node, kind |-> kind[Top.node], counted |-> <<>>,
               excluded |-> {}, suppressed |-> {}]

\* The frames in which a visited node is counted.
LEMMA FramesFacts ==
  ASSUME Walking, stack # <<>>
  PROVE  LET l == Top.level + Base
             m == Len(FramesHere)
         IN  /\ FramesHere \in Seq(Frame) /\ l \in Nat /\ m > 0 /\ m \in Nat
             /\ m = IF FuncSpace THEN l + 1 ELSE l
             /\ \A i \in 1..l : FramesHere[i] = Closed.open[i]
             /\ FuncSpace => FramesHere[m] = FreshFrame
<1> DEFINE l == Top.level + Base
           m == Len(FramesHere)
           o == Closed.open
<1>1. l \in Nat /\ Top.node \in Node /\ (Top.node # 1 => l > 0) /\ (Top.node = 1 => l = Base)
  BY TopFacts
<1>2. o \in Seq(Frame) /\ Len(o) = l
  BY ClosedRight
<1>3. CASE FuncSpace
  <2>1. FreshFrame \in Frame
    BY <1>1, <1>3 DEF FreshFrame, FuncSpace, Frame, Node
  <2> HIDE DEF Frame, l
  <2>2. FramesHere = Append(o, FreshFrame)
    BY <1>3 DEF FramesHere, open_func_space, FreshFrame
  <2> HIDE DEF o
  <2>3. /\ FramesHere \in Seq(Frame) /\ m = l + 1 /\ FramesHere[m] = FreshFrame
        /\ \A i \in 1..l : FramesHere[i] = o[i]
    BY <1>1, <1>2, <2>1, <2>2
  <2> QED
    BY <1>1, <1>3, <2>3 DEF l, o
<1>4. CASE ~FuncSpace
  <2>1. FramesHere = o
    BY <1>4 DEF FramesHere
  <2>2. l > 0
    <3>1. CASE Top.node = 1
      <4>1. kind[1] # "unit"
        BY <1>4, <3>1 DEF FuncSpace, Space
      <4> QED
        BY <1>1, <3>1, <4>1 DEF Base
    <3> QED
      BY <1>1, <3>1
  <2> QED
    BY <1>1, <1>2, <1>4, <2>1, <2>2
<1> QED
  BY <1>3, <1>4

\* What is open after a visit.
LEMMA VisitOpen ==
  ASSUME Walking, stack # <<>>
  PROVE  LET m == Len(FramesHere)
             new == compute_per_node(apply_suppression(FramesHere))
         IN  /\ new \in Seq(Frame) /\ Len(new) = m
             /\ \A i \in 1..m :
                  /\ new[i].space = FramesHere[i].space /\ new[i].kind = FramesHere[i].kind
                  /\ new[i].excluded = FramesHere[i].excluded
                  /\ new[i].suppressed = FramesHere[i].suppressed \cup
                       (IF i \in marker_target(FramesHere) THEN {Top.node} ELSE {})
                  /\ new[i].counted = IF i = m
                       THEN Append(FramesHere[m].counted, <<Top.node, Charge>>)
                       ELSE FramesHere[i].counted
<1> DEFINE m == Len(FramesHere)
           a == apply_suppression(FramesHere)
           new == compute_per_node(a)
           last == [a[m] EXCEPT !.counted = Append(@, <<Top.node, Charge>>)]
<1>1. FramesHere \in Seq(Frame) /\ m \in Nat /\ m > 0
  BY FramesFacts
<1>2. Top.node \in Node
  BY TopFacts
<1>3. Charge \in Nat
  BY NestingFacts DEF Walking
<1>4. ASSUME NEW i \in 1..m
      PROVE  /\ a[i] \in Frame
             /\ a[i].space = FramesHere[i].space /\ a[i].kind = FramesHere[i].kind
             /\ a[i].excluded = FramesHere[i].excluded
             /\ a[i].counted = FramesHere[i].counted
             /\ a[i].suppressed = FramesHere[i].suppressed \cup
                       (IF i \in marker_target(FramesHere) THEN {Top.node} ELSE {})
  <2>1. FramesHere[i] \in Frame /\ DOMAIN FramesHere = 1..m
    <3> HIDE DEF Frame
    <3> QED
      BY <1>1
  <2>2. CASE i \in marker_target(FramesHere)
    <3>1. a[i] = [FramesHere[i] EXCEPT !.suppressed = @ \cup {Top.node}]
      BY <2>1, <2>2 DEF apply_suppression
    <3> HIDE DEF a
    <3> QED
      BY <1>2, <2>1, <2>2, <3>1 DEF Frame
  <2>3. CASE i \notin marker_target(FramesHere)
    <3>1. a[i] = FramesHere[i]
      BY <2>1, <2>3 DEF apply_suppression
    <3> HIDE DEF a
    <3> QED
      BY <2>1, <2>3, <3>1
  <2> QED
    BY <2>2, <2>3
<1>5. a \in Seq(Frame) /\ Len(a) = m
  <2> HIDE DEF Frame
  <2>1. DOMAIN FramesHere = 1..m
    BY <1>1
  <2>2. DOMAIN a = 1..m /\ a = [i \in 1..m |-> a[i]]
    BY <2>1 DEF apply_suppression
  <2>3. \A i \in 1..m : a[i] \in Frame
    BY <1>4
  <2> HIDE DEF a
  <2> QED
    BY <1>1, <2>2, <2>3
<1> HIDE DEF a
<1>6. a[m] \in Frame /\ Last(a) = a[m] /\ a # <<>>
  <2>1. m \in 1..m
    BY <1>1
  <2> QED
    BY <1>1, <1>4, <1>5, <2>1 DEF Last
<1>7. /\ last \in Frame /\ last.space = a[m].space /\ last.kind = a[m].kind
      /\ last.excluded = a[m].excluded /\ last.suppressed = a[m].suppressed
      /\ last.counted = Append(a[m].counted, <<Top.node, Charge>>)
  <2>1. a[m].counted \in Seq(Node \X Nat)
    BY <1>6 DEF Frame
  <2>2. Append(a[m].counted, <<Top.node, Charge>>) \in Seq(Node \X Nat)
    BY <1>2, <1>3, <2>1
  <2> QED
    BY <1>6, <2>2 DEF Frame
<1>8. new = WithInnermost(a, last)
  BY <1>6 DEF compute_per_node
<1> HIDE DEF last, Frame, new, m
<1>81. a \in Seq(Frame) /\ Len(a) > 0 /\ last \in Frame
  BY <1>1, <1>5, <1>7
<1>9. /\ new \in Seq(Frame) /\ Len(new) = m /\ new[m] = last
      /\ \A i \in 1..(m - 1) : new[i] = a[i]
  BY <1>5, <1>8, <1>81, InnermostFacts
<1>10. ASSUME NEW i \in 1..m PROVE i = m \/ (i \in 1..(m - 1) /\ i # m)
  BY <1>1
<1>11. m \in 1..m
  BY <1>1
<1>12. ASSUME NEW i \in 1..m
       PROVE  /\ new[i].space = FramesHere[i].space /\ new[i].kind = FramesHere[i].kind
              /\ new[i].excluded = FramesHere[i].excluded
              /\ new[i].suppressed = FramesHere[i].suppressed \cup
                   (IF i \in marker_target(FramesHere) THEN {Top.node} ELSE {})
              /\ new[i].counted = IF i = m
                   THEN Append(FramesHere[m].counted, <<Top.node, Charge>>)
                   ELSE FramesHere[i].counted
  <2>1. CASE i = m
    <3>1. new[i] = last
      BY <1>9, <2>1
    <3> QED
      BY <1>4, <1>7, <1>11, <2>1, <3>1
  <2>2. CASE i \in 1..(m - 1) /\ i # m
    <3>1. new[i] = a[i]
      BY <1>9, <2>2
    <3> QED
      BY <1>4, <2>2, <3>1
  <2> QED
    BY <1>10, <2>1, <2>2
<1> QED
  BY <1>9, <1>12 DEF new, a, m

\* What is open after a node is pruned.
LEMMA PruneOpen ==
  ASSUME Walking, stack # <<>>, prunes_subtree
  PROVE  LET l == Top.level + Base
             o == Closed.open
             new == prune_node(o)
         IN  /\ new \in Seq(Frame) /\ Len(new) = l /\ l \in Nat /\ l > 0
             /\ \A i \in 1..l :
                  /\ new[i].space = o[i].space /\ new[i].kind = o[i].kind
                  /\ new[i].counted = o[i].counted
                  /\ new[i].suppressed = o[i].suppressed
                  /\ new[i].excluded = o[i].excluded \cup (IF i = l THEN {Top.node} ELSE {})
<1> DEFINE l == Top.level + Base
           o == Closed.open
           new == prune_node(o)
           last == [o[l] EXCEPT !.excluded = @ \cup {Top.node}]
<1>1. l \in Nat /\ l > 0 /\ Top.node \in Node
  BY TopFacts, RootStays
<1>2. o \in Seq(Frame) /\ Len(o) = l
  BY ClosedRight
<1>3. o[l] \in Frame /\ Last(o) = o[l] /\ l \in 1..l
  <2> HIDE DEF Frame
  <2> QED
    BY <1>1, <1>2 DEF Last
<1> HIDE DEF l, o
<1>4. /\ last \in Frame /\ last.space = o[l].space /\ last.kind = o[l].kind
      /\ last.counted = o[l].counted /\ last.suppressed = o[l].suppressed
      /\ last.excluded = o[l].excluded \cup {Top.node}
  BY <1>1, <1>3 DEF Frame
<1>5. new = WithInnermost(o, last)
  BY <1>3 DEF prune_node
<1> HIDE DEF last, Frame, new
<1>51. o \in Seq(Frame) /\ Len(o) > 0 /\ last \in Frame
  BY <1>1, <1>2, <1>4
<1>6. /\ new \in Seq(Frame) /\ Len(new) = l /\ new[l] = last
      /\ \A i \in 1..(l - 1) : new[i] = o[i]
  BY <1>2, <1>5, <1>51, InnermostFacts
<1>7. ASSUME NEW i \in 1..l PROVE i = l \/ (i \in 1..(l - 1) /\ i # l)
  BY <1>1
<1>8. \A i \in 1..l :
                  /\ new[i].space = o[i].space /\ new[i].kind = o[i].kind
                  /\ new[i].counted = o[i].counted
                  /\ new[i].suppressed = o[i].suppressed
                  /\ new[i].excluded = o[i].excluded \cup (IF i = l THEN {Top.node} ELSE {})
  BY <1>4, <1>6, <1>7
<1> QED
  BY <1>1, <1>6, <1>8 DEF new, l, o

NewLevel == IF FuncSpace THEN Top.level + 1 ELSE Top.level
Waiting(m) == [node |-> m, level |-> NewLevel, depth |-> Top.depth + 1]
Pushed == LET kids == children(Top.node) IN [i \in DOMAIN kids |-> Waiting(kids[i])]
StackVisited == Front(stack) \o Reverse(Pushed)

\* After a visit the children wait on top, the first of them topmost.
LEMMA PushFacts ==
  ASSUME Walking, stack # <<>>
  PROVE  LET s == Len(stack)
             k == Cardinality(Kids(Top.node))
             kids == children(Top.node)
         IN  /\ StackVisited \in Seq(Entry) /\ Len(StackVisited) = s - 1 + k
             /\ s \in Nat /\ s > 0 /\ k \in Nat
             /\ \A i \in 1..(s - 1) : StackVisited[i] = stack[i]
             /\ \A i \in s..(s - 1 + k) : /\ s + k - i \in 1..k
                                          /\ kids[s + k - i] \in Kids(Top.node)
                                          /\ StackVisited[i] = Waiting(kids[s + k - i])
<1> DEFINE s == Len(stack)
           k == Cardinality(Kids(Top.node))
           kids == children(Top.node)
           q == Pushed
           r == Reverse(q)
<1>1. /\ s \in Nat /\ s > 0 /\ Top.node \in Node /\ Top.level \in Nat /\ Top.depth \in Nat
      /\ stack \in Seq(Entry)
  BY TopFacts DEF Walking, TypeRight
<1>2. k \in Nat /\ kids \in [1..k -> Kids(Top.node)]
  BY <1>1, ChildrenFacts
<1> HIDE DEF k, kids
<1>3. ASSUME NEW m \in Kids(Top.node) PROVE Waiting(m) \in Entry
  <2>1. m \in Node
    BY DEF Kids
  <2> QED
    BY <1>1, <2>1 DEF Waiting, NewLevel, Entry
<1> HIDE DEF Entry
<1>4. q \in Seq(Entry) /\ Len(q) = k /\ \A i \in 1..k : q[i] = Waiting(kids[i])
  <2>1. q = [i \in 1..k |-> Waiting(kids[i])]
    BY <1>2 DEF Pushed, kids
  <2>2. \A i \in 1..k : Waiting(kids[i]) \in Entry
    BY <1>2, <1>3
  <2> HIDE DEF q
  <2> QED
    BY <1>2, <2>1, <2>2
<1> HIDE DEF q
<1>5. r \in Seq(Entry) /\ Len(r) = k /\ \A j \in 1..k : r[j] = q[k - j + 1]
  <2>1. r = [j \in 1..k |-> q[k - j + 1]]
    BY <1>4 DEF Reverse
  <2>2. \A j \in 1..k : q[k - j + 1] \in Entry
    <3>1. \A j \in 1..k : k - j + 1 \in 1..k
      BY <1>2
    <3>2. \A i \in 1..k : q[i] \in Entry
      BY <1>4
    <3> QED
      BY <3>1, <3>2
  <2> HIDE DEF r
  <2> QED
    BY <1>2, <2>1, <2>2
<1> HIDE DEF r
<1> DEFINE f == Front(stack)
<1>6. f \in Seq(Entry) /\ Len(f) = s - 1 /\ \A i \in 1..(s - 1) : f[i] = stack[i]
  <2>1. stack # <<>>
    OBVIOUS
  <2> QED
    BY <1>1, <2>1, FrontFacts
<1> HIDE DEF f, s
<1>7. /\ f \o r \in Seq(Entry) /\ Len(f \o r) = s - 1 + k
      /\ \A i \in 1..(s - 1) : (f \o r)[i] = f[i]
      /\ \A i \in s..(s - 1 + k) : (f \o r)[i] = r[i - (s - 1)]
  <2>1. f \o r \in Seq(Entry) /\ Len(f \o r) = s - 1 + k
    <3>1. f \in Seq(Entry) /\ r \in Seq(Entry)
      BY <1>5, <1>6
    <3>2. f \o r \in Seq(Entry)
      BY <3>1
    <3>3. Len(f \o r) = Len(f) + Len(r)
      BY <3>1
    <3> QED
      BY <1>5, <1>6, <3>2, <3>3
  <2>2. s - 1 \in Nat /\ Len(f) = s - 1 /\ Len(r) = k
    BY <1>1, <1>5, <1>6
  <2>3. \A i \in 1..(s - 1) : (f \o r)[i] = f[i]
    BY <1>2, <1>5, <1>6, <2>2
  <2>4. \A i \in s..(s - 1 + k) : (f \o r)[i] = r[i - (s - 1)]
    BY <1>1, <1>2, <1>5, <1>6, <2>2
  <2> QED
    BY <2>1, <2>3, <2>4
<1>8. StackVisited = f \o r
  BY DEF StackVisited, f, r, q
<1>9. ASSUME NEW i \in s..(s - 1 + k)
      PROVE  /\ s + k - i \in 1..k
             /\ kids[s + k - i] \in Kids(Top.node)
             /\ (f \o r)[i] = Waiting(kids[s + k - i])
  <2>1. i - (s - 1) \in 1..k /\ k - (i - (s - 1)) + 1 = s + k - i /\ s + k - i \in 1..k
    BY <1>1, <1>2
  <2>2. r[i - (s - 1)] = q[s + k - i]
    BY <1>5, <2>1
  <2> QED
    BY <1>2, <1>4, <1>7, <2>1, <2>2
<1> QED
  BY <1>1, <1>2, <1>6, <1>7, <1>8, <1>9 DEF s, k, kids

\* The ancestors of the node in hand are the chain up to its depth.
LEMMA HereFacts ==
  ASSUME Walking, stack # <<>>
  PROVE  LET p == Top.depth IN
         /\ Here \in Seq(Node) /\ Len(Here) = p /\ p \in Nat /\ p <= Len(chain)
         /\ Len(chain) \in Nat
         /\ \A k \in 1..p : Here[k] = chain[k] /\ Here[k] < Top.node /\ Here[k] \in Node
         /\ Members(Here, p) = ancestors[Top.node] /\ ToSet(Here) = ancestors[Top.node]
         /\ \A j, k \in 1..p : j < k => Here[j] < Here[k]
<1> DEFINE p == Top.depth
<1>1. /\ p \in Nat /\ p <= Len(chain) /\ chain \in Seq(Node)
      /\ Members(chain, p) = ancestors[Top.node]
      /\ \A k \in 1..Len(chain) : chain[k] < Top.node
  <2>1. Len(stack) \in 1..Len(stack) /\ Top = stack[Len(stack)] /\ p \in Nat
    BY TopFacts
  <2> QED
    BY <2>1 DEF Walking, StackRight, TypeRight
<1>2. \A j, k \in 1..Len(chain) : j < k => chain[j] < chain[k]
  BY DEF Walking, ChainRight
<1>3. Here = SubSeq(chain, 1, p)
  BY DEF Here
<1> HIDE DEF p
<1>4. Len(chain) \in Nat /\ \A k \in 1..p : k \in 1..Len(chain)
  BY <1>1
<1>5. Len(Here) = p /\ (\A k \in 1..p : Here[k] = chain[k])
  BY <1>1, <1>3, <1>4
<1>6. \A k \in 1..p : chain[k] \in Node
  BY <1>1, <1>4
<1>7. Here \in Seq(Node)
  BY <1>1, <1>3, <1>4, <1>6
<1>8. Members(Here, p) = Members(chain, p) /\ ToSet(Here) = Members(Here, p)
  <2>1. DOMAIN Here = 1..p
    BY <1>5, <1>7
  <2> QED
    BY <1>5, <2>1 DEF Members, ToSet
<1>9. \A k \in 1..p : Here[k] < Top.node /\ Here[k] \in Node
  BY <1>1, <1>4, <1>5, <1>6
<1>10. \A j, k \in 1..p : j < k => Here[j] < Here[k]
  BY <1>2, <1>4, <1>5
<1> QED
  BY <1>1, <1>4, <1>5, <1>7, <1>8, <1>9, <1>10 DEF p

\* What is below the node in hand comes before what was waiting already.
LEMMA BelowFirst ==
  ASSUME Walking, stack # <<>>, NEW i \in 1..(Len(stack) - 1), NEW m \in Node,
         Top.node \in ancestors[m]
  PROVE  m < stack[i].node
<1> DEFINE s == Len(stack)
           w == stack[i]
<1>1. s \in Nat /\ s > 0 /\ Top = stack[s] /\ i \in 1..s /\ s \in 1..s /\ i < s
  <2>1. s \in Nat /\ s > 0 /\ Top = stack[s]
    BY TopFacts
  <2>2. i \in 1..(s - 1)
    OBVIOUS
  <2> HIDE DEF s
  <2> QED
    BY <2>1, <2>2
<1>2. Top.node < w.node /\ Members(chain, w.depth) = ancestors[w.node] /\ w.depth <= Len(chain)
  BY <1>1 DEF Walking, StackRight
<1>3. Top.node \in Node /\ w.node \in Node /\ w.depth \in Nat
  <2>1. stack \in Seq(Entry)
    BY DEF Walking, TypeRight
  <2>2. w \in Entry
    <3> HIDE DEF Entry
    <3> QED
      BY <1>1, <2>1
  <2> QED
    BY <2>2, TopFacts DEF Entry
<1>4. Top.node \notin ancestors[w.node]
  <2> SUFFICES ASSUME NEW k \in 1..w.depth, chain[k] = Top.node PROVE FALSE
    BY <1>2 DEF Members
  <2>1. Len(chain) \in Nat /\ \A j \in 1..Len(chain) : chain[j] < Top.node
    <3>1. Len(chain) \in Nat
      BY HereFacts
    <3> QED
      BY <1>1, <3>1 DEF Walking, StackRight
  <2>2. k \in 1..Len(chain)
    BY <1>2, <1>3, <2>1
  <2>3. Top.node < Top.node /\ Top.node \in Nat
    BY <1>3, <2>1, <2>2 DEF Node
  <2> QED
    BY <2>3
<1> SUFFICES ASSUME ~(m < w.node) PROVE FALSE
  OBVIOUS
<1>5. w.node <= m
  BY <1>3, Nodes DEF Node
<1>6. Top.node \in ancestors[w.node]
  BY <1>2, <1>3, <1>5, Between DEF Walking
<1> QED
  BY <1>4, <1>6

\* What a waiting node relies on is kept while the chain and the open spaces
\* keep what the node in hand has around it.
LEMMA OldWaiting ==
  ASSUME Walking, stack # <<>>, NEW c, NEW o,
         Len(c) \in Nat, Top.depth <= Len(c), \A k \in 1..Top.depth : c[k] = chain[k],
         Len(o) \in Nat, Top.level + Base <= Len(o),
         \A k \in 1..(Top.level + Base) : o[k].space = open[k].space,
         NEW i \in 1..Len(stack)
  PROVE  /\ stack[i].depth \in Nat /\ stack[i].level \in Nat /\ stack[i].node \in Node
         /\ stack[i].depth <= Top.depth /\ stack[i].level <= Top.level
         /\ stack[i].depth <= Len(c)
         /\ Members(c, stack[i].depth) = ancestors[stack[i].node]
         /\ stack[i].level + Base <= Len(o)
         /\ Spaces(o, stack[i].level + Base) = SpacesOf(ancestors[stack[i].node])
<1> DEFINE s == Len(stack)
           w == stack[i]
<1>1. /\ s \in Nat /\ s > 0 /\ Top = stack[s] /\ s \in 1..s /\ Base \in 0..1
      /\ Top.depth \in Nat /\ Top.level \in Nat
  BY TopFacts
<1>2. w.depth \in Nat /\ w.level \in Nat /\ w.node \in Node
  <2>1. stack \in Seq(Entry)
    BY DEF Walking, TypeRight
  <2>2. w \in Entry
    <3> HIDE DEF Entry
    <3> QED
      BY <2>1
  <2> QED
    BY <2>2 DEF Entry
<1>3. w.depth <= Top.depth /\ w.level <= Top.level
  <2>1. CASE i = s
    BY <1>1, <1>2, <2>1
  <2>2. CASE i # s
    <3>1. i < s
      BY <1>1, <2>2
    <3> QED
      BY <1>1, <3>1 DEF Walking, StackRight
  <2> QED
    BY <2>1, <2>2
<1>4. /\ Members(chain, w.depth) = ancestors[w.node]
      /\ Spaces(open, w.level + Base) = SpacesOf(ancestors[w.node])
  BY DEF Walking, StackRight
<1> HIDE DEF w
<1>5. \A k \in 1..w.depth : k \in 1..Top.depth
  BY <1>1, <1>2, <1>3
<1>6. Members(c, w.depth) = Members(chain, w.depth)
  BY <1>5 DEF Members
<1>7. \A k \in 1..(w.level + Base) : k \in 1..(Top.level + Base)
  BY <1>1, <1>2, <1>3
<1>8. Spaces(o, w.level + Base) = Spaces(open, w.level + Base)
  BY <1>7 DEF Spaces
<1>9. w.depth <= Len(c) /\ w.level + Base <= Len(o)
  BY <1>1, <1>2, <1>3
<1> QED
  BY <1>2, <1>3, <1>4, <1>6, <1>8, <1>9 DEF w

\* What depends on the input only stays.
LEMMA InputKept ==
  ASSUME UNCHANGED input
  PROVE  /\ parent' = parent /\ kind' = kind /\ exclude_tests' = exclude_tests
         /\ ancestors' = ancestors /\ Base' = Base
         /\ (TreeRight => TreeRight')
         /\ \A S : SpacesOf(S)' = SpacesOf(S)
         /\ \A n : below(n)' = below(n) /\ Enclosing(n)' = Enclosing(n)
<1>1. parent' = parent /\ kind' = kind /\ exclude_tests' = exclude_tests
  BY DEF input
<1>2. ancestors' = ancestors
  BY <1>1 DEF ancestors
<1>3. Base' = Base /\ \A n : below(n)' = below(n)
  BY <1>1, <1>2 DEF Base, below
<1>4. \A S : SpacesOf(S)' = SpacesOf(S)
  BY <1>1 DEF SpacesOf
<1>5. \A n : Enclosing(n)' = Enclosing(n)
  BY <1>1, <1>2 DEF Enclosing, SpacesOf
<1>6. TreeRight => TreeRight'
  BY <1>1, <1>2, <1>3 DEF TreeRight
<1> QED
  BY <1>1, <1>2, <1>3, <1>4, <1>5, <1>6

\* The ancestors of a node are its parent with the parent's ancestors, and the
\* parent comes last.
LEMMA HereLast ==
  ASSUME Walking, stack # <<>>, Top.node # 1
  PROVE  /\ Top.depth > 0 /\ Last(Here) = parent[Top.node]
         /\ ancestors[Top.node] = {Last(Here)} \cup ancestors[Last(Here)]
<1> DEFINE p == Top.depth
           t == Top.node
           u == parent[t]
<1>1. /\ Here \in Seq(Node) /\ Len(Here) = p /\ p \in Nat /\ Members(Here, p) = ancestors[t]
      /\ \A j, k \in 1..p : j < k => Here[j] < Here[k]
      /\ \A k \in 1..p : Here[k] \in Node
  BY HereFacts
<1>2. /\ ancestors[t] = {u} \cup ancestors[u] /\ u \in Node
      /\ \A m \in ancestors[u] : m < u
  BY TopFacts, AncestorFacts DEF Walking
<1> HIDE DEF p, t, u
<1>3. PICK j \in 1..p : Here[j] = u
  BY <1>1, <1>2 DEF Members
<1>4. j = p
  <2> SUFFICES ASSUME j < p PROVE FALSE
    BY <1>1
  <2>1. p \in 1..p /\ u < Here[p]
    BY <1>1, <1>3
  <2>2. Here[p] \in {u} \cup ancestors[u]
    BY <1>1, <1>2, <2>1 DEF Members
  <2>3. Here[p] \in Nat /\ u \in Nat
    BY <1>1, <1>2, <2>1 DEF Node
  <2> QED
    BY <1>2, <2>1, <2>2, <2>3
<1>5. p > 0 /\ Last(Here) = u
  BY <1>1, <1>3, <1>4 DEF Last
<1> QED
  BY <1>2, <1>5 DEF p, t, u

\* A pruned node leaves the walk right.
LEMMA PruneKeeps ==
  ASSUME Walking, Prune
  PROVE  TreeRight' /\ TypeRight' /\ StackRight' /\ ChainRight' /\ OpenRight' /\ RootRight'
<1> DEFINE s == Len(stack)
           p == Top.depth
           l == Top.level + Base
<1>0. /\ stack # <<>> /\ prunes_subtree /\ pc' = "walk"
      /\ stack' = Front(stack) /\ chain' = Here /\ open' = prune_node(Closed.open)
      /\ finalized' = Closed.finalized /\ spaces' = Closed.spaces
      /\ last_level' = LevelHere /\ nesting_map' = SlotFreed
      /\ UNCHANGED input
  BY DEF Prune
<1>1. /\ ancestors' = ancestors /\ Base' = Base /\ TreeRight' /\ \A S : SpacesOf(S)' = SpacesOf(S)
  BY <1>0, InputKept DEF Walking
<1>2. /\ s \in Nat /\ s > 0 /\ Top = stack[s] /\ Top.node \in Node /\ Top.level \in Nat
      /\ p \in Nat /\ l \in Nat /\ LevelHere = Top.level
  BY <1>0, TopFacts
<1>3. Top.node # 1
  BY <1>0, RootStays
<1>4. /\ stack' \in Seq(Entry) /\ Len(stack') = s - 1
      /\ \A i \in 1..(s - 1) : stack'[i] = stack[i]
  <2> HIDE DEF Entry
  <2>1. stack \in Seq(Entry)
    BY DEF Walking, TypeRight
  <2> QED
    BY <1>0, <2>1, FrontFacts
<1>5. /\ Here \in Seq(Node) /\ Len(Here) = p
      /\ \A k \in 1..p : Here[k] = chain[k] /\ Here[k] < Top.node
      /\ Members(Here, p) = ancestors[Top.node]
      /\ \A j, k \in 1..p : j < k => Here[j] < Here[k]
  BY <1>0, HereFacts
<1>6. /\ Closed \in World /\ Len(Closed.open) = l
      /\ \A i \in 1..l : Closed.open[i].space = open[i].space
  BY <1>0, ClosedRight
<1>7. /\ open' \in Seq(Frame) /\ Len(open') = l
      /\ \A i \in 1..l : open'[i].space = open[i].space
  <2>1. /\ open' \in Seq(Frame) /\ Len(open') = l
        /\ \A i \in 1..l : open'[i].space = Closed.open[i].space
    BY <1>0, PruneOpen
  <2> QED
    BY <1>6, <2>1
<1> HIDE DEF p, l
<1>8. TypeRight'
  <2>1. Unclosed' \in World
    <3>1. Unclosed' = [open |-> open', finalized |-> Closed.finalized, spaces |-> Closed.spaces]
      BY <1>0 DEF Unclosed
    <3> QED
      BY <1>6, <1>7, <3>1 DEF World
  <2>2. \A m \in DOMAIN nesting_map' : nesting_map'[m] \in NestingType
    BY <1>0 DEF SlotFreed, Walking, TypeRight
  <2> QED
    BY <1>0, <1>2, <1>4, <1>5, <2>1, <2>2 DEF TypeRight
<1>9. ASSUME NEW i \in 1..s
      PROVE  /\ stack[i].depth <= Len(chain')
             /\ Members(chain', stack[i].depth) = ancestors[stack[i].node]
             /\ stack[i].level + Base <= Len(open')
             /\ Spaces(open', stack[i].level + Base) = SpacesOf(ancestors[stack[i].node])
  <2>1. /\ Len(chain') \in Nat /\ p <= Len(chain') /\ \A k \in 1..p : chain'[k] = chain[k]
    BY <1>0, <1>2, <1>5
  <2>2. Len(open') \in Nat /\ l <= Len(open') /\ \A k \in 1..l : open'[k].space = open[k].space
    BY <1>2, <1>7
  <2> QED
    BY <1>0, <2>1, <2>2, OldWaiting DEF p, l
<1>10. StackRight'
  <2>1. ASSUME NEW i \in 1..(s - 1), NEW j \in 1..(s - 1), i < j
        PROVE  /\ stack[j].node < stack[i].node
               /\ stack[i].level <= stack[j].level
               /\ stack[i].depth <= stack[j].depth
    <3>1. i \in 1..s /\ j \in 1..s
      BY <1>2
    <3> QED
      BY <2>1, <3>1 DEF Walking, StackRight
  <2>2. ASSUME NEW i \in 1..(s - 1), NEW k \in 1..Len(chain') PROVE chain'[k] < stack[i].node
    <3>1. i \in 1..s /\ k \in 1..Len(chain)
      BY <1>0, <1>2, <1>5, HereFacts DEF p
    <3>2. chain'[k] = chain[k]
      BY <1>0, <1>5
    <3> QED
      BY <3>1, <3>2 DEF Walking, StackRight
  <2>3. \A i \in 1..(s - 1) : i \in 1..s
    BY <1>2
  <2> QED
    BY <1>1, <1>4, <1>9, <2>1, <2>2, <2>3 DEF StackRight
<1>11. ChainRight' /\ Members(chain', Len(chain')) = ancestors[Top.node]
  <2>1. Last(chain)' = Last(Here)
    BY <1>0
  <2>2. ancestors[Top.node] = {Last(Here)} \cup ancestors[Last(Here)]
    BY <1>0, <1>3, HereLast
  <2> QED
    BY <1>0, <1>1, <1>5, <2>1, <2>2 DEF ChainRight
<1>12. OpenRight'
  <2>1. \A i, j \in 1..l : i < j => open[i].space < open[j].space
    <3>1. \A i \in 1..l : i \in 1..Len(open)
      BY <1>0, TopFacts DEF l
    <3> QED
      BY <3>1 DEF Walking, OpenRight
  <2>2. s \in 1..s
    BY <1>2
  <2>3. Spaces(open', l) = SpacesOf(ancestors[Top.node])
    BY <1>2, <1>9, <2>2 DEF l
  <2> QED
    BY <1>0, <1>1, <1>2, <1>7, <1>11, <2>1, <2>3 DEF OpenRight, l
<1>13. RootRight'
  <2>0. chain' # <<>>
    BY <1>0, <1>3, <1>5, HereLast DEF p
  <2> SUFFICES ASSUME stack' # <<>> PROVE Top.node' # 1
    BY <2>0 DEF RootRight
  <2>1. s - 1 \in 1..(s - 1) /\ s - 1 < s /\ s - 1 \in 1..s /\ s \in 1..s
    BY <1>2, <1>4
  <2>2. Top' = stack[s - 1]
    BY <1>4, <2>1 DEF Top, Last
  <2>3. Top.node < stack[s - 1].node
    BY <1>2, <2>1 DEF Walking, StackRight
  <2> QED
    BY <1>2, <2>2, <2>3 DEF Node
<1> QED
  BY <1>1, <1>8, <1>10, <1>11, <1>12, <1>13

\* The spaces around a node that is visited are those around its parent, and
\* itself if it is one.
LEMMA SpacesAdd ==
  \A S, n : SpacesOf({n} \cup S) = SpacesOf(S) \cup (IF kind[n] \in Space THEN {n} ELSE {})
BY DEF SpacesOf

\* A visited node leaves the walk right.
LEMMA VisitKeeps ==
  ASSUME Walking, Visit
  PROVE  TreeRight' /\ TypeRight' /\ StackRight' /\ ChainRight' /\ OpenRight' /\ RootRight'
<1> DEFINE s == Len(stack)
           p == Top.depth
           l == Top.level + Base
           m == Len(FramesHere)
           k0 == Cardinality(Kids(Top.node))
           t == Top.node
           z == Len(stack')
<1>0. /\ stack # <<>> /\ pc' = "walk"
      /\ stack' = StackVisited /\ chain' = Append(Here, t)
      /\ open' = compute_per_node(apply_suppression(FramesHere))
      /\ finalized' = Closed.finalized /\ spaces' = Closed.spaces
      /\ last_level' = NewLevel /\ nesting_map' = propagate_nesting_to_children
      /\ UNCHANGED input
  <2>1. LevelHere = Top.level
    BY TopFacts DEF Visit
  <2> QED
    BY <2>1 DEF Visit, StackVisited, Pushed, Waiting, NewLevel, FuncSpace, FramesHere
<1>1. /\ ancestors' = ancestors /\ Base' = Base /\ TreeRight' /\ \A S : SpacesOf(S)' = SpacesOf(S)
  BY <1>0, InputKept DEF Walking
<1>2. /\ s \in Nat /\ s > 0 /\ Top = stack[s] /\ t \in Node /\ Top.level \in Nat
      /\ p \in Nat /\ l \in Nat /\ s \in 1..s
  BY <1>0, TopFacts
<1>3. /\ stack' \in Seq(Entry) /\ z = s - 1 + k0 /\ k0 \in Nat
      /\ \A i \in 1..(s - 1) : stack'[i] = stack[i]
      /\ \A i \in s..z : /\ s + k0 - i \in 1..k0
                         /\ children(t)[s + k0 - i] \in Kids(t)
                         /\ stack'[i] = Waiting(children(t)[s + k0 - i])
  BY <1>0, PushFacts
<1>4. /\ Here \in Seq(Node) /\ Len(Here) = p
      /\ \A k \in 1..p : Here[k] = chain[k] /\ Here[k] < t /\ Here[k] \in Node
      /\ Members(Here, p) = ancestors[t] /\ p <= Len(chain) /\ Len(chain) \in Nat
      /\ \A j, k \in 1..p : j < k => Here[j] < Here[k]
  BY <1>0, HereFacts
<1>5. /\ chain' \in Seq(Node) /\ Len(chain') = p + 1 /\ chain'[p + 1] = t
      /\ \A k \in 1..p : chain'[k] = Here[k]
  BY <1>0, <1>2, <1>4
<1>6. /\ Closed \in World /\ Len(Closed.open) = l
      /\ \A i \in 1..l : Closed.open[i].space = open[i].space
  BY <1>0, ClosedRight
<1>7. /\ m \in Nat /\ m = IF FuncSpace THEN l + 1 ELSE l
      /\ \A i \in 1..l : FramesHere[i] = Closed.open[i]
      /\ FuncSpace => FramesHere[m] = FreshFrame
  BY <1>0, FramesFacts
<1>8. /\ open' \in Seq(Frame) /\ Len(open') = m
      /\ \A i \in 1..l : open'[i].space = open[i].space
      /\ FuncSpace => open'[l + 1].space = t
  <2>1. /\ open' \in Seq(Frame) /\ Len(open') = m
        /\ \A i \in 1..m : open'[i].space = FramesHere[i].space
    BY <1>0, VisitOpen
  <2>2. FreshFrame.space = t
    BY DEF FreshFrame
  <2>3. (\A i \in 1..l : i \in 1..m) /\ (FuncSpace => m \in 1..m /\ m = l + 1)
    BY <1>2, <1>7
  <2> QED
    BY <1>6, <1>7, <2>1, <2>2, <2>3
<1> HIDE DEF p, l, m, t, s, k0, z
<1>9. TypeRight'
  <2>1. Unclosed' \in World
    <3>1. Unclosed' = [open |-> open', finalized |-> Closed.finalized, spaces |-> Closed.spaces]
      BY <1>0 DEF Unclosed
    <3> QED
      BY <1>6, <1>8, <3>1 DEF World
  <2>2. \A x \in DOMAIN nesting_map' : nesting_map'[x] \in NestingType
    <3>1. HandedDown \in NestingType
      BY NestingFacts DEF Walking
    <3> QED
      BY <1>0, <3>1 DEF propagate_nesting_to_children, Walking, TypeRight
  <2>3. NewLevel \in Nat
    BY <1>2 DEF NewLevel
  <2> QED
    BY <1>0, <1>3, <1>5, <2>1, <2>2, <2>3 DEF TypeRight
<1>10. ASSUME NEW i \in 1..s
      PROVE  /\ stack[i].depth \in Nat /\ stack[i].level \in Nat /\ stack[i].node \in Node
             /\ stack[i].depth <= p /\ stack[i].level <= Top.level
             /\ stack[i].depth <= Len(chain')
             /\ Members(chain', stack[i].depth) = ancestors[stack[i].node]
             /\ stack[i].level + Base <= Len(open')
             /\ Spaces(open', stack[i].level + Base) = SpacesOf(ancestors[stack[i].node])
  <2>1. /\ Len(chain') \in Nat /\ p <= Len(chain') /\ \A k \in 1..p : chain'[k] = chain[k]
    BY <1>2, <1>4, <1>5
  <2>2. Len(open') \in Nat /\ l <= Len(open') /\ \A k \in 1..l : open'[k].space = open[k].space
    BY <1>2, <1>7, <1>8
  <2> QED
    BY <1>0, <2>1, <2>2, OldWaiting DEF p, l, s
<1>11. Members(chain', p + 1) = {t} \cup ancestors[t]
  <2>1. \A k \in 1..(p + 1) : k \in 1..p \/ k = p + 1
    BY <1>2
  <2>2. p + 1 \in 1..(p + 1) /\ \A k \in 1..p : k \in 1..(p + 1)
    BY <1>2
  <2>3. Members(chain', p + 1) = {t} \cup Members(Here, p)
    BY <1>5, <2>1, <2>2 DEF Members
  <2> QED
    BY <1>4, <2>3
<1>12. Spaces(open', m) = SpacesOf({t} \cup ancestors[t]) /\ m = NewLevel + Base
  <2>1. Spaces(open', l) = SpacesOf(ancestors[t])
    <3>1. stack[s] = Top /\ s \in 1..s
      BY <1>2
    <3> QED
      BY <1>10, <3>1 DEF l, t
  <2>2. SpacesOf({t} \cup ancestors[t])
          = SpacesOf(ancestors[t]) \cup (IF FuncSpace THEN {t} ELSE {})
    BY SpacesAdd DEF FuncSpace, t
  <2>3. CASE FuncSpace
    <3>1. \A k \in 1..(l + 1) : k \in 1..l \/ k = l + 1
      BY <1>2
    <3>2. l + 1 \in 1..(l + 1) /\ \A k \in 1..l : k \in 1..(l + 1)
      BY <1>2
    <3>3. Spaces(open', l + 1) = Spaces(open', l) \cup {t}
      BY <1>8, <2>3, <3>1, <3>2 DEF Spaces
    <3>4. m = l + 1 /\ m = NewLevel + Base
      BY <1>2, <1>7, <2>3, TopFacts, <1>0 DEF NewLevel, l
    <3> QED
      BY <2>1, <2>2, <2>3, <3>3, <3>4
  <2>4. CASE ~FuncSpace
    <3>1. m = l /\ m = NewLevel + Base
      BY <1>7, <2>4 DEF NewLevel, l
    <3> QED
      BY <2>1, <2>2, <2>4, <3>1
  <2> QED
    BY <2>3, <2>4
<1>13. ASSUME NEW x \in Kids(t)
       PROVE  /\ x \in Node /\ t < x /\ ancestors[x] = {t} \cup ancestors[t] /\ x # 1
              /\ \A i \in 1..(s - 1) : x < stack[i].node
  <2>1. x \in Node \ {1} /\ parent[x] = t
    BY DEF Kids
  <2>2. t < x /\ ancestors[x] = {t} \cup ancestors[t]
    BY <2>1, AncestorFacts DEF Walking
  <2>3. \A i \in 1..(s - 1) : x < stack[i].node
    BY <1>0, <2>1, <2>2, BelowFirst DEF t, s
  <2> QED
    BY <2>1, <2>2, <2>3
<1>14. ASSUME NEW i \in 1..z
       PROVE  \/ i \in 1..(s - 1) /\ i \in 1..s /\ stack'[i] = stack[i]
              \/ i \in s..z
  BY <1>2, <1>3
<1>15. ASSUME NEW i \in s..z
       PROVE  /\ stack'[i].node \in Kids(t) /\ stack'[i].node = children(t)[s + k0 - i]
              /\ stack'[i].level = NewLevel /\ stack'[i].depth = p + 1
  <2>1. PICK x \in Kids(t) : x = children(t)[s + k0 - i] /\ stack'[i] = Waiting(x)
    BY <1>3
  <2> QED
    BY <2>1 DEF Waiting, p
<1>16. StackRight'
  <2>1. ASSUME NEW i \in 1..z, NEW j \in 1..z, i < j
        PROVE  /\ stack'[j].node < stack'[i].node
               /\ stack'[i].level <= stack'[j].level
               /\ stack'[i].depth <= stack'[j].depth
    <3>1. CASE j \in 1..(s - 1) /\ j \in 1..s /\ stack'[j] = stack[j]
      <4>1. i \in 1..(s - 1) /\ i \in 1..s
        BY <1>2, <2>1, <3>1
      <4>2. stack'[i] = stack[i]
        BY <1>3, <4>1
      <4> QED
        BY <2>1, <3>1, <4>1, <4>2 DEF Walking, StackRight, s
    <3>2. CASE j \in s..z /\ i \in 1..(s - 1) /\ i \in 1..s /\ stack'[i] = stack[i]
      <4>1. stack'[j].node \in Kids(t) /\ stack'[j].level = NewLevel /\ stack'[j].depth = p + 1
        BY <1>15, <3>2
      <4>2. stack'[j].node < stack[i].node
        BY <1>13, <3>2, <4>1
      <4>3. stack[i].level <= NewLevel /\ stack[i].depth <= p + 1
        BY <1>2, <1>10, <3>2 DEF NewLevel
      <4> QED
        BY <3>2, <4>1, <4>2, <4>3
    <3>3. CASE j \in s..z /\ i \in s..z
      <4>1. /\ stack'[j].node = children(t)[s + k0 - j] /\ stack'[i].node = children(t)[s + k0 - i]
            /\ stack'[j].level = NewLevel /\ stack'[i].level = NewLevel /\ NewLevel \in Nat
            /\ stack'[j].depth = p + 1 /\ stack'[i].depth = p + 1
        BY <1>2, <1>15, <3>3 DEF NewLevel
      <4>2. s + k0 - j \in 1..k0 /\ s + k0 - i \in 1..k0 /\ s + k0 - j < s + k0 - i
        BY <1>2, <1>3, <2>1, <3>3
      <4>3. Sorted(children(t)) /\ DOMAIN children(t) = 1..k0
        BY <1>2, ChildrenFacts DEF k0, t
      <4>4. children(t)[s + k0 - j] < children(t)[s + k0 - i]
        BY <4>2, <4>3 DEF Sorted
      <4> QED
        BY <1>2, <4>1, <4>4
    <3> QED
      BY <1>14, <3>1, <3>2, <3>3
  <2>2. ASSUME NEW i \in 1..z
        PROVE  /\ stack'[i].depth <= Len(chain')
               /\ Members(chain', stack'[i].depth) = ancestors[stack'[i].node]
               /\ stack'[i].level + Base <= Len(open')
               /\ Spaces(open', stack'[i].level + Base) = SpacesOf(ancestors[stack'[i].node])
    <3>1. CASE i \in 1..(s - 1) /\ i \in 1..s /\ stack'[i] = stack[i]
      BY <1>10, <3>1
    <3>2. CASE i \in s..z
      <4>1. /\ stack'[i].node \in Kids(t) /\ stack'[i].level = NewLevel /\ stack'[i].depth = p + 1
        BY <1>15, <3>2
      <4>2. ancestors[stack'[i].node] = {t} \cup ancestors[t]
        BY <1>13, <4>1
      <4> QED
        BY <1>2, <1>5, <1>7, <1>8, <1>11, <1>12, <4>1, <4>2
    <3> QED
      BY <1>14, <3>1, <3>2
  <2>3. ASSUME NEW i \in 1..z, NEW k \in 1..Len(chain') PROVE chain'[k] < stack'[i].node
    <3>1. chain'[k] \in Node /\ (chain'[k] < t \/ chain'[k] = t)
      <4>1. k \in 1..p \/ k = p + 1
        BY <1>2, <1>5
      <4> QED
        BY <1>2, <1>4, <1>5, <4>1
    <3>2. t < stack'[i].node /\ stack'[i].node \in Node
      <4>1. CASE i \in 1..(s - 1) /\ i \in 1..s /\ stack'[i] = stack[i]
        <5>1. i < s
          BY <1>2, <4>1
        <5> QED
          BY <1>2, <1>10, <4>1, <5>1 DEF Walking, StackRight, s, t
      <4>2. CASE i \in s..z
        BY <1>13, <1>15, <4>2
      <4> QED
        BY <1>14, <4>1, <4>2
    <3> QED
      BY <1>2, <3>1, <3>2 DEF Node
  <2> QED
    BY <1>1, <2>1, <2>2, <2>3 DEF StackRight, z
<1>17. ChainRight' /\ Members(chain', Len(chain')) = {t} \cup ancestors[t]
  <2>1. Last(chain)' = t
    BY <1>5 DEF Last
  <2>2. ASSUME NEW j \in 1..(p + 1), NEW k \in 1..(p + 1), j < k PROVE chain'[j] < chain'[k]
    <3>1. j \in 1..p /\ (k \in 1..p \/ k = p + 1)
      BY <1>2, <2>2
    <3> QED
      BY <1>4, <1>5, <2>2, <3>1
  <2> QED
    BY <1>1, <1>5, <1>11, <2>1, <2>2 DEF ChainRight
<1>18. OpenRight'
  <2>1. \A i, j \in 1..l : i < j => open[i].space < open[j].space
    <3>1. \A i \in 1..l : i \in 1..Len(open)
      BY <1>0, TopFacts DEF l
    <3> QED
      BY <3>1 DEF Walking, OpenRight
  <2>2. ASSUME NEW i \in 1..l PROVE open[i].space < t
    <3>1. Spaces(open, l) = SpacesOf(ancestors[t])
      BY <1>2 DEF Walking, StackRight, s, l, t
    <3>2. open[i].space \in SpacesOf(ancestors[t])
      BY <3>1 DEF Spaces
    <3>3. open[i].space \in ancestors[t] \/ open[i].space = 0
      BY <3>2 DEF SpacesOf, Synthetic
    <3>4. \A n \in ancestors[t] : n < t
      BY <1>2, AncestorFacts DEF Walking
    <3> QED
      BY <1>2, <3>3, <3>4 DEF Node
  <2>3. ASSUME NEW i \in 1..m, NEW j \in 1..m, i < j PROVE open'[i].space < open'[j].space
    <3>1. i \in 1..l /\ (j \in 1..l \/ (FuncSpace /\ j = l + 1))
      BY <1>2, <1>7, <2>3
    <3> QED
      BY <1>8, <2>1, <2>2, <2>3, <3>1
  <2> QED
    BY <1>0, <1>1, <1>8, <1>12, <1>17, <2>3 DEF OpenRight
<1>19. RootRight'
  <2>0. chain' # <<>>
    BY <1>2, <1>5
  <2> SUFFICES ASSUME stack' # <<>> PROVE Top.node' # 1
    BY <2>0 DEF RootRight
  <2>1. z \in 1..z /\ Top' = stack'[z]
    BY <1>3 DEF Top, Last, z
  <2>2. CASE z \in s..z
    BY <1>13, <1>15, <2>1, <2>2
  <2>3. CASE z \in 1..(s - 1) /\ z \in 1..s /\ stack'[z] = stack[z]
    <3>1. z < s
      BY <1>2, <2>3
    <3>2. t < stack[z].node
      BY <1>2, <2>3, <3>1 DEF Walking, StackRight, s, t
    <3>3. stack[z].node # 1
      BY <1>2, <3>2 DEF Node
    <3> QED
      BY <2>1, <2>3, <3>3
  <2> QED
    BY <1>14, <2>1, <2>2, <2>3
<1> QED
  BY <1>1, <1>9, <1>16, <1>17, <1>18, <1>19

\* The last node leaves at least one space open, and closing them is right.
LEMMA FinishFacts ==
  ASSUME Walking, stack = <<>>
  PROVE  /\ Len(open) > 0 /\ Last(chain) \in Node
         /\ Spaces(open, Len(open)) = Enclosing(Last(chain))
<1>1. chain \in Seq(Node) /\ chain # <<>> /\ Len(open) \in Nat
  BY DEF Walking, RootRight, TypeRight, Unclosed, World
<1>2. Last(chain) \in Node
  BY <1>1, FrontFacts
<1>3. Members(chain, Len(chain)) = {Last(chain)} \cup ancestors[Last(chain)]
  BY <1>1 DEF Walking, ChainRight
<1>4. Spaces(open, Len(open)) = Enclosing(Last(chain))
  BY <1>3 DEF Walking, OpenRight, Enclosing
<1>5. 1 \in {Last(chain)} \cup ancestors[Last(chain)]
  BY <1>2, AncestorFacts DEF Walking
<1>6. Enclosing(Last(chain)) # {}
  BY <1>5 DEF Enclosing, SpacesOf, Space
<1>7. Len(open) # 0
  <2>1. Spaces(open, 0) = {}
    BY DEF Spaces
  <2> QED
    BY <1>4, <1>6, <2>1
<1> QED
  BY <1>1, <1>2, <1>4, <1>7

\* What finalises the last spaces keeps the tree and the types.
LEMMA FinishType ==
  ASSUME Walking, Finish
  PROVE  TreeRight' /\ TypeRight'
<1>1. /\ stack = <<>> /\ pc' = "done" /\ open' = <<>> /\ UNCHANGED input
      /\ finalized' = finalize(Len(open)).finalized
      /\ spaces' = finalize(Len(open)).spaces \cup
                     {[frame |-> f, into |-> f.space] : f \in ToSet(finalize(Len(open)).open)}
      /\ UNCHANGED <<stack, chain, last_level, nesting_map>>
  BY DEF Finish
<1>2. Unclosed \in World
  BY DEF Walking, TypeRight
<1>3. \A w \in World : w \in World /\ Len(w.open) > 1 => CloseInnermost(w) \in World
  BY CloseFacts
<1>4. Len(open) > 0
  BY <1>1, FinishFacts
<1>5. PICK w \in World : /\ Len(w.open) = 1
                         /\ finalize(Len(open)) =
                              [w EXCEPT !.finalized = Append(@, w.open[1].space)]
  BY <1>2, <1>3, <1>4, FinalizeAll
<1> DEFINE all == finalize(Len(open))
<1>6. all \in World
  <2>1. CloseInnermost(w) \in World /\ CloseInnermost(w) = all
    BY <1>5, CloseLast
  <2> QED
    BY <2>1
<1>7. \A f \in ToSet(all.open) : f \in Frame /\ f.space \in 0..N
  <2>1. all.open \in Seq(Frame)
    BY <1>6 DEF World
  <2>2. ASSUME NEW f \in ToSet(all.open) PROVE f \in Frame
    <3> HIDE DEF Frame, all
    <3>1. PICK i \in DOMAIN all.open : f = all.open[i]
      BY DEF ToSet
    <3> QED
      BY <2>1, <3>1
  <2> QED
    BY <2>2 DEF Frame
<1>8. spaces' \in SUBSET [frame : Frame, into : 0..N] /\ finalized' \in Seq(0..N)
  <2>1. all.spaces \in SUBSET [frame : Frame, into : 0..N] /\ all.finalized \in Seq(0..N)
    BY <1>6 DEF World
  <2>2. \A f \in ToSet(all.open) : [frame |-> f, into |-> f.space] \in [frame : Frame, into : 0..N]
    BY <1>7
  <2> HIDE DEF all, Frame
  <2> QED
    BY <1>1, <2>1, <2>2 DEF all
<1>9. Unclosed' \in World
  <2>1. Unclosed' = [open |-> <<>>, finalized |-> finalized', spaces |-> spaces']
    BY <1>1 DEF Unclosed
  <2> HIDE DEF Frame
  <2> QED
    BY <1>8, <2>1 DEF World
<1>10. TreeRight'
  BY <1>1, InputKept DEF Walking
<1> QED
  BY <1>1, <1>9, <1>10 DEF Walking, TypeRight

\* The initial states.
LEMMA InitRight == Init => TreeRight /\ TypeRight /\ StackRight /\ ChainRight /\ OpenRight /\ RootRight
<1> SUFFICES ASSUME Init PROVE TreeRight /\ TypeRight /\ StackRight /\ ChainRight /\ OpenRight /\ RootRight
  OBVIOUS
<1> DEFINE f == [space |-> Synthetic, kind |-> "unit", counted |-> <<>>,
                 excluded |-> {}, suppressed |-> {}]
           e == [node |-> 1, level |-> 0, depth |-> 0]
<1>1. TreeRight
  <2>1. PICK root \in {"unit", "error"}, inner \in [Node \ {1} -> Kinds] :
            kind = [n \in Node |-> IF n = 1 THEN root ELSE inner[n]]
    BY DEF Init
  <2>2. DOMAIN kind = Node /\ kind[1] \in {"unit", "error"}
    BY <2>1, Nodes
  <2>3. \A n \in Node \ {1} : kind[n] # "unit"
    BY <2>1, SpaceAssumption
  <2> QED
    BY <2>2, <2>3 DEF Init, TreeRight
<1>2. /\ stack = <<e>> /\ chain = <<>> /\ last_level = 0 /\ finalized = <<>> /\ spaces = {}
      /\ pc = "walk" /\ nesting_map = <<>> /\ ~run_verdict.skipped
      /\ open = IF kind[1] = "unit" THEN <<>> ELSE <<f>>
  BY DEF Init
<1>3. f \in Frame /\ e \in Entry
  BY Nodes DEF Frame, Entry, Synthetic, Space, Node
<1>4. open \in Seq(Frame) /\ Len(open) = Base /\ \A i \in 1..Len(open) : open[i].space = 0
  <2>1. CASE kind[1] = "unit"
    BY <1>2, <2>1 DEF Base
  <2>2. CASE kind[1] # "unit"
    <3>1. open = <<f>> /\ Base = 1 /\ f.space = 0
      BY <1>2, <2>2 DEF Base, Synthetic
    <3> HIDE DEF f, Frame
    <3> QED
      BY <1>3, <3>1
  <2> QED
    BY <2>1, <2>2
<1>5. TypeRight
  <2>1. Unclosed \in World
    <3> HIDE DEF Frame
    <3> QED
      BY <1>2, <1>4 DEF Unclosed, World
  <2>2. stack \in Seq(Entry)
    <3> HIDE DEF e, Entry
    <3> QED
      BY <1>2, <1>3
  <2>3. DOMAIN nesting_map = {}
    BY <1>2
  <2> QED
    BY <1>2, <2>1, <2>2, <2>3 DEF TypeRight
<1>6. Spaces(open, Base) = SpacesOf({})
  <2>1. CASE kind[1] = "unit"
    BY <2>1 DEF Base, Spaces, SpacesOf
  <2>2. CASE kind[1] # "unit"
    <3>1. Base = 1 /\ 1 \in 1..Len(open)
      BY <1>4, <2>2 DEF Base
    <3> QED
      BY <1>4, <2>2, <3>1 DEF Spaces, SpacesOf, Synthetic
  <2> QED
    BY <2>1, <2>2
<1>7. /\ Members(chain, 0) = {} /\ ancestors[1] = {} /\ Len(chain) = 0 /\ Base \in 0..1
  BY <1>1, <1>2, AncestorFacts DEF Members, Base
<1>8. StackRight
  <2>1. Len(stack) = 1 /\ stack[1].node = 1 /\ stack[1].level = 0 /\ stack[1].depth = 0
    BY <1>2
  <2>2. \A i \in 1..Len(stack) : i = 1
    BY <2>1
  <2>3. \A i, j \in 1..Len(stack) : ~(i < j)
    BY <2>2
  <2>4. 0 + Base = Base /\ Base <= Len(open) /\ 0 <= Len(chain)
    BY <1>4, <1>7
  <2>5. \A k \in 1..Len(chain) : FALSE
    BY <1>7
  <2>6. \A i \in 1..Len(stack) :
          /\ stack[i].depth <= Len(chain)
          /\ Members(chain, stack[i].depth) = ancestors[stack[i].node]
          /\ stack[i].level + Base <= Len(open)
          /\ Spaces(open, stack[i].level + Base) = SpacesOf(ancestors[stack[i].node])
    BY <1>6, <1>7, <2>1, <2>2, <2>4
  <2> QED
    BY <2>3, <2>5, <2>6 DEF StackRight
<1>9. ChainRight
  BY <1>2 DEF ChainRight
<1>10. OpenRight
  <2>1. \A i \in 1..Len(open) : i = 1
    BY <1>4, <1>7
  <2>2. \A i, j \in 1..Len(open) : ~(i < j)
    BY <2>1
  <2>3. Len(open) = last_level + Base
    BY <1>2, <1>4, <1>7
  <2>4. Spaces(open, Len(open)) = SpacesOf(Members(chain, Len(chain)))
    BY <1>4, <1>6, <1>7
  <2> QED
    BY <2>2, <2>3, <2>4 DEF OpenRight
<1>11. RootRight
  BY <1>2 DEF RootRight
<1> QED
  BY <1>1, <1>5, <1>8, <1>9, <1>10, <1>11

\* The inductive invariant of the walk.
WalkInv == TreeRight /\ TypeRight /\ WalkRight

\* Every step keeps the invariant of the walk.
LEMMA WalkStep == WalkInv /\ [Next]_vars => WalkInv'
<1> SUFFICES ASSUME WalkInv, [Next]_vars PROVE WalkInv'
  OBVIOUS
<1>1. ASSUME pc = "walk" PROVE Walking
  BY <1>1 DEF WalkInv, WalkRight, Walking
<1>2. CASE Prune
  <2>1. Walking
    BY <1>1, <1>2 DEF Prune
  <2> QED
    BY <1>2, <2>1, PruneKeeps DEF WalkInv, WalkRight
<1>3. CASE Visit
  <2>1. Walking
    BY <1>1, <1>3 DEF Visit
  <2> QED
    BY <1>3, <2>1, VisitKeeps DEF WalkInv, WalkRight
<1>4. CASE Finish
  <2>1. Walking /\ pc' = "done"
    BY <1>1, <1>4 DEF Finish
  <2>2. TreeRight' /\ TypeRight'
    BY <1>4, <2>1, FinishType
  <2> QED
    BY <2>1, <2>2 DEF WalkInv, WalkRight
<1>5. CASE UNCHANGED vars
  <2>1. UNCHANGED input
    BY <1>5 DEF vars, input
  <2>2. ancestors' = ancestors /\ Base' = Base /\ TreeRight' /\ \A S : SpacesOf(S)' = SpacesOf(S)
    BY <2>1, InputKept DEF WalkInv
  <2>3. /\ pc' = pc /\ stack' = stack /\ chain' = chain /\ open' = open /\ last_level' = last_level
        /\ nesting_map' = nesting_map /\ run_verdict' = run_verdict
        /\ finalized' = finalized /\ spaces' = spaces
    BY <1>5 DEF vars
  <2>4. TypeRight'
    BY <2>3 DEF WalkInv, TypeRight, Unclosed
  <2>5. StackRight => StackRight'
    BY <2>2, <2>3 DEF StackRight
  <2>6. (ChainRight => ChainRight') /\ (OpenRight => OpenRight') /\ (RootRight => RootRight')
    BY <2>2, <2>3 DEF ChainRight, OpenRight, RootRight, Top
  <2> QED
    BY <2>2, <2>3, <2>4, <2>5, <2>6 DEF WalkInv, WalkRight
<1> QED
  BY <1>2, <1>3, <1>4, <1>5 DEF Next, Done

\* The invariant of the walk holds of every tree: the ancestors, the spaces and
\* the levels that waiting nodes rely on are right.
THEOREM WalkIsRight == Spec => []WalkInv
<1>1. Init => WalkInv
  BY InitRight DEF WalkInv, WalkRight
<1> QED
  BY <1>1, WalkStep, PTL DEF Spec

\* The open spaces are those around the last visited node, outermost first,
\* although a space is closed only when a later node is popped.
THEOREM SpacesFollow == Spec => []OpenSpacesFollowChain
<1>1. WalkInv => OpenSpacesFollowChain
  <2> SUFFICES ASSUME WalkInv, pc = "walk", chain # <<>>
               PROVE  /\ ToSet(chain) = {Last(chain)} \cup ancestors[Last(chain)]
                      /\ {open[i].space : i \in DOMAIN open} = Enclosing(Last(chain))
                      /\ \A i, j \in DOMAIN open : i < j => open[i].space < open[j].space
    BY DEF OpenSpacesFollowChain
  <2>1. /\ chain \in Seq(Node) /\ open \in Seq(Frame) /\ ChainRight /\ OpenRight
    BY DEF WalkInv, WalkRight, TypeRight, Unclosed, World
  <2>2. DOMAIN chain = 1..Len(chain) /\ DOMAIN open = 1..Len(open)
    <3> HIDE DEF Frame
    <3> QED
      BY <2>1
  <2>3. ToSet(chain) = Members(chain, Len(chain))
    BY <2>2 DEF ToSet, Members
  <2>4. {open[i].space : i \in DOMAIN open} = Spaces(open, Len(open))
    BY <2>2 DEF Spaces
  <2> QED
    BY <2>1, <2>2, <2>3, <2>4 DEF ChainRight, OpenRight, Enclosing
<1> QED
  BY <1>1, WalkIsRight, PTL

-----------------------------------------------------------------------------
(***************************************************************************)
(* The walk, second part: what nodes inherit, and what they pay.            *)
(***************************************************************************)
Around(n) == {m \in ancestors[n] : kind[m] = "function"}
Inside(n) == {m \in ancestors[n] : kind[m] \in {"branch", "closure"}
                                    /\ \A f \in Around(n) : f < m}
FunctionDepth(n) == IF Around(n) = {} THEN 0 ELSE Cardinality(Around(n)) - 1

\* A nesting is what a node stands in.
Fits(h, n) == /\ h.conditional + h.lambda = Cardinality(Inside(n))
              /\ h.function_depth = FunctionDepth(n)

PaidFrame(f) == \A i \in 1..Len(f.counted) : f.counted[i][2] = Pays(f.counted[i][1])
PaidWorld(w) == /\ \A i \in 1..Len(w.open) : PaidFrame(w.open[i])
                /\ \A s \in w.spaces : PaidFrame(s.frame)

WaitingNodes == {stack[i].node : i \in 1..Len(stack)}
NestRight ==
  /\ PaidWorld(Unclosed)
  /\ DOMAIN nesting_map = IF pc = "walk" THEN WaitingNodes \ {1} ELSE {}
  /\ pc = "walk" => \A m \in DOMAIN nesting_map : Fits(nesting_map[m], m)

\* The ancestors of a node are finitely many.
LEMMA AncestorsFinite ==
  ASSUME TreeRight, NEW n \in Node
  PROVE  /\ IsFiniteSet(Around(n)) /\ Cardinality(Around(n)) \in Nat
         /\ IsFiniteSet(Inside(n)) /\ Cardinality(Inside(n)) \in Nat
         /\ Around(n) \subseteq ancestors[n] /\ Inside(n) \subseteq ancestors[n]
<1>1. IsFiniteSet(Node)
  BY FS_Interval, SpaceAssumption DEF Node
<1>2. IsFiniteSet(ancestors[n])
  BY <1>1, AncestorFacts, FS_Subset
<1>3. Around(n) \subseteq ancestors[n] /\ Inside(n) \subseteq ancestors[n]
  BY DEF Around, Inside
<1> QED
  BY <1>2, <1>3, FS_Subset, FS_CardinalityType

\* What a node hands down fits its children.
LEMMA HandedFits ==
  ASSUME Walking, stack # <<>>, Fits(Inherited, Top.node), NEW x \in Node,
         ancestors[x] = {Top.node} \cup ancestors[Top.node]
  PROVE  Fits(HandedDown, x)
<1> DEFINE t == Top.node
           h == Inherited
<1>1. /\ t \in Node /\ t \notin ancestors[t] /\ \A m \in ancestors[t] : m \in Node /\ m < t
  <2>1. t \in Node
    BY TopFacts
  <2>2. \A m \in ancestors[t] : m \in Node /\ m < t
    BY <2>1, AncestorFacts DEF Walking
  <2> QED
    BY <2>1, <2>2 DEF Node
<1>2. /\ h \in NestingType /\ h.conditional \in Nat /\ h.lambda \in Nat /\ h.function_depth \in Nat
  <2>1. h \in NestingType
    BY NestingFacts DEF Walking
  <2> QED
    BY <2>1 DEF NestingType
<1>3. /\ IsFiniteSet(Around(t)) /\ Cardinality(Around(t)) \in Nat
      /\ IsFiniteSet(Inside(t)) /\ Cardinality(Inside(t)) \in Nat
      /\ t \notin Around(t) /\ t \notin Inside(t)
  BY <1>1, AncestorsFinite DEF Walking
<1>4. /\ h.conditional + h.lambda = Cardinality(Inside(t)) /\ h.function_depth = FunctionDepth(t)
  BY DEF Fits
<1>5. ancestors[x] = {t} \cup ancestors[t]
  OBVIOUS
<1> HIDE DEF t, h
<1>6. CASE kind[t] \in {"branch", "closure"}
  <2>1. Around(x) = Around(t)
    BY <1>5, <1>6 DEF Around
  <2>2. Inside(x) = Inside(t) \cup {t}
    <3>1. \A f \in Around(t) : f < t
      BY <1>1 DEF Around
    <3>2. \A m : m \in Inside(x) <=> m \in Inside(t) \/ m = t
      BY <1>5, <1>6, <2>1, <3>1 DEF Inside
    <3> QED
      BY <3>2
  <2>3. Cardinality(Inside(x)) = Cardinality(Inside(t)) + 1
    BY <1>3, <2>2, FS_AddElement
  <2>4. FunctionDepth(x) = FunctionDepth(t)
    BY <2>1 DEF FunctionDepth
  <2>5. /\ HandedDown.conditional + HandedDown.lambda = h.conditional + h.lambda + 1
        /\ HandedDown.function_depth = h.function_depth
    <3>1. CASE kind[t] = "branch"
      <4>1. HandedDown = [h EXCEPT !.conditional = @ + 1]
        BY <3>1 DEF HandedDown, h, t
      <4> QED
        BY <1>2, <4>1 DEF NestingType
    <3>2. CASE kind[t] = "closure"
      <4>1. HandedDown = [h EXCEPT !.lambda = @ + 1]
        BY <3>2 DEF HandedDown, h, t
      <4> QED
        BY <1>2, <4>1 DEF NestingType
    <3> QED
      BY <1>6, <3>1, <3>2
  <2> QED
    BY <1>4, <2>3, <2>4, <2>5 DEF Fits
<1>7. CASE kind[t] = "function"
  <2>1. Around(x) = Around(t) \cup {t}
    BY <1>5, <1>7 DEF Around
  <2>2. Inside(x) = {}
    <3>1. ASSUME NEW m \in Inside(x) PROVE FALSE
      <4>1. m \in ancestors[x] /\ kind[m] \in {"branch", "closure"} /\ t < m
        BY <2>1 DEF Inside
      <4>2. m \in ancestors[t]
        BY <1>5, <1>7, <4>1
      <4> QED
        BY <1>1, <4>1, <4>2 DEF Node
    <3> QED
      BY <3>1
  <2>3. Cardinality(Inside(x)) = 0
    BY <2>2, FS_EmptySet
  <2>4. FunctionDepth(x) = Cardinality(Around(t))
    <3>1. Cardinality(Around(x)) = Cardinality(Around(t)) + 1 /\ Around(x) # {}
      BY <1>3, <2>1, FS_AddElement
    <3> QED
      BY <1>3, <3>1 DEF FunctionDepth
  <2>5. /\ HandedDown.conditional = 0 /\ HandedDown.lambda = 0
        /\ HandedDown.function_depth
             = h.function_depth + (IF Around(t) # {} THEN 1 ELSE 0)
    <3>1. (\E n \in ToSet(Here) : kind[n] = "function") <=> Around(t) # {}
      BY HereFacts DEF Around, t
    <3>2. HandedDown = Nesting(0, h.function_depth
             + (IF \E n \in ToSet(Here) : kind[n] = "function" THEN 1 ELSE 0), 0)
      BY <1>7 DEF HandedDown, h, t
    <3> QED
      BY <3>1, <3>2 DEF Nesting
  <2>6. HandedDown.function_depth = Cardinality(Around(t))
    <3>1. CASE Around(t) = {}
      <4>1. Cardinality(Around(t)) = 0
        BY <3>1, FS_EmptySet
      <4> QED
        BY <1>4, <2>5, <3>1, <4>1 DEF FunctionDepth
    <3>2. CASE Around(t) # {}
      BY <1>3, <1>4, <2>5, <3>2 DEF FunctionDepth
    <3> QED
      BY <3>1, <3>2
  <2> QED
    BY <2>3, <2>4, <2>5, <2>6 DEF Fits
<1>8. CASE kind[t] \notin {"branch", "closure", "function"}
  <2>1. Around(x) = Around(t)
    BY <1>5, <1>8 DEF Around
  <2>2. Inside(x) = Inside(t)
    BY <1>5, <1>8, <2>1 DEF Inside
  <2>3. HandedDown = h
    BY <1>8 DEF HandedDown, h, t
  <2> QED
    BY <1>4, <2>1, <2>2, <2>3 DEF Fits, FunctionDepth
<1> QED
  BY <1>6, <1>7, <1>8

\* What the node in hand inherits fits it, and it pays what it should.
LEMMA InheritedFits ==
  ASSUME Walking, NestRight, stack # <<>>
  PROVE  Fits(Inherited, Top.node) /\ Charge = Pays(Top.node)
<1> DEFINE t == Top.node
<1>1. t \in Node /\ t \in WaitingNodes
  BY TopFacts DEF WaitingNodes
<1>2. Fits(Inherited, t)
  <2>1. CASE t = 1
    <3>1. ancestors[1] = {}
      BY AncestorFacts DEF Walking
    <3>2. Around(1) = {} /\ Inside(1) = {} /\ Cardinality({}) = 0
      BY <3>1, FS_EmptySet DEF Around, Inside
    <3>3. Inherited = Nesting(0, 0, 0)
      BY <2>1 DEF Inherited, Walking, NestRight
    <3>4. /\ Inherited.conditional = 0 /\ Inherited.function_depth = 0
          /\ Inherited.lambda = 0
      BY <3>3 DEF Nesting
    <3>5. FunctionDepth(1) = 0 /\ Cardinality(Inside(1)) = 0
      BY <3>2 DEF FunctionDepth
    <3> HIDE DEF t
    <3> QED
      BY <2>1, <3>4, <3>5 DEF Fits
  <2>2. CASE t # 1
    <3>1. t \in DOMAIN nesting_map
      BY <1>1, <2>2 DEF Walking, NestRight
    <3> QED
      BY <3>1 DEF Inherited, Walking, NestRight
  <2> QED
    BY <2>1, <2>2
<1>3. Charge = Pays(t)
  <2>1. /\ Inherited.conditional \in Nat /\ Inherited.lambda \in Nat
        /\ Inherited.function_depth \in Nat
    <3>1. Inherited \in NestingType
      BY NestingFacts DEF Walking
    <3> QED
      BY <3>1 DEF NestingType
  <2>2. Pays(t) = IF kind[t] # "branch" THEN 0
                  ELSE 1 + Cardinality(Inside(t)) + FunctionDepth(t)
    BY DEF Pays, Inside, Around, FunctionDepth
  <2>3. /\ Inherited.conditional + Inherited.lambda = Cardinality(Inside(t))
        /\ Inherited.function_depth = FunctionDepth(t)
    BY <1>2 DEF Fits
  <2>4. CASE kind[t] = "branch"
    <3>1. Charge = Inherited.conditional + Inherited.function_depth + Inherited.lambda + 1
      BY <2>4 DEF Charge
    <3> HIDE DEF t
    <3> QED
      BY <2>1, <2>2, <2>3, <2>4, <3>1
  <2>5. CASE kind[t] # "branch"
    BY <2>2, <2>5 DEF Charge
  <2> QED
    BY <2>4, <2>5
<1> QED
  BY <1>2, <1>3

\* Closing a space charges nothing.
LEMMA PaidClose ==
  ASSUME NEW w \in World, PaidWorld(w), Len(w.open) > 1
  PROVE  PaidWorld(CloseInnermost(w))
<1> DEFINE c == CloseInnermost(w)
           n == Len(w.open)
           a == w.open[n - 1]
           b == w.open[n]
<1>1. /\ Len(c.open) = n - 1 /\ \A i \in 1..(n - 2) : c.open[i] = w.open[i]
      /\ c.open[n - 1] = merge(a, b)
      /\ c.spaces = w.spaces \cup {[frame |-> b, into |-> a.space]}
  BY CloseFacts
<1>2. n \in Nat /\ n > 1 /\ n \in 1..n /\ n - 1 \in 1..n /\ w.open \in Seq(Frame)
  BY DEF World
<1>3. a \in Frame /\ b \in Frame
  <2> HIDE DEF Frame
  <2> QED
    BY <1>2
<1>4. PaidFrame(a) /\ PaidFrame(b)
  BY <1>2 DEF PaidWorld
<1> HIDE DEF a, b, c, n
<1>5. PaidFrame(merge(a, b))
  <2>1. /\ a.counted \in Seq(Node \X Nat) /\ b.counted \in Seq(Node \X Nat)
        /\ merge(a, b).counted = a.counted \o b.counted
    BY <1>3, MergeFacts DEF Frame
  <2> DEFINE q == a.counted
             r == b.counted
  <2>2. /\ Len(q) \in Nat /\ Len(r) \in Nat /\ Len(q \o r) = Len(q) + Len(r)
        /\ \A i \in 1..Len(q) : (q \o r)[i] = q[i]
        /\ \A i \in (Len(q) + 1)..(Len(q) + Len(r)) : (q \o r)[i] = r[i - Len(q)]
    <3> HIDE DEF q, r
    <3>1. q \in Seq(Node \X Nat) /\ r \in Seq(Node \X Nat)
      BY <2>1 DEF q, r
    <3> QED
      BY <3>1
  <2>3. (\A i \in 1..Len(q) : q[i][2] = Pays(q[i][1])) /\ \A i \in 1..Len(r) : r[i][2] = Pays(r[i][1])
    BY <1>4 DEF PaidFrame
  <2> HIDE DEF q, r
  <2>4. ASSUME NEW i \in 1..(Len(q) + Len(r)) PROVE (q \o r)[i][2] = Pays((q \o r)[i][1])
    <3>1. CASE i \in 1..Len(q)
      BY <2>2, <2>3, <3>1
    <3>2. CASE i \in (Len(q) + 1)..(Len(q) + Len(r))
      <4>1. i - Len(q) \in 1..Len(r)
        BY <2>2, <3>2
      <4> QED
        BY <2>2, <2>3, <3>2, <4>1
    <3> QED
      BY <2>2, <3>1, <3>2
  <2> QED
    BY <2>1, <2>2, <2>4 DEF PaidFrame, q, r
<1>6. ASSUME NEW i \in 1..(n - 1) PROVE PaidFrame(c.open[i])
  <2>1. i = n - 1 \/ (i \in 1..(n - 2) /\ i \in 1..n)
    BY <1>2
  <2>2. ASSUME i \in 1..(n - 2), i \in 1..n PROVE PaidFrame(c.open[i])
    BY <1>1, <2>2 DEF PaidWorld, n
  <2> QED
    BY <1>1, <1>5, <2>1, <2>2
<1>7. \A s \in c.spaces : PaidFrame(s.frame)
  BY <1>1, <1>4 DEF PaidWorld
<1> QED
  BY <1>1, <1>6, <1>7 DEF PaidWorld, c

\* Closing what a node closes leaves the paid branches as they were.
LEMMA ClosedPaid ==
  ASSUME Walking, stack # <<>>, PaidWorld(Unclosed)
  PROVE  PaidWorld(Closed)
<1> DEFINE G == {w \in World : PaidWorld(w)}
           d == last_level - Top.level
<1>1. Unclosed \in World /\ d \in Nat /\ (d = 0 \/ d < Len(open)) /\ Closed = finalize(d)
  BY TopFacts DEF Walking, TypeRight
<1>2. Unclosed \in G
  BY <1>1
<1>3. ASSUME NEW w \in G, Len(w.open) > 1 PROVE CloseInnermost(w) \in G
  BY <1>3, CloseFacts, PaidClose
<1> HIDE DEF G, d
<1>4. Closed \in G
  BY <1>1, <1>2, <1>3, FinalizeKeeps
<1> QED
  BY <1>4 DEF G

\* What depends on the input only stays, second part.
LEMMA PaysKept ==
  ASSUME UNCHANGED input
  PROVE  /\ \A n : Pays(n)' = Pays(n)
         /\ \A f : PaidFrame(f)' <=> PaidFrame(f)
         /\ \A h, n : Fits(h, n)' <=> Fits(h, n)
<1>1. kind' = kind /\ ancestors' = ancestors
  BY InputKept
<1>2. \A n : Pays(n)' = Pays(n)
  BY <1>1 DEF Pays
<1>3. \A n : Around(n)' = Around(n)
  BY <1>1 DEF Around
<1>4. \A n : Inside(n)' = Inside(n)
  BY <1>1, <1>3 DEF Inside
<1>5. \A n : FunctionDepth(n)' = FunctionDepth(n)
  BY <1>3 DEF FunctionDepth
<1>6. \A f : PaidFrame(f)' <=> PaidFrame(f)
  BY <1>2 DEF PaidFrame
<1>7. \A h, n : Fits(h, n)' <=> Fits(h, n)
  BY <1>4, <1>5 DEF Fits
<1> QED
  BY <1>2, <1>6, <1>7

\* The nodes that wait on the stack are distinct.
LEMMA WaitingDistinct ==
  ASSUME Walking, stack # <<>>
  PROVE  /\ WaitingNodes \ {Top.node} = {stack[i].node : i \in 1..(Len(stack) - 1)}
         /\ \A m \in WaitingNodes \ {Top.node} : m \in Node /\ Top.node < m
<1> DEFINE s == Len(stack)
<1>1. s \in Nat /\ s > 0 /\ Top = stack[s] /\ s \in 1..s /\ Top.node \in Node
  BY TopFacts
<1>2. ASSUME NEW i \in 1..(s - 1) PROVE stack[i].node \in Node /\ Top.node < stack[i].node
  <2>1. i \in 1..s /\ i < s
    BY <1>1
  <2>2. stack \in Seq(Entry)
    BY DEF Walking, TypeRight
  <2>3. stack[i] \in Entry
    <3> HIDE DEF Entry
    <3> QED
      BY <2>1, <2>2
  <2> QED
    BY <1>1, <2>1, <2>3 DEF Walking, StackRight, Entry
<1>3. \A i \in 1..s : i \in 1..(s - 1) \/ i = s
  BY <1>1
<1>4. \A i \in 1..(s - 1) : i \in 1..s /\ stack[i].node # Top.node
  BY <1>1, <1>2 DEF Node
<1> HIDE DEF s
<1>5. \A m : m \in WaitingNodes \ {Top.node} <=> \E i \in 1..(s - 1) : m = stack[i].node
  BY <1>1, <1>3, <1>4 DEF WaitingNodes, s
<1>6. WaitingNodes \ {Top.node} = {stack[i].node : i \in 1..(s - 1)}
  BY <1>5
<1> QED
  BY <1>2, <1>5, <1>6 DEF s

\* What waits after a step.
LEMMA WaitingPruned ==
  ASSUME Walking, Prune
  PROVE  WaitingNodes' = WaitingNodes \ {Top.node}
<1>0. stack # <<>> /\ stack' = Front(stack)
  BY DEF Prune
<1>1. stack \in Seq(Entry)
  BY DEF Walking, TypeRight
<1>2. Len(stack') = Len(stack) - 1 /\ \A i \in 1..(Len(stack) - 1) : stack'[i] = stack[i]
  <2> HIDE DEF Entry
  <2> QED
    BY <1>0, <1>1, FrontFacts
<1>3. WaitingNodes \ {Top.node} = {stack[i].node : i \in 1..(Len(stack) - 1)}
  BY <1>0, WaitingDistinct
<1>4. WaitingNodes' = {stack'[i].node : i \in 1..(Len(stack) - 1)}
  BY <1>2 DEF WaitingNodes
<1> QED
  BY <1>2, <1>3, <1>4

\* A visit takes its node from those waiting and adds its children.
LEMMA WaitingVisited ==
  ASSUME Walking, Visit
  PROVE  WaitingNodes' = (WaitingNodes \ {Top.node}) \cup Kids(Top.node)
<1> DEFINE t == Top.node
           s == Len(stack)
           k == Cardinality(Kids(t))
<1>0. stack # <<>> /\ stack' = StackVisited
  BY DEF Visit, StackVisited, Pushed, Waiting, NewLevel, FuncSpace, FramesHere
<1>14. /\ Len(stack') = s - 1 + k /\ s \in Nat /\ s > 0 /\ k \in Nat /\ t \in Node
       /\ \A i \in 1..(s - 1) : stack'[i] = stack[i]
  BY <1>0, PushFacts, TopFacts
<1>16. \A i \in s..(s - 1 + k) : /\ children(t)[s + k - i] \in Kids(t)
                                 /\ stack'[i] = Waiting(children(t)[s + k - i])
  BY <1>0, PushFacts
<1>15. \A x \in Kids(t) : \E i \in 1..k : children(t)[i] = x
  BY <1>14, ChildrenFacts
<1> HIDE DEF s, k, t
<1>1. \A i \in 1..(s - 1 + k) : i \in 1..(s - 1) \/ i \in s..(s - 1 + k)
  BY <1>14
<1>2. \A i \in 1..(s - 1) : i \in 1..(s - 1 + k)
  BY <1>14
<1>3. ASSUME NEW i \in s..(s - 1 + k)
      PROVE  stack'[i].node = children(t)[s + k - i] /\ stack'[i].node \in Kids(t)
  <2>1. children(t)[s + k - i] \in Kids(t) /\ stack'[i] = Waiting(children(t)[s + k - i])
    BY <1>16
  <2>2. Waiting(children(t)[s + k - i]).node = children(t)[s + k - i]
    BY DEF Waiting
  <2> QED
    BY <2>1, <2>2
<1>4. ASSUME NEW x \in Kids(t) PROVE \E i \in 1..(s - 1 + k) : stack'[i].node = x
  <2>1. PICK j \in 1..k : children(t)[j] = x
    BY <1>15
  <2>2. s + k - j \in s..(s - 1 + k) /\ s + k - j \in 1..(s - 1 + k) /\ s + k - (s + k - j) = j
    BY <1>14
  <2>3. stack'[s + k - j].node = x
    BY <1>3, <2>1, <2>2
  <2> QED
    BY <2>2, <2>3
<1>5. WaitingNodes \ {t} = {stack[i].node : i \in 1..(s - 1)}
  BY <1>0, WaitingDistinct DEF s, t
<1>6. WaitingNodes' = {stack'[i].node : i \in 1..(s - 1 + k)}
  BY <1>14 DEF WaitingNodes
<1>7. ASSUME NEW x \in WaitingNodes' PROVE x \in (WaitingNodes \ {t}) \cup Kids(t)
  <2>1. PICK i \in 1..(s - 1 + k) : stack'[i].node = x
    BY <1>6
  <2>2. CASE i \in 1..(s - 1)
    BY <1>14, <1>5, <2>1, <2>2
  <2>3. CASE i \in s..(s - 1 + k)
    <3>1. stack'[i].node \in Kids(t)
      BY <1>3, <2>3
    <3> QED
      BY <2>1, <3>1
  <2> QED
    BY <1>1, <2>2, <2>3
<1>8. ASSUME NEW x \in WaitingNodes \ {t} PROVE x \in WaitingNodes'
  BY <1>14, <1>2, <1>5, <1>6
<1>9. ASSUME NEW x \in Kids(t) PROVE x \in WaitingNodes'
  BY <1>4, <1>6
<1>10. WaitingNodes' = (WaitingNodes \ {t}) \cup Kids(t)
  <2>1. \A x : x \in WaitingNodes' <=> x \in (WaitingNodes \ {t}) \cup Kids(t)
    BY <1>7, <1>8, <1>9
  <2> QED
    BY <2>1
<1> QED
  BY <1>10 DEF t

\* Pruning frees a slot of the nesting map that nobody will read.
LEMMA PruneNests ==
  ASSUME Walking, NestRight, Prune
  PROVE  NestRight'
<1>0. /\ stack # <<>> /\ prunes_subtree /\ pc' = "walk" /\ stack' = Front(stack)
      /\ open' = prune_node(Closed.open) /\ spaces' = Closed.spaces
      /\ nesting_map' = SlotFreed /\ UNCHANGED input /\ pc = "walk"
  BY DEF Prune
<1>1. /\ \A n : Pays(n)' = Pays(n)
      /\ \A f : PaidFrame(f)' <=> PaidFrame(f)
      /\ \A h, n : Fits(h, n)' <=> Fits(h, n)
  BY <1>0, PaysKept
<1>2. PaidWorld(Closed)
  BY <1>0, ClosedPaid DEF NestRight
<1>3. PaidWorld(Unclosed)'
  <2>1. /\ Len(open') = Top.level + Base
        /\ \A i \in 1..(Top.level + Base) : open'[i].counted = Closed.open[i].counted
    BY <1>0, PruneOpen
  <2>2. Len(Closed.open) = Top.level + Base
    BY <1>0, ClosedRight
  <2>3. \A i \in 1..Len(open') : PaidFrame(open'[i])
    BY <1>2, <2>1, <2>2 DEF PaidWorld, PaidFrame
  <2>4. \A s \in spaces' : PaidFrame(s.frame)
    BY <1>0, <1>2 DEF PaidWorld
  <2> QED
    BY <1>1, <2>3, <2>4 DEF PaidWorld, Unclosed
<1>4. WaitingNodes' = WaitingNodes \ {Top.node}
  BY WaitingPruned
<1>5. /\ DOMAIN nesting_map' = DOMAIN nesting_map \ {Top.node}
      /\ \A m \in DOMAIN nesting_map' : nesting_map'[m] = nesting_map[m]
  BY <1>0 DEF SlotFreed
<1>6. DOMAIN nesting_map' = WaitingNodes' \ {1}
  BY <1>0, <1>4, <1>5 DEF NestRight
<1>7. \A m \in DOMAIN nesting_map' : Fits(nesting_map'[m], m)
  BY <1>0, <1>5 DEF NestRight
<1> QED
  BY <1>0, <1>1, <1>3, <1>6, <1>7 DEF NestRight

\* A visit frees its slot of the nesting map and writes one for every child.
LEMMA VisitNests ==
  ASSUME Walking, NestRight, Visit
  PROVE  NestRight'
<1> DEFINE t == Top.node
           s == Len(stack)
           k == Cardinality(Kids(t))
<1>0. /\ stack # <<>> /\ pc' = "walk" /\ stack' = StackVisited
      /\ open' = compute_per_node(apply_suppression(FramesHere)) /\ spaces' = Closed.spaces
      /\ nesting_map' = propagate_nesting_to_children /\ UNCHANGED input /\ pc = "walk"
  BY DEF Visit, StackVisited, Pushed, Waiting, NewLevel, FuncSpace, FramesHere
<1>1. /\ \A n : Pays(n)' = Pays(n)
      /\ \A f : PaidFrame(f)' <=> PaidFrame(f)
      /\ \A h, n : Fits(h, n)' <=> Fits(h, n)
  BY <1>0, PaysKept
<1>2. PaidWorld(Closed)
  BY <1>0, ClosedPaid DEF NestRight
<1>3. PaidWorld(Unclosed)'
  <2> DEFINE m == Len(FramesHere)
  <2>1. /\ Len(open') = m
        /\ \A i \in 1..m : open'[i].counted = IF i = m
              THEN Append(FramesHere[m].counted, <<t, Charge>>) ELSE FramesHere[i].counted
    BY <1>0, VisitOpen
  <2>2. /\ m = (IF FuncSpace THEN Top.level + Base + 1 ELSE Top.level + Base) /\ m \in Nat /\ m > 0
        /\ \A i \in 1..(Top.level + Base) : FramesHere[i] = Closed.open[i]
        /\ FuncSpace => FramesHere[m] = FreshFrame
        /\ FramesHere \in Seq(Frame)
    BY <1>0, FramesFacts
  <2>3. Len(Closed.open) = Top.level + Base /\ Top.level + Base \in Nat
    BY <1>0, ClosedRight, TopFacts
  <2> HIDE DEF m
  <2>4. ASSUME NEW i \in 1..m PROVE PaidFrame(FramesHere[i])
    <3>1. CASE i \in 1..(Top.level + Base)
      BY <1>2, <2>2, <2>3, <3>1 DEF PaidWorld
    <3>2. CASE FuncSpace /\ i = m
      <4>1. FramesHere[i].counted = <<>>
        BY <2>2, <3>2 DEF FreshFrame
      <4> QED
        BY <4>1 DEF PaidFrame
    <3> QED
      BY <2>2, <2>3, <3>1, <3>2
  <2>5. PaidFrame(open'[m])
    <3> DEFINE q == FramesHere[m].counted
               e == <<t, Charge>>
    <3>1. m \in 1..m /\ FramesHere[m] \in Frame
      <4> HIDE DEF Frame
      <4> QED
        BY <2>2 DEF m
    <3>2. q \in Seq(Node \X Nat) /\ PaidFrame(FramesHere[m])
      BY <2>4, <3>1 DEF Frame
    <3>3. open'[m].counted = Append(q, e) /\ e[1] = t /\ e[2] = Pays(t)
      BY <1>0, <2>1, <3>1, InheritedFits
    <3>31. \A i \in 1..Len(q) : q[i][2] = Pays(q[i][1])
      BY <3>2 DEF PaidFrame
    <3> HIDE DEF q, e
    <3>4. /\ Len(Append(q, e)) = Len(q) + 1 /\ Append(q, e)[Len(q) + 1] = e /\ Len(q) \in Nat
          /\ \A i \in 1..Len(q) : Append(q, e)[i] = q[i]
      BY <3>2
    <3>5. ASSUME NEW i \in 1..(Len(q) + 1) PROVE Append(q, e)[i][2] = Pays(Append(q, e)[i][1])
      <4>1. i \in 1..Len(q) \/ i = Len(q) + 1
        BY <3>4
      <4> QED
        BY <3>3, <3>31, <3>4, <4>1
    <3> QED
      BY <3>3, <3>4, <3>5 DEF PaidFrame
  <2>6. ASSUME NEW i \in 1..Len(open') PROVE PaidFrame(open'[i])
    <3>1. CASE i = m
      BY <2>5, <3>1
    <3>2. CASE i # m
      BY <2>1, <2>4, <3>2 DEF PaidFrame
    <3> QED
      BY <3>1, <3>2
  <2>7. \A sp \in spaces' : PaidFrame(sp.frame)
    BY <1>0, <1>2 DEF PaidWorld
  <2> QED
    BY <1>1, <2>6, <2>7 DEF PaidWorld, Unclosed
<1> HIDE DEF s, k, t
<1>6. WaitingNodes' = (WaitingNodes \ {t}) \cup Kids(t)
  BY WaitingVisited DEF t
<1>7. /\ DOMAIN nesting_map' = (DOMAIN nesting_map \ {t}) \cup Kids(t)
      /\ \A m \in DOMAIN nesting_map' :
           nesting_map'[m] = IF m \in DOMAIN nesting_map \ {t} THEN nesting_map[m] ELSE HandedDown
  BY <1>0 DEF propagate_nesting_to_children, t
<1>8. DOMAIN nesting_map' = WaitingNodes' \ {1}
  BY <1>0, <1>6, <1>7 DEF NestRight, Kids
<1>9. ASSUME NEW m \in DOMAIN nesting_map' PROVE Fits(nesting_map'[m], m)
  <2>1. CASE m \in DOMAIN nesting_map \ {t}
    BY <1>0, <1>7, <2>1 DEF NestRight
  <2>2. CASE m \notin DOMAIN nesting_map \ {t}
    <3>1. m \in Kids(t) /\ nesting_map'[m] = HandedDown
      BY <1>7, <2>2
    <3>2. m \in Node /\ ancestors[m] = {t} \cup ancestors[t]
      BY <3>1, AncestorFacts DEF Kids, Walking
    <3>3. Fits(Inherited, t)
      BY <1>0, InheritedFits DEF t
    <3> QED
      BY <1>0, <3>1, <3>2, <3>3, HandedFits DEF t
  <2> QED
    BY <2>1, <2>2
<1> QED
  BY <1>0, <1>1, <1>3, <1>8, <1>9 DEF NestRight

\* The walk ends with every branch paid for.
LEMMA FinishNests ==
  ASSUME Walking, NestRight, Finish
  PROVE  NestRight'
<1>1. /\ stack = <<>> /\ pc' = "done" /\ open' = <<>> /\ UNCHANGED input /\ pc = "walk"
      /\ spaces' = finalize(Len(open)).spaces \cup
                     {[frame |-> f, into |-> f.space] : f \in ToSet(finalize(Len(open)).open)}
      /\ nesting_map' = nesting_map
  BY DEF Finish
<1> DEFINE G == {w \in World : PaidWorld(w)}
<1>2. Unclosed \in World /\ Unclosed \in G /\ Len(open) > 0
  BY <1>1, FinishFacts DEF Walking, TypeRight, NestRight
<1>3. ASSUME NEW w \in G, Len(w.open) > 1 PROVE CloseInnermost(w) \in G
  BY <1>3, CloseFacts, PaidClose
<1> HIDE DEF G
<1>4. PICK w \in G : /\ w \in World /\ Len(w.open) = 1
                     /\ finalize(Len(open)) =
                          [w EXCEPT !.finalized = Append(@, w.open[1].space)]
  BY <1>2, <1>3, FinalizeAll
<1>5. finalize(Len(open)).open = w.open /\ finalize(Len(open)).spaces = w.spaces
  BY <1>4 DEF World
<1>6. ASSUME NEW f \in ToSet(w.open) PROVE PaidFrame(f)
  <2>1. w.open \in Seq(Frame)
    BY <1>4 DEF World
  <2>2. DOMAIN w.open = 1..Len(w.open)
    <3> HIDE DEF Frame
    <3> QED
      BY <2>1
  <2> QED
    BY <1>4, <2>2 DEF ToSet, G, PaidWorld
<1>7. \A s \in spaces' : PaidFrame(s.frame)
  BY <1>1, <1>4, <1>5, <1>6 DEF G, PaidWorld
<1>8. \A f : PaidFrame(f)' <=> PaidFrame(f)
  BY <1>1, PaysKept
<1>9. PaidWorld(Unclosed)'
  BY <1>1, <1>7, <1>8 DEF PaidWorld, Unclosed
<1>10. DOMAIN nesting_map' = {}
  <2>1. Len(stack) = 0
    BY <1>1
  <2>2. WaitingNodes = {}
    BY <2>1 DEF WaitingNodes
  <2> QED
    BY <1>1, <2>2 DEF NestRight
<1> QED
  BY <1>1, <1>9, <1>10 DEF NestRight

\* A branch pays for the nesting it stands in, no more and no less, and the map
\* that hands the nesting down is empty when the walk ends.
THEOREM NestingIsRight == Spec => []NestingIsInherited
<1>1. Init => NestRight
  <2> SUFFICES ASSUME Init PROVE NestRight
    OBVIOUS
  <2>1. /\ pc = "walk" /\ nesting_map = <<>> /\ spaces = {}
        /\ Len(stack) = 1 /\ stack[1].node = 1
    BY DEF Init
  <2>2. \A i \in 1..Len(open) : open[i].counted = <<>>
    BY DEF Init
  <2>3. PaidWorld(Unclosed)
    BY <2>1, <2>2 DEF PaidWorld, PaidFrame, Unclosed
  <2>4. WaitingNodes \ {1} = {}
    BY <2>1 DEF WaitingNodes
  <2>5. DOMAIN nesting_map = {}
    BY <2>1
  <2> QED
    BY <2>1, <2>3, <2>4, <2>5 DEF NestRight
<1>2. WalkInv /\ NestRight /\ [Next]_vars => NestRight'
  <2> SUFFICES ASSUME WalkInv, NestRight, [Next]_vars PROVE NestRight'
    OBVIOUS
  <2>1. pc = "walk" => Walking
    BY DEF WalkInv, WalkRight, Walking
  <2>2. CASE Prune \/ Visit \/ Finish
    BY <2>1, <2>2, PruneNests, VisitNests, FinishNests DEF Prune, Visit, Finish
  <2>3. CASE UNCHANGED vars
    <3>1. UNCHANGED input
      BY <2>3 DEF vars, input
    <3>2. /\ pc' = pc /\ stack' = stack /\ open' = open /\ nesting_map' = nesting_map
          /\ spaces' = spaces
      BY <2>3 DEF vars
    <3>3. (\A f : PaidFrame(f)' <=> PaidFrame(f)) /\ \A h, n : Fits(h, n)' <=> Fits(h, n)
      BY <3>1, PaysKept
    <3>4. PaidWorld(Unclosed)'
      BY <3>2, <3>3 DEF PaidWorld, Unclosed, NestRight
    <3>5. WaitingNodes' = WaitingNodes
      BY <3>2 DEF WaitingNodes
    <3> QED
      BY <3>2, <3>3, <3>4, <3>5 DEF NestRight
  <2> QED
    BY <2>2, <2>3 DEF Next, Done
<1>3. WalkInv /\ NestRight => NestingIsInherited
  <2> SUFFICES ASSUME WalkInv, NestRight, pc = "done"
               PROVE  /\ DOMAIN nesting_map = {}
                      /\ \A s \in spaces : \A e \in ToSet(s.frame.counted) : e[2] = Pays(e[1])
    BY DEF NestingIsInherited
  <2>1. DOMAIN nesting_map = {}
    BY DEF NestRight
  <2>2. ASSUME NEW s \in spaces, NEW e \in ToSet(s.frame.counted) PROVE e[2] = Pays(e[1])
    <3>1. s.frame.counted \in Seq(Node \X Nat)
      BY DEF WalkInv, TypeRight, Unclosed, World, Frame
    <3>2. DOMAIN s.frame.counted = 1..Len(s.frame.counted)
      BY <3>1
    <3>3. PaidFrame(s.frame)
      BY DEF NestRight, PaidWorld, Unclosed
    <3> QED
      BY <3>2, <3>3 DEF PaidFrame, ToSet
  <2> QED
    BY <2>1, <2>2
<1> QED
  BY <1>1, <1>2, <1>3, WalkIsRight, PTL DEF Spec

-----------------------------------------------------------------------------
(***************************************************************************)
(* The walk, third part: exactly the test code is pruned.                   *)
(***************************************************************************)
Reached == IF stack = <<>> THEN N + 1 ELSE Top.node   \* nodes before it are done

IsRow(n) == n \in Node /\ kind[n] \in AttributeRow
InRun(r, n) == r = n \/ r \in run_before(n)

\* What is not done yet waits, or is below a node that waits.
FrontRight ==
  \A n \in Node : n >= Reached => \E w \in WaitingNodes : n = w \/ w \in ancestors[n]

\* Nothing waits below a node that goes.
KeptRight == \A w \in WaitingNodes : ancestors[w] \cap Gone = {}

\* The verdict at hand is of an attribute row that is done, or answers for
\* nothing; and every run that goes on has its verdict.
RunRight ==
  exclude_tests =>
    /\ \/ run_verdict.through = 0 /\ run_verdict.node = 0
       \/ \E r \in Node : /\ IsRow(r) /\ r < Reached
                          /\ run_verdict = rust_attribute_run_verdict(r)
    /\ \A m, n \in Node :
         /\ IsRow(m) /\ kind[n] \in RunMember /\ m \in run_before(n)
         /\ m < Reached /\ n >= Reached
         => \E r \in Node : /\ IsRow(r) /\ InRun(r, m)
                            /\ run_verdict = rust_attribute_run_verdict(r)

TestsRight == pc = "walk" => FrontRight /\ KeptRight /\ RunRight

\* A set of numbers has a smallest one, and `Min` is it.
LEMMA MinFacts ==
  ASSUME NEW S \in SUBSET Nat, S # {}
  PROVE  Min(S) \in S /\ \A x \in S : Min(S) <= x
<1>1. \E m \in S : \A x \in S : m <= x
  BY Least
<1> QED
  BY <1>1 DEF Min

\* Towards what is below a node leads one of its children.
LEMMA ChildToward ==
  ASSUME TreeRight, NEW p \in Node, NEW n \in Node, p \in ancestors[n]
  PROVE  \E c \in Kids(p) : c = n \/ c \in ancestors[n]
<1> DEFINE T == {k \in Node : p \in ancestors[k] => \E c \in Kids(p) : c = k \/ c \in ancestors[k]}
<1>1. ASSUME NEW k \in Node, \A m \in Node : m < k => m \in T PROVE k \in T
  <2> SUFFICES ASSUME p \in ancestors[k] PROVE \E c \in Kids(p) : c = k \/ c \in ancestors[k]
    OBVIOUS
  <2>1. k \in Node \ {1}
    BY AncestorFacts
  <2>2. /\ ancestors[k] = {parent[k]} \cup ancestors[parent[k]]
        /\ parent[k] \in Node /\ parent[k] < k
    BY <2>1, AncestorFacts
  <2>3. CASE p = parent[k]
    BY <2>1, <2>3 DEF Kids
  <2>4. CASE p \in ancestors[parent[k]]
    <3>1. parent[k] \in T
      BY <1>1, <2>2
    <3>2. PICK c \in Kids(p) : c = parent[k] \/ c \in ancestors[parent[k]]
      BY <2>4, <3>1
    <3> QED
      BY <2>2, <3>2
  <2> QED
    BY <2>2, <2>3, <2>4
<1> HIDE DEF T
<1>2. T = Node
  <2>1. T \subseteq Node
    BY DEF T
  <2> QED
    BY <1>1, <2>1, NodeInduct
<1>3. n \in T
  BY <1>2
<1> QED
  BY <1>3 DEF T

\* The siblings of an attribute row, and what it takes to be one.
LEMMA RowFacts ==
  ASSUME TreeRight, NEW r, IsRow(r)
  PROVE  /\ r \in Node \ {1} /\ parent[r] \in Node /\ parent[r] < r
         /\ siblings(r) = Kids(parent[r]) /\ below(r) = {} /\ r \in siblings(r)
         /\ kind[r] \in RunMember
<1>1. r \in Node /\ kind[r] \in RunMember /\ r # 1
  BY DEF IsRow, RunMember, AttributeRow, TreeRight
<1>2. parent[r] \in Node /\ parent[r] < r
  BY <1>1, AncestorFacts
<1>3. siblings(r) = Kids(parent[r]) /\ r \in siblings(r)
  BY <1>1 DEF siblings, Kids
<1> QED
  BY <1>1, <1>2, <1>3 DEF TreeRight

\* After an attribute row, what is below its parent is a later sibling or below
\* one.
LEMMA InsideRun ==
  ASSUME TreeRight, NEW r, IsRow(r), NEW t \in Node, r < t, parent[r] \in ancestors[t]
  PROVE  \E c \in siblings(r) : r < c /\ c <= t /\ (c = t \/ c \in ancestors[t])
<1> DEFINE p == parent[r]
<1>1. /\ r \in Node \ {1} /\ p \in Node /\ p < r /\ siblings(r) = Kids(p) /\ below(r) = {}
  BY RowFacts
<1>2. PICK c \in Kids(p) : c = t \/ c \in ancestors[t]
  BY <1>1, ChildToward
<1>3. c \in Node /\ p < c /\ parent[c] = p /\ c # 1
  BY <1>2, AncestorFacts DEF Kids
<1>4. c <= t
  BY <1>2, <1>3, AncestorFacts DEF Node
<1>5. c # r
  BY <1>1, <1>2 DEF below, Node
<1>6. ~(c < r)
  <2> SUFFICES ASSUME c < r PROVE FALSE
    OBVIOUS
  <2>1. c \in ancestors[t] /\ r <= t
    BY <1>1, <1>2, <1>3 DEF Node
  <2>2. c \in ancestors[r]
    BY <1>1, <2>1, Between
  <2>3. c \in {p} \cup ancestors[p]
    BY <1>1, <2>2, AncestorFacts
  <2>4. c <= p
    BY <1>1, <1>3, <2>3, AncestorFacts DEF Node
  <2> QED
    BY <1>1, <1>3, <2>4 DEF Node
<1>7. r < c
  BY <1>1, <1>3, <1>5, <1>6 DEF Node
<1> QED
  BY <1>1, <1>2, <1>4, <1>7

-----------------------------------------------------------------------------
\* Bytes, as many as there are leaves.
Leaf == {n \in Node : below(n) = {}}
Before(n) == {k \in Leaf : k < n}
Under(p) == {k \in Leaf : k = p \/ p \in ancestors[k]}

\* The bytes of a node are the leaves in it, after the leaves before it.
LEMMA BytesAre ==
  ASSUME TreeRight, NEW n \in Node
  PROVE  /\ start_byte(n) = Cardinality(Before(n))
         /\ end_byte(n) = Cardinality(Before(n)) + Cardinality(Under(n))
         /\ IsFiniteSet(Before(n)) /\ IsFiniteSet(Under(n))
         /\ Cardinality(Before(n)) \in Nat /\ Cardinality(Under(n)) \in Nat
<1>1. {k \in 1..(n - 1) : below(k) = {}} = Before(n)
  BY Nodes DEF Before, Leaf, Node
<1>2. {k \in {n} \cup below(n) : below(k) = {}} = Under(n)
  <2>1. \A k : k \in {n} \cup below(n) <=> k \in Node /\ (k = n \/ n \in ancestors[k])
    BY DEF below
  <2> QED
    BY <2>1 DEF Under, Leaf
<1>3. start_byte(n) = Cardinality(Before(n))
  BY <1>1 DEF start_byte, leaves
<1>4. end_byte(n) = Cardinality(Before(n)) + Cardinality(Under(n))
  BY <1>2, <1>3 DEF end_byte, leaves
<1>5. IsFiniteSet(Node) /\ Before(n) \subseteq Node /\ Under(n) \subseteq Node
  BY FS_Interval, SpaceAssumption DEF Node, Before, Under, Leaf
<1> QED
  BY <1>3, <1>4, <1>5, FS_Subset, FS_CardinalityType

\* A later node does not start earlier, and starts later than a leaf.
LEMMA BytesGrow ==
  ASSUME TreeRight, NEW n \in Node, NEW m \in Node
  PROVE  /\ start_byte(n) \in Nat
         /\ n <= m => start_byte(n) <= start_byte(m)
         /\ n < m /\ below(n) = {} => start_byte(n) < start_byte(m)
<1>1. /\ start_byte(n) = Cardinality(Before(n)) /\ start_byte(m) = Cardinality(Before(m))
      /\ IsFiniteSet(Before(n)) /\ IsFiniteSet(Before(m))
      /\ Cardinality(Before(n)) \in Nat /\ Cardinality(Before(m)) \in Nat
  BY BytesAre
<1>2. ASSUME n <= m PROVE start_byte(n) <= start_byte(m)
  <2>1. Before(n) \subseteq Before(m)
    BY <1>2 DEF Before, Leaf, Node
  <2> QED
    BY <1>1, <2>1, FS_Subset
<1>3. ASSUME n < m, below(n) = {} PROVE start_byte(n) < start_byte(m)
  <2>1. Before(n) \cup {n} \subseteq Before(m) /\ n \notin Before(n)
    BY <1>3 DEF Before, Leaf, Node
  <2>2. IsFiniteSet(Before(n) \cup {n}) /\ Cardinality(Before(n) \cup {n}) = Cardinality(Before(n)) + 1
    BY <1>1, <2>1, FS_AddElement
  <2>3. Cardinality(Before(n) \cup {n}) <= Cardinality(Before(m))
    BY <1>1, <2>1, FS_Subset
  <2> QED
    BY <1>1, <2>2, <2>3
<1> QED
  BY <1>1, <1>2, <1>3

\* What starts within a node that comes before it is below it, and a leaf below
\* a node starts within it.
LEMMA BytesNest ==
  ASSUME TreeRight, NEW p \in Node, NEW t \in Node, p < t
  PROVE  /\ start_byte(t) < end_byte(p) => p \in ancestors[t]
         /\ p \in ancestors[t] /\ below(t) = {} => start_byte(t) < end_byte(p)
<1> DEFINE a == Before(p)
           u == Under(p)
           b == Before(t)
<1>1. /\ start_byte(t) = Cardinality(b) /\ end_byte(p) = Cardinality(a) + Cardinality(u)
      /\ IsFiniteSet(a) /\ IsFiniteSet(b) /\ IsFiniteSet(u)
      /\ Cardinality(a) \in Nat /\ Cardinality(b) \in Nat /\ Cardinality(u) \in Nat
  BY BytesAre
<1>2. IsFiniteSet(a \cup u) /\ Cardinality(a \cup u) = Cardinality(a) + Cardinality(u)
  <2>1. ASSUME NEW k \in a, k \in u PROVE FALSE
    <3>1. k \in Node /\ k < p /\ (k = p \/ p \in ancestors[k])
      BY <2>1 DEF Before, Under, Leaf
    <3>2. p < k \/ k = p
      BY <3>1, AncestorFacts
    <3> QED
      BY <3>1, <3>2 DEF Node
  <2>2. a \cap u = {}
    BY <2>1
  <2>3. Cardinality({}) = 0
    BY FS_EmptySet
  <2>5. Cardinality(a \cap u) = 0
    BY <2>2, <2>3
  <2> HIDE DEF a, u
  <2>4. /\ IsFiniteSet(a \cup u)
        /\ Cardinality(a \cup u) = Cardinality(a) + Cardinality(u) - Cardinality(a \cap u)
    BY <1>1, FS_Union
  <2> QED
    BY <1>1, <2>4, <2>5
<1>3. ASSUME p \notin ancestors[t], start_byte(t) < end_byte(p) PROVE FALSE
  <2>1. ASSUME NEW k \in a \cup u PROVE k \in b
    <3>1. CASE k \in a
      BY <3>1 DEF Before, Leaf, Node
    <3>2. CASE k \in u
      <4>1. k \in Leaf /\ k \in Node /\ (k = p \/ p \in ancestors[k])
        BY <3>2 DEF Under, Leaf
      <4>2. CASE k = p
        BY <4>1, <4>2 DEF Before
      <4>3. CASE p \in ancestors[k]
        <5>1. ~(t <= k)
          BY <1>3, <4>1, <4>3, Between
        <5> QED
          BY <4>1, <5>1 DEF Before, Node
      <4> QED
        BY <4>1, <4>2, <4>3
    <3> QED
      BY <3>1, <3>2
  <2>2. Cardinality(a \cup u) <= Cardinality(b)
    BY <1>1, <2>1, FS_Subset
  <2> QED
    BY <1>1, <1>2, <1>3, <2>2
<1>4. ASSUME p \in ancestors[t], below(t) = {} PROVE start_byte(t) < end_byte(p)
  <2>1. ASSUME NEW k \in b \cup {t} PROVE k \in a \cup u
    <3>1. k \in Leaf /\ k \in Node /\ k <= t
      BY <1>4 DEF Before, Leaf, Node
    <3>2. CASE k < p
      BY <3>1, <3>2 DEF Before
    <3>3. CASE k = p
      BY <3>1, <3>3 DEF Under
    <3>4. CASE p < k
      BY <1>4, <3>1, <3>4, Between DEF Under
    <3> QED
      BY <3>1, <3>2, <3>3, <3>4 DEF Node
  <2>2. t \notin b
    BY DEF Before, Node
  <2>3. IsFiniteSet(b \cup {t}) /\ Cardinality(b \cup {t}) = Cardinality(b) + 1
    BY <1>1, <2>2, FS_AddElement
  <2>4. Cardinality(b \cup {t}) <= Cardinality(a \cup u)
    BY <1>2, <2>1, FS_Subset
  <2> QED
    BY <1>1, <1>2, <2>3, <2>4
<1> QED
  BY <1>3, <1>4

-----------------------------------------------------------------------------
\* The item that a run decorates, and which nodes its verdict answers for.
ItemOf(r) == Min(rust_attributed_item(r))

\* The verdict of a run reaches its item, or the end of its parent.
LEMMA ItemFacts ==
  ASSUME TreeRight, NEW r, IsRow(r)
  PROVE  LET v == rust_attribute_run_verdict(r)
             none == rust_attributed_item(r) = {}
         IN  /\ none => v.through = end_byte(parent[r]) /\ v.node = 0 /\ v.skipped = FALSE
             /\ ~none => /\ v.through = start_byte(ItemOf(r)) /\ v.node = ItemOf(r)
                         /\ v.skipped = (kind[ItemOf(r)] \in Prunable
                                         /\ rust_item_is_test_only(ItemOf(r)))
                         /\ ItemOf(r) \in siblings(r) /\ ItemOf(r) \in Node /\ r < ItemOf(r)
                         /\ kind[ItemOf(r)] \notin RunMember
             /\ \A m \in siblings(r) :
                  r < m /\ (none \/ m < ItemOf(r)) => kind[m] \in RunMember
<1> DEFINE S == rust_attributed_item(r)
<1>1. r \in Node \ {1} /\ siblings(r) = Kids(parent[r])
  BY RowFacts
<1>2. S \in SUBSET Nat /\ S \subseteq Node /\ \A m \in siblings(r) : m \in Node
  BY <1>1, Nodes DEF rust_attributed_item, Kids
<1>3. ASSUME S = {}
      PROVE  LET v == rust_attribute_run_verdict(r)
             IN  v.through = end_byte(parent[r]) /\ v.node = 0 /\ v.skipped = FALSE
  BY <1>3 DEF rust_attribute_run_verdict
<1>4. ASSUME S # {}
      PROVE  LET v == rust_attribute_run_verdict(r)
             IN  /\ v.through = start_byte(ItemOf(r)) /\ v.node = ItemOf(r)
                 /\ v.skipped = (kind[ItemOf(r)] \in Prunable /\ rust_item_is_test_only(ItemOf(r)))
  BY <1>4 DEF rust_attribute_run_verdict, ItemOf
<1>5. ASSUME S # {} PROVE ItemOf(r) \in S /\ \A m \in S : ItemOf(r) <= m
  BY <1>2, <1>5, MinFacts DEF ItemOf
<1>6. ASSUME S # {}
      PROVE  /\ ItemOf(r) \in siblings(r) /\ ItemOf(r) \in Node /\ r < ItemOf(r)
             /\ kind[ItemOf(r)] \notin RunMember
  BY <1>2, <1>5, <1>6 DEF rust_attributed_item
<1>7. ASSUME NEW m \in siblings(r), r < m, S = {} \/ m < ItemOf(r) PROVE kind[m] \in RunMember
  <2> SUFFICES ASSUME kind[m] \notin RunMember PROVE FALSE
    OBVIOUS
  <2>1. m \in S
    BY <1>7 DEF rust_attributed_item
  <2>2. ItemOf(r) \in Node /\ m \in Node /\ ItemOf(r) <= m /\ m < ItemOf(r)
    BY <1>2, <1>5, <1>6, <1>7, <2>1
  <2> QED
    BY <2>2 DEF Node
<1> HIDE DEF S
<1> QED
  BY <1>3, <1>4, <1>6, <1>7 DEF S

\* A verdict answers for the item and, after its row, for the run only.
LEMMA AnsweredIs ==
  ASSUME TreeRight, NEW r, IsRow(r), NEW t \in Node, r < t,
         answers_for(rust_attribute_run_verdict(r), t)
  PROVE  \/ rust_attributed_item(r) # {} /\ t = ItemOf(r)
         \/ t \in siblings(r) /\ kind[t] \in RunMember /\ r \in run_before(t) /\ t # 1
<1> DEFINE v == rust_attribute_run_verdict(r)
           none == rust_attributed_item(r) = {}
           p == parent[r]
<1>1. /\ none => v.through = end_byte(p) /\ v.node = 0
      /\ ~none => /\ v.through = start_byte(ItemOf(r)) /\ v.node = ItemOf(r)
                  /\ ItemOf(r) \in siblings(r) /\ ItemOf(r) \in Node /\ r < ItemOf(r)
      /\ \A m \in siblings(r) : r < m /\ (none \/ m < ItemOf(r)) => kind[m] \in RunMember
  BY ItemFacts
<1>2. /\ r \in Node \ {1} /\ p \in Node /\ p < r /\ siblings(r) = Kids(p) /\ below(r) = {}
      /\ kind[r] \in RunMember /\ r \in siblings(r)
  BY RowFacts
<1>3. t = v.node \/ start_byte(t) < v.through
  BY DEF answers_for
<1>4. t # 0
  BY DEF Node
<1> HIDE DEF v
<1>5. CASE ~none /\ t = ItemOf(r)
  BY <1>5
<1>6. CASE ~(~none /\ t = ItemOf(r))
  <2>1. start_byte(t) < v.through
    BY <1>1, <1>3, <1>4, <1>6
  <2>2. p \in ancestors[t] /\ (none \/ t < ItemOf(r))
    <3>1. CASE none
      <4>1. p < t
        BY <1>2 DEF Node
      <4> QED
        BY <1>1, <1>2, <2>1, <3>1, <4>1, BytesNest
    <3>2. CASE ~none
      <4>1. ItemOf(r) \in Node /\ start_byte(t) < start_byte(ItemOf(r)) /\ ItemOf(r) \in Kids(p)
        BY <1>1, <1>2, <2>1, <3>2
      <4>2. ~(ItemOf(r) <= t)
        <5> SUFFICES ASSUME ItemOf(r) <= t PROVE FALSE
          OBVIOUS
        <5>1. start_byte(ItemOf(r)) <= start_byte(t)
          BY <4>1, BytesGrow
        <5>2. start_byte(ItemOf(r)) \in Nat /\ start_byte(t) \in Nat
          BY <4>1, BytesGrow
        <5> QED
          BY <4>1, <5>1, <5>2
      <4>3. t < ItemOf(r)
        BY <4>1, <4>2 DEF Node
      <4>4. p \in ancestors[ItemOf(r)]
        BY <4>1, AncestorFacts DEF Kids
      <4>5. p < t /\ t <= ItemOf(r)
        BY <1>2, <4>1, <4>3 DEF Node
      <4>6. p \in ancestors[t]
        BY <4>1, <4>4, <4>5, Between
      <4> QED
        BY <4>3, <4>6
    <3> QED
      BY <3>1, <3>2
  <2>3. PICK c \in siblings(r) : r < c /\ c <= t /\ (c = t \/ c \in ancestors[t])
    BY <2>2, InsideRun
  <2>4. c \in Node /\ c # 1
    BY <1>2 DEF Kids
  <2>5. kind[c] \in RunMember
    <3>1. none \/ c < ItemOf(r)
      BY <1>1, <2>2, <2>3, <2>4 DEF Node
    <3> QED
      BY <1>1, <2>3, <3>1
  <2>6. c = t
    <3>1. below(c) = {}
      BY <2>4, <2>5 DEF TreeRight
    <3> QED
      BY <2>3, <3>1 DEF below
  <2>7. siblings(t) = siblings(r)
    BY <1>2, <2>3, <2>4, <2>6 DEF siblings, Kids
  <2>8. ASSUME NEW k \in siblings(t), r <= k, k < t PROVE kind[k] \in RunMember
    <3>1. k \in siblings(r) /\ k \in Node
      BY <1>2, <2>7 DEF Kids
    <3>2. CASE k = r
      BY <1>2, <3>2
    <3>3. CASE k # r
      <4>1. r < k /\ (none \/ k < ItemOf(r))
        BY <1>1, <1>2, <2>2, <2>8, <3>1, <3>3 DEF Node
      <4> QED
        BY <1>1, <3>1, <4>1
    <3> QED
      BY <3>2, <3>3
  <2>9. r \in run_before(t)
    BY <1>2, <2>7, <2>8 DEF run_before
  <2> QED
    BY <2>3, <2>4, <2>5, <2>6, <2>9
<1> QED
  BY <1>5, <1>6

\* A row and what is in its run are siblings of one run.
LEMMA RunFacts ==
  ASSUME TreeRight, NEW r, IsRow(r), NEW n \in Node, r \in run_before(n)
  PROVE  /\ n \in siblings(r) /\ siblings(n) = siblings(r) /\ r < n /\ n # 1
         /\ \A k \in siblings(r) : r <= k /\ k < n => kind[k] \in RunMember
<1>1. /\ r \in Node \ {1} /\ siblings(r) = Kids(parent[r])
  BY RowFacts
<1>2. /\ r \in siblings(n) /\ r < n
      /\ \A k \in siblings(n) : r <= k /\ k < n => kind[k] \in RunMember
  BY DEF run_before
<1>3. n # 1 /\ parent[r] = parent[n]
  BY <1>1, <1>2 DEF siblings
<1>4. siblings(n) = siblings(r) /\ n \in siblings(r)
  BY <1>1, <1>3 DEF siblings
<1> QED
  BY <1>2, <1>3, <1>4

\* The verdict answers for the rest of the run.
LEMMA AnswersRun ==
  ASSUME TreeRight, NEW r, IsRow(r), NEW n \in Node, r \in run_before(n), kind[n] \in RunMember
  PROVE  /\ answers_for(rust_attribute_run_verdict(r), n)
         /\ rust_attributed_item(r) # {} => n < ItemOf(r)
<1> DEFINE v == rust_attribute_run_verdict(r)
           none == rust_attributed_item(r) = {}
           p == parent[r]
<1>1. /\ none => v.through = end_byte(p)
      /\ ~none => /\ v.through = start_byte(ItemOf(r)) /\ ItemOf(r) \in siblings(r)
                  /\ ItemOf(r) \in Node /\ r < ItemOf(r) /\ kind[ItemOf(r)] \notin RunMember
  BY ItemFacts
<1>2. /\ r \in Node \ {1} /\ p \in Node /\ p < r /\ siblings(r) = Kids(p)
  BY RowFacts
<1>3. /\ n \in siblings(r) /\ r < n /\ n # 1
      /\ \A k \in siblings(r) : r <= k /\ k < n => kind[k] \in RunMember
  BY RunFacts
<1>4. below(n) = {}
  BY DEF TreeRight
<1>5. p < n /\ p \in ancestors[n]
  <2>1. n \in Node \ {1} /\ parent[n] = p
    BY <1>2, <1>3 DEF Kids
  <2> QED
    BY <2>1, AncestorFacts
<1> HIDE DEF v
<1>6. ASSUME ~none PROVE n < ItemOf(r)
  <2>1. ~(ItemOf(r) < n) /\ ItemOf(r) # n
    <3>1. r <= ItemOf(r)
      BY <1>1, <1>2, <1>6 DEF Node
    <3> QED
      BY <1>1, <1>3, <1>6, <3>1
  <2> QED
    BY <1>1, <1>6, <2>1 DEF Node
<1>7. start_byte(n) < v.through
  <2>1. CASE none
    BY <1>1, <1>2, <1>4, <1>5, <2>1, BytesNest
  <2>2. CASE ~none
    BY <1>1, <1>4, <1>6, <2>2, BytesGrow
  <2> QED
    BY <2>1, <2>2
<1> QED
  BY <1>6, <1>7 DEF answers_for, v

-----------------------------------------------------------------------------
\* Runs compose.
LEMMA RunChain ==
  ASSUME TreeRight, NEW r, IsRow(r), NEW m, IsRow(m), NEW n \in Node,
         r \in run_before(m), m \in run_before(n)
  PROVE  r \in run_before(n)
<1>1. /\ m \in siblings(r) /\ siblings(m) = siblings(r) /\ r < m
      /\ \A k \in siblings(r) : r <= k /\ k < m => kind[k] \in RunMember
  BY RunFacts DEF IsRow
<1>2. /\ siblings(n) = siblings(m) /\ m < n
      /\ \A k \in siblings(m) : m <= k /\ k < n => kind[k] \in RunMember
  BY RunFacts
<1>3. r \in Node /\ m \in Node /\ r \in siblings(r) /\ siblings(r) \subseteq Node
  BY RowFacts DEF IsRow, Kids
<1>4. ASSUME NEW k \in siblings(n), r <= k, k < n PROVE kind[k] \in RunMember
  <2>1. k \in siblings(r) /\ k \in Node
    BY <1>1, <1>2, <1>3
  <2>2. k < m \/ m <= k
    BY <1>3, <2>1 DEF Node
  <2> QED
    BY <1>1, <1>2, <1>4, <2>1, <2>2
<1>5. r < n /\ r \in siblings(n)
  BY <1>1, <1>2, <1>3 DEF Node
<1> QED
  BY <1>4, <1>5 DEF run_before

\* What is no member of a run goes when it is test code itself.
LEMMA GoesAlone ==
  ASSUME TreeRight, NEW n \in Node, kind[n] \notin RunMember
  PROVE  Goes(n) <=> MarkedTest(n)
<1>1. ASSUME NEW item \in siblings(n), n \in run_before(item) PROVE FALSE
  <2>1. /\ n \in siblings(item) /\ n < item
        /\ \A k \in siblings(item) : n <= k /\ k < item => kind[k] \in RunMember
    BY <1>1 DEF run_before
  <2>2. n <= n
    BY DEF Node
  <2> QED
    BY <2>1, <2>2
<1> QED
  BY <1>1 DEF Goes

\* The members of a run, from its attribute row on, go with its item.
LEMMA GoesRun ==
  ASSUME TreeRight, NEW r, IsRow(r), NEW n \in Node, InRun(r, n), kind[n] \in RunMember
  PROVE  Goes(n) <=> rust_attribute_run_verdict(r).skipped
<1> DEFINE v == rust_attribute_run_verdict(r)
           none == rust_attributed_item(r) = {}
           o == ItemOf(r)
<1>1. /\ none => v.skipped = FALSE
      /\ ~none => /\ v.skipped = (kind[o] \in Prunable /\ rust_item_is_test_only(o))
                  /\ o \in siblings(r) /\ o \in Node /\ r < o
                  /\ kind[o] \notin RunMember
      /\ \A m \in siblings(r) : r < m /\ (none \/ m < o) => kind[m] \in RunMember
  BY ItemFacts
<1>2. /\ r \in Node \ {1} /\ r \in siblings(r) /\ siblings(r) = Kids(parent[r])
      /\ siblings(r) \subseteq Node \ {1} /\ kind[r] \in RunMember
  BY RowFacts DEF Kids
<1>3. n \in siblings(r) /\ siblings(n) = siblings(r) /\ r <= n
  <2>1. CASE n = r
    BY <1>2, <2>1 DEF Node
  <2>2. CASE n # r
    <3>1. n \in siblings(r) /\ siblings(n) = siblings(r) /\ r < n
      BY <2>2, RunFacts DEF InRun
    <3> QED
      BY <1>2, <3>1 DEF Node
  <2> QED
    BY <2>1, <2>2
<1>4. ~none => n < o
  BY <1>1, AnswersRun DEF InRun
<1>5. ~MarkedTest(n)
  BY DEF MarkedTest, RunMember, AttributeRow, Marker, Prunable
<1> HIDE DEF v
<1>6. ASSUME v.skipped PROVE Goes(n)
  <2>1. ~none /\ MarkedTest(o)
    BY <1>1, <1>6 DEF MarkedTest, rust_item_is_test_only
  <2>2. o \in siblings(r) /\ o \in Node \ {1} /\ siblings(o) = siblings(r)
    <3>1. o \in siblings(r) /\ o \in Node \ {1}
      BY <1>1, <1>2, <2>1
    <3>2. parent[o] = parent[r]
      BY <1>2, <3>1 DEF Kids
    <3> QED
      BY <1>2, <3>1, <3>2 DEF siblings
  <2>3. ASSUME NEW k \in siblings(o), r <= k, k < o PROVE kind[k] \in RunMember
    <3>1. k \in siblings(r) /\ k \in Node /\ (k = r \/ r < k)
      BY <1>2, <2>2, <2>3 DEF Node
    <3> QED
      BY <1>1, <1>2, <2>3, <3>1
  <2>4. r \in run_before(o)
    BY <1>1, <1>2, <2>1, <2>2, <2>3 DEF run_before
  <2>5. n \in run_before(o)
    <3>1. ASSUME NEW k \in siblings(o), n <= k, k < o PROVE kind[k] \in RunMember
      <4>1. r <= k
        BY <1>2, <1>3, <2>2, <3>1 DEF Node
      <4> QED
        BY <2>3, <3>1, <4>1
    <3> QED
      BY <1>3, <1>4, <2>1, <2>2, <3>1 DEF run_before
  <2>6. o \in siblings(n) /\ kind[r] \in AttributeRow
    BY <1>3, <2>2 DEF IsRow
  <2> QED
    BY <1>3, <2>1, <2>4, <2>5, <2>6 DEF Goes
<1>7. ASSUME Goes(n) PROVE v.skipped
  <2>1. PICK item \in siblings(n) : MarkedTest(item) /\ n \in run_before(item)
    BY <1>5, <1>7 DEF Goes
  <2>2. /\ n < item /\ \A k \in siblings(item) : n <= k /\ k < item => kind[k] \in RunMember
    BY <2>1 DEF run_before
  <2>3. item \in Node \ {1} /\ item \in siblings(r) /\ siblings(item) = siblings(r)
    <3>1. item \in Node \ {1} /\ item \in siblings(r)
      BY <1>2, <1>3, <2>1
    <3>2. parent[item] = parent[r]
      BY <1>2, <3>1 DEF Kids
    <3> QED
      BY <1>2, <3>1, <3>2 DEF siblings
  <2>4. kind[item] \notin RunMember
    BY <2>1 DEF MarkedTest, RunMember, AttributeRow, Marker, Prunable
  <2>5. r < item
    BY <1>2, <1>3, <2>2, <2>3 DEF Node
  <2>6. ~none /\ ~(item < o)
    BY <1>1, <2>3, <2>4, <2>5
  <2>7. ~(o < item)
    <3>1. n <= o /\ o \in siblings(item)
      BY <1>1, <1>4, <2>3, <2>6 DEF Node
    <3> QED
      BY <1>1, <2>2, <2>6, <3>1
  <2>8. item = o
    BY <1>1, <2>3, <2>6, <2>7 DEF Node
  <2>9. kind[o] \in Prunable /\ rust_item_is_test_only(o)
    BY <2>1, <2>8 DEF MarkedTest, rust_item_is_test_only
  <2> QED
    BY <1>1, <2>6, <2>9
<1> QED
  BY <1>6, <1>7 DEF v

\* A comment before every attribute row of its run stays.
LEMMA CommentStays ==
  ASSUME TreeRight, NEW n \in Node, n # 1, kind[n] \in Marker,
         \A m \in Node : IsRow(m) => m \notin run_before(n)
  PROVE  ~Goes(n)
<1>1. ~MarkedTest(n)
  BY DEF MarkedTest, Marker, Prunable
<1>2. ASSUME NEW item \in siblings(n), n \in run_before(item),
             NEW m \in run_before(item), m <= n, kind[m] \in AttributeRow
      PROVE  FALSE
  <2>1. n # m
    BY <1>2 DEF Marker, AttributeRow
  <2>2. item \in Node \ {1} /\ siblings(item) = siblings(n)
    BY <1>2 DEF siblings
  <2>3. /\ m \in siblings(n) /\ m \in Node /\ n < item
        /\ \A k \in siblings(n) : m <= k /\ k < item => kind[k] \in RunMember
    BY <1>2, <2>2 DEF run_before, siblings
  <2>4. m < n /\ \A k \in Node : k < n => k < item
    BY <1>2, <2>1, <2>2, <2>3 DEF Node
  <2>5. siblings(n) \subseteq Node
    BY DEF siblings
  <2>6. m \in run_before(n)
    BY <2>3, <2>4, <2>5 DEF run_before
  <2> QED
    BY <1>2, <2>3, <2>6 DEF IsRow
<1> QED
  BY <1>1, <1>2 DEF Goes

\* The verdict about the node in hand is right.
LEMMA VerdictRight ==
  ASSUME Walking, RunRight, stack # <<>>
  PROVE  prunes_subtree <=> Top.node \in Gone
<1> DEFINE t == Top.node
<1>1. t \in Node /\ Reached = t /\ t # 0
  BY TopFacts DEF Reached, Node
<1> HIDE DEF t
<1>2. CASE ~exclude_tests
  BY <1>2 DEF prunes_subtree, Gone
<1>3. CASE exclude_tests /\ answers_for(run_verdict, t)
  <2>1. Verdict = run_verdict
    BY <1>3 DEF Verdict, t
  <2>2. PICK r \in Node : IsRow(r) /\ r < t /\ run_verdict = rust_attribute_run_verdict(r)
    <3>1. ~(run_verdict.through = 0 /\ run_verdict.node = 0)
      <4>1. start_byte(t) \in Nat
        BY <1>1, BytesGrow DEF Walking
      <4> QED
        BY <1>1, <1>3, <4>1 DEF answers_for
    <3> QED
      BY <1>1, <1>3, <3>1 DEF RunRight
  <2>3. \/ rust_attributed_item(r) # {} /\ t = ItemOf(r)
        \/ t \in siblings(r) /\ kind[t] \in RunMember /\ r \in run_before(t)
    BY <1>1, <1>3, <2>2, AnsweredIs DEF Walking
  <2>4. Goes(t) <=> run_verdict.skipped
    <3>1. CASE rust_attributed_item(r) # {} /\ t = ItemOf(r)
      <4>1. /\ run_verdict.skipped = (kind[t] \in Prunable /\ rust_item_is_test_only(t))
            /\ kind[t] \notin RunMember
        BY <2>2, <3>1, ItemFacts DEF Walking
      <4>2. Goes(t) <=> MarkedTest(t)
        BY <1>1, <4>1, GoesAlone DEF Walking
      <4> QED
        BY <4>1, <4>2 DEF MarkedTest, rust_item_is_test_only
    <3>2. CASE kind[t] \in RunMember /\ r \in run_before(t)
      BY <1>1, <2>2, <3>2, GoesRun DEF Walking, InRun
    <3> QED
      BY <2>3, <3>1, <3>2
  <2> QED
    BY <1>1, <1>3, <2>1, <2>4 DEF prunes_subtree, Gone, t
<1>4. CASE exclude_tests /\ ~answers_for(run_verdict, t)
  <2>1. Verdict = should_skip_subtree(t)
    BY <1>4 DEF Verdict, t
  <2>2. Goes(t) <=> should_skip_subtree(t).skipped
    <3>1. CASE kind[t] \in AttributeRow
      <4>1. should_skip_subtree(t) = rust_attribute_run_verdict(t)
        BY <3>1 DEF should_skip_subtree
      <4>2. IsRow(t) /\ InRun(t, t) /\ kind[t] \in RunMember
        BY <1>1, <3>1 DEF IsRow, InRun, RunMember
      <4> QED
        BY <1>1, <4>1, <4>2, GoesRun DEF Walking
    <3>2. CASE kind[t] \notin AttributeRow
      <4>1. should_skip_subtree(t).skipped = MarkedTest(t)
        BY <3>2 DEF should_skip_subtree, MarkedTest, rust_item_is_test_only
      <4>2. CASE kind[t] \notin RunMember
        BY <1>1, <4>1, <4>2, GoesAlone DEF Walking
      <4>3. CASE kind[t] \in RunMember
        <5>1. kind[t] \in Marker /\ t # 1
          BY <3>2, <4>3 DEF RunMember, Marker, AttributeRow, Walking, TreeRight
        <5>2. ASSUME NEW m \in Node, IsRow(m), m \in run_before(t) PROVE FALSE
          <6>1. m < t
            BY <5>2 DEF run_before
          <6>2. t >= Reached /\ m < Reached
            BY <1>1, <6>1 DEF Node
          <6>3. PICK r \in Node : /\ IsRow(r) /\ InRun(r, m)
                                  /\ run_verdict = rust_attribute_run_verdict(r)
            BY <1>1, <1>4, <4>3, <5>2, <6>2 DEF RunRight
          <6>4. r \in run_before(t)
            BY <1>1, <5>2, <6>3, RunChain DEF InRun, Walking
          <6> QED
            BY <1>1, <1>4, <4>3, <6>3, <6>4, AnswersRun DEF Walking
        <5>3. ~Goes(t)
          BY <1>1, <5>1, <5>2, CommentStays DEF Walking
        <5>4. ~MarkedTest(t)
          BY <5>1 DEF MarkedTest, Marker, Prunable
        <5> QED
          BY <4>1, <5>3, <5>4
      <4> QED
        BY <4>2, <4>3
    <3> QED
      BY <3>1, <3>2
  <2> QED
    BY <1>1, <1>4, <2>1, <2>2 DEF prunes_subtree, Gone, t
<1> QED
  BY <1>2, <1>3, <1>4

-----------------------------------------------------------------------------
\* What depends on the input only stays, third part.
LEMMA TestsKept ==
  ASSUME UNCHANGED input
  PROVE  /\ \A n : /\ siblings(n)' = siblings(n) /\ run_before(n)' = run_before(n)
                   /\ rust_attribute_run_verdict(n)' = rust_attribute_run_verdict(n)
                   /\ IsRow(n)' <=> IsRow(n)
         /\ \A r, n : InRun(r, n)' <=> InRun(r, n)
         /\ Gone' = Gone
<1>1. /\ kind' = kind /\ parent' = parent /\ exclude_tests' = exclude_tests
      /\ \A n : below(n)' = below(n)
  BY InputKept
<1>2. \A n : siblings(n)' = siblings(n) /\ (IsRow(n)' <=> IsRow(n))
  BY <1>1 DEF siblings, IsRow
<1>3. \A n : run_before(n)' = run_before(n)
  BY <1>1, <1>2 DEF run_before
<1>4. \A n : /\ rust_item_is_test_only(n)' <=> rust_item_is_test_only(n)
             /\ rust_attributed_item(n)' = rust_attributed_item(n)
             /\ MarkedTest(n)' <=> MarkedTest(n)
  BY <1>1, <1>2, <1>3 DEF rust_item_is_test_only, rust_attributed_item, MarkedTest
<1>5. \A n : start_byte(n)' = start_byte(n) /\ end_byte(n)' = end_byte(n)
  <2>1. \A S : leaves(S)' = leaves(S)
    BY <1>1 DEF leaves
  <2>2. \A n : start_byte(n)' = start_byte(n)
    BY <2>1 DEF start_byte
  <2> QED
    BY <1>1, <2>1, <2>2 DEF end_byte
<1>6. \A n : rust_attribute_run_verdict(n)' = rust_attribute_run_verdict(n)
  BY <1>1, <1>4, <1>5 DEF rust_attribute_run_verdict
<1>7. \A n : Goes(n)' <=> Goes(n)
  BY <1>1, <1>2, <1>3, <1>4 DEF Goes
<1>8. Gone' = Gone
  BY <1>1, <1>7 DEF Gone
<1>9. \A r, n : InRun(r, n)' <=> InRun(r, n)
  BY <1>3 DEF InRun
<1> QED
  BY <1>2, <1>3, <1>6, <1>8, <1>9

\* The top of the stack is the least of the nodes that wait.
LEMMA LastLeast ==
  ASSUME NEW s \in Seq(Entry), \A i, j \in 1..Len(s) : i < j => s[j].node < s[i].node
  PROVE  s # <<>> => /\ \E i \in 1..Len(s) : s[i].node = Last(s).node
                     /\ \A i \in 1..Len(s) : Last(s).node <= s[i].node
                     /\ Last(s).node \in Node
<1> SUFFICES ASSUME s # <<>>
             PROVE  /\ \E i \in 1..Len(s) : s[i].node = Last(s).node
                    /\ \A i \in 1..Len(s) : Last(s).node <= s[i].node
                    /\ Last(s).node \in Node
  OBVIOUS
<1>1. /\ Len(s) \in Nat /\ Len(s) > 0 /\ Last(s) = s[Len(s)]
      /\ \A i \in 1..Len(s) : s[i] \in Entry
  <2> HIDE DEF Entry
  <2>1. s \in Seq(Entry) /\ s # <<>>
    OBVIOUS
  <2>2. Len(s) \in Nat /\ Len(s) > 0 /\ Last(s) = s[Len(s)]
    BY <2>1, FrontFacts
  <2>3. \A i \in 1..Len(s) : s[i] \in Entry
    BY <2>1
  <2> QED
    BY <2>2, <2>3
<1>2. \A i \in 1..Len(s) : s[i].node \in Node
  BY <1>1 DEF Entry
<1>3. ASSUME NEW i \in 1..Len(s) PROVE Last(s).node <= s[i].node
  <2>1. Len(s) \in 1..Len(s) /\ (i = Len(s) \/ i < Len(s))
    BY <1>1
  <2>2. s[i].node = Last(s).node \/ Last(s).node < s[i].node
    BY <1>1, <2>1
  <2> QED
    BY <1>1, <1>2, <2>1, <2>2 DEF Node
<1> QED
  BY <1>1, <1>2, <1>3

\* What the walk reaches next.
LEMMA NextReached ==
  ASSUME Walking, FrontRight, Prune \/ Visit
  PROVE  LET t == Top.node IN
         /\ t \in Node /\ Reached = t /\ Reached' \in Nat /\ t < Reached'
         /\ \A n \in Node : n >= Reached' => \E w \in WaitingNodes' : n = w \/ w \in ancestors[n]
         /\ \A n \in Node : t < n /\ n < Reached' => Prune /\ t \in ancestors[n]
         /\ \A n \in Node : n >= Reached' => Visit \/ t \notin ancestors[n]
<1> DEFINE t == Top.node
           W == WaitingNodes'
<1>0. stack # <<>> /\ UNCHANGED input
  BY DEF Prune, Visit
<1>1. t \in Node /\ Reached = t /\ Len(stack) \in Nat /\ Len(stack) > 0 /\ TreeRight
  BY <1>0, TopFacts DEF Reached, Walking
<1>2. TypeRight' /\ StackRight'
  BY PruneKeeps, VisitKeeps
<1>3. /\ stack' \in Seq(Entry)
      /\ \A i, j \in 1..Len(stack') : i < j => stack'[j].node < stack'[i].node
  BY <1>2 DEF TypeRight, StackRight
<1>4. /\ Reached' = IF stack' = <<>> THEN N + 1 ELSE Last(stack').node
      /\ W = {stack'[i].node : i \in 1..Len(stack')}
  BY DEF Reached, Top, WaitingNodes
<1>5. stack' # <<>> => /\ Reached' \in W /\ Reached' \in Node
                       /\ \A w \in W : Reached' <= w
  <2>1. stack' # <<>> => /\ \E i \in 1..Len(stack') : stack'[i].node = Last(stack').node
                         /\ \A i \in 1..Len(stack') : Last(stack').node <= stack'[i].node
                         /\ Last(stack').node \in Node
    BY <1>3, LastLeast
  <2> QED
    BY <1>4, <2>1
<1>6. stack' = <<>> => W = {} /\ Reached' = N + 1
  <2>1. stack' = <<>> => Len(stack') = 0
    OBVIOUS
  <2> QED
    BY <1>4, <2>1
<1>7. /\ WaitingNodes \ {t} \subseteq W
      /\ \A w \in W : w \in Node /\ t < w
  <2>1. \A w \in WaitingNodes \ {t} : w \in Node /\ t < w
    BY <1>0, WaitingDistinct
  <2>2. CASE Prune
    BY <2>1, <2>2, WaitingPruned
  <2>3. CASE Visit
    <3>1. W = (WaitingNodes \ {t}) \cup Kids(t)
      BY <2>3, WaitingVisited
    <3>2. \A w \in Kids(t) : w \in Node /\ t < w
      BY <1>1, AncestorFacts DEF Kids
    <3> QED
      BY <2>1, <3>1, <3>2
  <2> QED
    BY <2>2, <2>3
<1>8. Reached' \in Nat /\ t < Reached'
  <2>1. CASE stack' = <<>>
    BY <1>1, <1>6, <2>1, Nodes DEF Node
  <2>2. CASE stack' # <<>>
    BY <1>5, <1>7, <2>2, Nodes
  <2> QED
    BY <2>1, <2>2
<1>9. ASSUME NEW n \in Node, t < n
      PROVE  t \in ancestors[n] \/ \E w \in W : n = w \/ w \in ancestors[n]
  <2>1. n >= Reached
    BY <1>1, <1>9 DEF Node
  <2>2. PICK w \in WaitingNodes : n = w \/ w \in ancestors[n]
    BY <2>1 DEF FrontRight
  <2>3. CASE w = t
    BY <1>1, <1>9, <2>2, <2>3 DEF Node
  <2>4. CASE w # t
    BY <1>7, <2>2, <2>4
  <2> QED
    BY <2>3, <2>4
<1> HIDE DEF W
<1>10. ASSUME NEW n \in Node, n < Reached', NEW w \in W, n = w \/ w \in ancestors[n]
       PROVE  FALSE
  <2>1. stack' # <<>> /\ Reached' <= w /\ w \in Node
    BY <1>5, <1>6, <1>7, <1>10
  <2>2. w <= n
    BY <1>1, <1>10, <2>1, AncestorFacts DEF Node
  <2> QED
    BY <1>8, <1>10, <2>1, <2>2 DEF Node
<1>11. ASSUME NEW n \in Node, n >= Reached', t \in ancestors[n], Prune PROVE FALSE
  <2>1. stack' # <<>>
    BY <1>6, <1>11, Nodes
  <2>2. stack' = Front(stack) /\ stack \in Seq(Entry)
    BY <1>11 DEF Prune, Walking, TypeRight
  <2>3. Len(stack') = Len(stack) - 1 /\ \A i \in 1..(Len(stack) - 1) : stack'[i] = stack[i]
    <3> HIDE DEF Entry
    <3> QED
      BY <1>0, <2>2, FrontFacts
  <2>4. PICK i \in 1..Len(stack') : Reached' = stack'[i].node
    BY <1>4, <1>5, <2>1 DEF W
  <2>5. i \in 1..(Len(stack) - 1) /\ Reached' = stack[i].node
    BY <2>3, <2>4
  <2>6. n < stack[i].node
    BY <1>0, <1>11, <2>5, BelowFirst
  <2> QED
    BY <1>8, <1>11, <2>5, <2>6 DEF Node
<1>12. ASSUME NEW n \in Node, t \in ancestors[n], Visit
       PROVE  \E w \in W : n = w \/ w \in ancestors[n]
  <2>1. PICK c \in Kids(t) : c = n \/ c \in ancestors[n]
    BY <1>1, <1>12, ChildToward
  <2>2. c \in W
    BY <1>12, WaitingVisited DEF W
  <2> QED
    BY <2>1, <2>2
<1>13. ASSUME NEW n \in Node, n >= Reached' PROVE \E w \in W : n = w \/ w \in ancestors[n]
  <2>1. t < n
    BY <1>1, <1>8, <1>13 DEF Node
  <2> QED
    BY <1>9, <1>11, <1>12, <1>13, <2>1
<1>14. ASSUME NEW n \in Node, t < n, n < Reached' PROVE Prune /\ t \in ancestors[n]
  BY <1>9, <1>10, <1>12, <1>14
<1> QED
  BY <1>1, <1>8, <1>11, <1>13, <1>14 DEF W

\* Nothing waits below a node that goes, and the walk sees all the rest.
LEMMA KeptStays ==
  ASSUME Walking, FrontRight, KeptRight, RunRight, Prune \/ Visit
  PROVE  FrontRight' /\ KeptRight'
<1> DEFINE t == Top.node
<1>0. stack # <<>> /\ UNCHANGED input
  BY DEF Prune, Visit
<1>1. Gone' = Gone /\ ancestors' = ancestors /\ t \in WaitingNodes /\ t \in Node
  BY <1>0, TestsKept, InputKept, TopFacts DEF WaitingNodes
<1>2. FrontRight'
  <2>1. \A n \in Node : n >= Reached' => \E w \in WaitingNodes' : n = w \/ w \in ancestors[n]
    BY NextReached
  <2> QED
    BY <1>1, <2>1 DEF FrontRight
<1>3. ASSUME NEW w \in WaitingNodes' PROVE ancestors[w] \cap Gone = {}
  <2>1. CASE w \in WaitingNodes
    BY <2>1 DEF KeptRight
  <2>2. CASE w \notin WaitingNodes
    <3>1. Visit /\ w \in Kids(t)
      BY <1>3, <2>2, WaitingPruned, WaitingVisited
    <3>2. ancestors[w] = {t} \cup ancestors[t]
      BY <3>1, AncestorFacts DEF Kids, Walking
    <3>3. t \notin Gone
      <4>1. ~prunes_subtree
        BY <3>1 DEF Visit
      <4> QED
        BY <1>0, <4>1, VerdictRight
    <3>4. ancestors[t] \cap Gone = {}
      BY <1>1 DEF KeptRight
    <3> QED
      BY <3>2, <3>3, <3>4
  <2> QED
    BY <2>1, <2>2
<1>4. KeptRight'
  BY <1>1, <1>3 DEF KeptRight
<1> QED
  BY <1>2, <1>4

\* Every run that goes on keeps its verdict.
LEMMA RunStays ==
  ASSUME Walking, FrontRight, RunRight, Prune \/ Visit
  PROVE  RunRight'
<1> DEFINE t == Top.node
           v == run_verdict
<1>0. stack # <<>> /\ UNCHANGED input /\ run_verdict' = Verdict
  BY DEF Prune, Visit
<1>1. /\ \A n : /\ siblings(n)' = siblings(n) /\ run_before(n)' = run_before(n)
                /\ rust_attribute_run_verdict(n)' = rust_attribute_run_verdict(n)
                /\ IsRow(n)' <=> IsRow(n)
      /\ \A r, n : InRun(r, n)' <=> InRun(r, n)
      /\ kind' = kind /\ exclude_tests' = exclude_tests
  BY <1>0, TestsKept, InputKept
<1>2. /\ t \in Node /\ Reached = t /\ Reached' \in Nat /\ t < Reached' /\ TreeRight
      /\ \A n \in Node : t < n /\ n < Reached' => Prune /\ t \in ancestors[n]
      /\ \A n \in Node : n >= Reached' => Visit \/ t \notin ancestors[n]
  BY NextReached DEF Walking
<1>3. ~(Prune /\ Visit)
  BY DEF Prune, Visit
<1> HIDE DEF t
<1> SUFFICES ASSUME exclude_tests
             PROVE  /\ \/ Verdict.through = 0 /\ Verdict.node = 0
                       \/ \E r \in Node : /\ IsRow(r) /\ r < Reached'
                                          /\ Verdict = rust_attribute_run_verdict(r)
                    /\ \A m, n \in Node :
                         /\ IsRow(m) /\ kind[n] \in RunMember /\ m \in run_before(n)
                         /\ m < Reached' /\ n >= Reached'
                         => \E r \in Node : /\ IsRow(r) /\ InRun(r, m)
                                            /\ Verdict = rust_attribute_run_verdict(r)
  BY <1>0, <1>1 DEF RunRight
<1>4. Verdict = IF answers_for(v, t) THEN v ELSE should_skip_subtree(t)
  BY DEF Verdict, t
<1>5. answers_for(v, t) => \E r \in Node : /\ IsRow(r) /\ r < t
                                           /\ v = rust_attribute_run_verdict(r)
  <2>1. start_byte(t) \in Nat /\ t # 0
    BY <1>2, BytesGrow DEF Node
  <2> QED
    BY <1>2, <2>1 DEF answers_for, RunRight
<1>6. /\ kind[t] \in AttributeRow => should_skip_subtree(t) = rust_attribute_run_verdict(t)
      /\ kind[t] \notin AttributeRow => should_skip_subtree(t).through = 0
                                        /\ should_skip_subtree(t).node = 0
  BY DEF should_skip_subtree
<1>7. \/ Verdict.through = 0 /\ Verdict.node = 0
      \/ \E r \in Node : /\ IsRow(r) /\ r < Reached'
                         /\ Verdict = rust_attribute_run_verdict(r)
  <2>1. CASE answers_for(v, t)
    <3>1. PICK r \in Node : IsRow(r) /\ r < t /\ v = rust_attribute_run_verdict(r)
      BY <1>5, <2>1
    <3>2. r < Reached'
      BY <1>2, <3>1 DEF Node
    <3> QED
      BY <1>4, <2>1, <3>1, <3>2
  <2>2. CASE ~answers_for(v, t) /\ kind[t] \in AttributeRow
    BY <1>2, <1>4, <1>6, <2>2 DEF IsRow
  <2>3. CASE ~answers_for(v, t) /\ kind[t] \notin AttributeRow
    BY <1>4, <1>6, <2>3
  <2> QED
    BY <2>1, <2>2, <2>3
<1>8. ASSUME NEW m \in Node, NEW n \in Node,
             IsRow(m), kind[n] \in RunMember, m \in run_before(n), m < Reached', n >= Reached'
      PROVE  \E r \in Node : /\ IsRow(r) /\ InRun(r, m)
                             /\ Verdict = rust_attribute_run_verdict(r)
  <2>0. /\ n \in siblings(m) /\ siblings(n) = siblings(m) /\ m < n /\ n # 1
        /\ m \in Node \ {1} /\ siblings(m) = Kids(parent[m]) /\ t < n
    <3>1. /\ n \in siblings(m) /\ siblings(n) = siblings(m) /\ m < n /\ n # 1
      BY <1>2, <1>8, RunFacts
    <3>2. m \in Node \ {1} /\ siblings(m) = Kids(parent[m])
      BY <1>2, <1>8, RowFacts
    <3>3. t < n
      BY <1>2, <1>8 DEF Node
    <3> QED
      BY <3>1, <3>2, <3>3
  <2>1. CASE m < t
    <3>1. PICK r \in Node : IsRow(r) /\ InRun(r, m) /\ v = rust_attribute_run_verdict(r)
      BY <1>2, <1>8, <2>0, <2>1 DEF RunRight, Node
    <3>2. r <= m /\ r \in run_before(n)
      <4>1. CASE r = m
        BY <1>8, <4>1 DEF Node
      <4>2. CASE r \in run_before(m)
        <5>1. r \in run_before(n)
          BY <1>2, <1>8, <3>1, <4>2, RunChain
        <5>2. r < m
          BY <4>2 DEF run_before
        <5> QED
          BY <5>1, <5>2, <3>1 DEF Node
      <4> QED
        BY <3>1, <4>1, <4>2 DEF InRun
    <3>3. r < t
      BY <1>2, <2>1, <3>2 DEF Node
    <3>4. /\ r \in Node \ {1} /\ parent[r] \in Node /\ parent[r] < r /\ siblings(r) = Kids(parent[r])
      BY <1>2, <3>1, RowFacts
    <3>5. /\ n \in siblings(r)
          /\ \A k \in siblings(r) : r <= k /\ k < n => kind[k] \in RunMember
      BY <1>2, <3>1, <3>2, RunFacts
    <3>6. parent[r] \in ancestors[t]
      <4>1. parent[r] \in ancestors[n] /\ parent[r] < t /\ t <= n
        BY <1>2, <2>0, <3>3, <3>4, <3>5, AncestorFacts DEF Kids, Node
      <4> QED
        BY <1>2, <3>4, <4>1, Between
    <3>7. PICK c \in siblings(r) : r < c /\ c <= t /\ (c = t \/ c \in ancestors[t])
      BY <1>2, <3>1, <3>3, <3>6, InsideRun
    <3>8. c \in Node /\ r <= c /\ c < n
      BY <1>2, <2>0, <3>4, <3>7 DEF Kids, Node
    <3>9. kind[c] \in RunMember /\ below(c) = {}
      <4>1. kind[c] \in RunMember
        BY <3>5, <3>8
      <4> QED
        BY <1>2, <3>8, <4>1 DEF TreeRight
    <3>10. c = t
      BY <1>2, <3>7, <3>9 DEF below
    <3>11. r \in run_before(t)
      <4>1. siblings(t) = siblings(r) /\ r \in siblings(r)
        BY <3>4, <3>7, <3>10 DEF siblings, Kids
      <4>2. ASSUME NEW k \in siblings(r), r <= k, k < t PROVE kind[k] \in RunMember
        <5>1. k \in Node /\ k < n
          BY <1>2, <2>0, <3>4, <4>2 DEF Kids, Node
        <5> QED
          BY <3>5, <4>2, <5>1
      <4> QED
        BY <3>3, <4>1, <4>2 DEF run_before
    <3>12. answers_for(v, t)
      BY <1>2, <3>1, <3>9, <3>10, <3>11, AnswersRun
    <3> QED
      BY <1>4, <3>1, <3>12
  <2>2. CASE m = t
    <3>1. CASE ~answers_for(v, t)
      <4>1. Verdict = rust_attribute_run_verdict(m) /\ InRun(m, m)
        BY <1>4, <1>6, <1>8, <2>2, <3>1 DEF IsRow, InRun
      <4> QED
        BY <1>8, <4>1
    <3>2. CASE answers_for(v, t)
      <4>1. PICK r \in Node : IsRow(r) /\ r < t /\ v = rust_attribute_run_verdict(r)
        BY <1>5, <3>2
      <4>2. \/ rust_attributed_item(r) # {} /\ t = ItemOf(r)
            \/ r \in run_before(t)
        BY <1>2, <3>2, <4>1, AnsweredIs
      <4>3. kind[t] \in RunMember
        BY <1>8, <2>2 DEF IsRow, RunMember
      <4>4. ~(rust_attributed_item(r) # {} /\ t = ItemOf(r))
        BY <1>2, <4>1, <4>3, ItemFacts
      <4> QED
        BY <1>4, <2>2, <3>2, <4>1, <4>2, <4>4 DEF InRun
    <3> QED
      BY <3>1, <3>2
  <2>3. CASE t < m
    <3>1. Prune /\ t \in ancestors[m]
      BY <1>2, <1>8, <2>3
    <3>2. parent[n] = parent[m] /\ n \in Node \ {1}
      BY <2>0 DEF Kids
    <3>3. ancestors[n] = ancestors[m]
      <4>1. \A k \in Node \ {1} : ancestors[k] = {parent[k]} \cup ancestors[parent[k]]
        BY <1>2, AncestorFacts
      <4> QED
        BY <2>0, <3>2, <4>1
    <3>4. Visit \/ t \notin ancestors[n]
      BY <1>2, <1>8
    <3> QED
      BY <1>3, <3>1, <3>3, <3>4
  <2> QED
    BY <1>2, <2>1, <2>2, <2>3 DEF Node
<1> QED
  BY <1>7, <1>8

\* A node is pruned when it is the first on its way from the root that goes,
\* and is visited when neither it nor any of its ancestors goes.
PrunesTestCode == /\ Prune => Top.node \in Excluded
                  /\ Visit => Top.node \in Kept

\* No verdict is held before the walk begins.
LEMMA InitTests == Init => FrontRight /\ KeptRight /\ RunRight
<1> SUFFICES ASSUME Init PROVE FrontRight /\ KeptRight /\ RunRight
  OBVIOUS
<1>1. TreeRight
  BY InitRight
<1>2. /\ stack # <<>> /\ Len(stack) = 1 /\ stack[1].node = 1 /\ Top.node = 1
      /\ run_verdict.through = 0 /\ run_verdict.node = 0
  BY DEF Init, Top, Last
<1>3. Reached = 1 /\ WaitingNodes = {1}
  BY <1>2 DEF Reached, WaitingNodes
<1>4. FrontRight
  BY <1>1, <1>3, AncestorFacts DEF FrontRight
<1>5. KeptRight
  BY <1>1, <1>3, AncestorFacts DEF KeptRight
<1>6. ASSUME NEW m \in Node, m < Reached PROVE FALSE
  BY <1>3, <1>6 DEF Node
<1>7. RunRight
  BY <1>2, <1>6 DEF RunRight
<1> QED
  BY <1>4, <1>5, <1>7

\* Every step keeps what is known of the held verdict.
LEMMA TestsStep == WalkInv /\ TestsRight /\ [Next]_vars => TestsRight'
<1> SUFFICES ASSUME WalkInv, TestsRight, [Next]_vars PROVE TestsRight'
  OBVIOUS
<1>1. pc = "walk" => Walking
  BY DEF WalkInv, WalkRight, Walking
<1>2. CASE Prune \/ Visit
  <2>1. pc = "walk"
    BY <1>2 DEF Prune, Visit
  <2>2. Walking /\ FrontRight /\ KeptRight /\ RunRight
    BY <1>1, <2>1 DEF TestsRight
  <2>3. FrontRight' /\ KeptRight' /\ RunRight'
    BY <1>2, <2>2, KeptStays, RunStays
  <2> QED
    BY <2>3 DEF TestsRight
<1>3. CASE Finish
  BY <1>3 DEF Finish, TestsRight
<1>4. CASE UNCHANGED vars
  <2>1. UNCHANGED input
    BY <1>4 DEF vars, input
  <2>2. /\ pc' = pc /\ stack' = stack /\ run_verdict' = run_verdict
    BY <1>4 DEF vars
  <2>3. WaitingNodes' = WaitingNodes /\ Reached' = Reached
    BY <2>2 DEF WaitingNodes, Reached, Top
  <2>4. /\ ancestors' = ancestors /\ kind' = kind /\ exclude_tests' = exclude_tests
    BY <2>1, InputKept
  <2>5. /\ \A n : /\ run_before(n)' = run_before(n)
                  /\ rust_attribute_run_verdict(n)' = rust_attribute_run_verdict(n)
                  /\ IsRow(n)' <=> IsRow(n)
        /\ \A r, n : InRun(r, n)' <=> InRun(r, n)
        /\ Gone' = Gone
    BY <2>1, TestsKept
  <2>6. FrontRight => FrontRight'
    BY <2>3, <2>4 DEF FrontRight
  <2>7. KeptRight => KeptRight'
    BY <2>3, <2>4, <2>5 DEF KeptRight
  <2>8. RunRight => RunRight'
    BY <2>2, <2>3, <2>4, <2>5 DEF RunRight
  <2> QED
    BY <2>2, <2>6, <2>7, <2>8 DEF TestsRight
<1> QED
  BY <1>2, <1>3, <1>4 DEF Next, Done

\* The node in hand is pruned exactly when it is the root of test code.
LEMMA HandKept ==
  ASSUME Walking, KeptRight, RunRight, stack # <<>>
  PROVE  /\ prunes_subtree => Top.node \in Excluded
         /\ ~prunes_subtree => Top.node \in Kept
<1>1. Top.node \in Node /\ Top.node \in WaitingNodes
  BY TopFacts DEF WaitingNodes
<1>2. ancestors[Top.node] \cap Gone = {} /\ (prunes_subtree <=> Top.node \in Gone)
  BY <1>1, VerdictRight DEF KeptRight
<1> QED
  BY <1>1, <1>2 DEF Excluded, Kept

\* Exactly the test code is pruned, whatever verdict the attribute row before a
\* node handed on: with `exclude_tests`, a subtree is left out when its root is
\* marked as a test or belongs to the run of such an item, and only then.
THEOREM TestCodeGoes == Spec => ExactlyTestCodeIsPruned
<1>1. Init => TestsRight
  BY InitTests DEF TestsRight
<1>2. WalkInv /\ TestsRight /\ [Next]_vars => [PrunesTestCode]_vars
  <2> SUFFICES ASSUME WalkInv, TestsRight, Prune \/ Visit PROVE PrunesTestCode
    BY DEF PrunesTestCode
  <2>1. pc = "walk" /\ stack # <<>> /\ (Prune => prunes_subtree) /\ (Visit => ~prunes_subtree)
    BY DEF Prune, Visit
  <2>2. Walking /\ KeptRight /\ RunRight
    BY <2>1 DEF WalkInv, WalkRight, Walking, TestsRight
  <2> QED
    BY <2>1, <2>2, HandKept DEF PrunesTestCode
<1> QED
  BY <1>1, <1>2, TestsStep, WalkIsRight, PTL DEF Spec, ExactlyTestCodeIsPruned, PrunesTestCode

-----------------------------------------------------------------------------
(***************************************************************************)
(* The walk, fourth part: what the spaces hold.                             *)
(***************************************************************************)
Visited == {n \in Kept : n < Reached}         \* counted so far
Omitted == {n \in Excluded : n < Reached}     \* left out so far

KindOf(c) == IF c = Synthetic THEN "unit" ELSE kind[c]
FunctionsAround(n) == {m \in Enclosing(n) \ {Synthetic} : kind[m] \in Function}
Outermost == IF kind[1] = "unit" THEN 1 ELSE Synthetic

\* Each open space but the first stands in all spaces before it and in no other.
Nested(o) ==
  /\ \A i, j \in 1..Len(o) : i < j => o[i].space < o[j].space
  /\ \A i \in 1..Len(o) :
       /\ o[i].kind = KindOf(o[i].space)
       /\ i = 1 => o[i].space = Outermost
       /\ i > 1 => /\ o[i].space \in Node \ {1}
                   /\ Spaces(o, i - 1) = SpacesOf(ancestors[o[i].space])

\* What is inside an open space and in no open space further in.
Own(o, i, V) == {n \in V : /\ o[i].space \in Enclosing(n)
                           /\ i < Len(o) => o[i + 1].space \notin Enclosing(n)}
OwnRows(o, i, X) == {x \in X : /\ o[i].space \in Enclosing(parent[x])
                               /\ i < Len(o) => o[i + 1].space \notin Enclosing(parent[x])}

\* A frame counts each member of a set once.
CountedNodes(f) == {f.counted[k][1] : k \in 1..Len(f.counted)}
Counts(f, S) == CountedNodes(f) = S /\ Len(f.counted) = Cardinality(S)

\* The markers among V that silence the space of a frame.
Silencers(f, V) ==
  {n \in V : \/ kind[n] = "marker" /\ FunctionsAround(n) # {}
                    /\ f.space = Max(FunctionsAround(n))
             \/ kind[n] = "file_marker" /\ f.kind = "unit"}

Holds(o, V, X) ==
  \A i \in 1..Len(o) : /\ Counts(o[i], Own(o, i, V))
                       /\ o[i].excluded = OwnRows(o, i, X)
                       /\ o[i].suppressed = Silencers(o[i], V)

\* A frame that holds all there is in its space.
Whole(f) == /\ Counts(f, {n \in Kept : f.space \in Enclosing(n)})
            /\ f.excluded = {x \in Excluded : f.space \in Enclosing(parent[x])}
            /\ f.suppressed = Silencers(f, Kept)
Parted(S) ==
  \A s \in S : /\ Whole(s.frame)
               /\ s.frame.space \notin {1, Synthetic} =>
                    s.into = Max(Enclosing(parent[s.frame.space]))

\* What was opened is open, or was finalised once and before all around it.
Ended(F, o, V) ==
  /\ Len(F) = Cardinality(Members(F, Len(F)))
  /\ Members(F, Len(F)) = SpacesOf(V) \ Spaces(o, Len(o))
  /\ Spaces(o, Len(o)) \subseteq SpacesOf(V)
  /\ \A i, j \in 1..Len(F) : i < j /\ F[i] # Synthetic => F[j] \notin below(F[i])
  /\ \A i \in 1..Len(F) : \A k \in 1..Len(o) :
       F[i] # Synthetic => o[k].space \notin below(F[i])

Right(w, V, X) == /\ Nested(w.open) /\ Holds(w.open, V, X)
                  /\ Parted(w.spaces) /\ Ended(w.finalized, w.open, V)

SpacesRight ==
  /\ pc = "walk" => \A w, V, X : w = Unclosed /\ V = Visited /\ X = Omitted => Right(w, V, X)
  /\ pc = "done" => \A F, S, V : F = finalized /\ S = spaces /\ V = Kept =>
                      Parted(S) /\ Ended(F, <<>>, V)

\* The spaces around a node.
LEMMA EncFacts ==
  ASSUME TreeRight, NEW n \in Node
  PROVE  /\ Enclosing(n) = SpacesOf(ancestors[n]) \cup (IF kind[n] \in Space THEN {n} ELSE {})
         /\ n # 1 => SpacesOf(ancestors[n]) = Enclosing(parent[n])
         /\ SpacesOf(ancestors[n]) \subseteq Enclosing(n)
         /\ \A c \in Enclosing(n) : /\ c \in 0..N /\ c <= n
                                    /\ c # Synthetic => /\ c \in Node /\ kind[c] \in Space
                                                        /\ (c = n \/ c \in ancestors[n])
                                                        /\ SpacesOf(ancestors[c]) \subseteq Enclosing(n)
         /\ \A c \in SpacesOf(ancestors[n]) : c < n
<1>1. Enclosing(n) = SpacesOf(ancestors[n]) \cup (IF kind[n] \in Space THEN {n} ELSE {})
  BY SpacesAdd DEF Enclosing
<1>2. n # 1 => SpacesOf(ancestors[n]) = Enclosing(parent[n])
  BY AncestorFacts DEF Enclosing
<1>3. ASSUME NEW c \in Enclosing(n), c # Synthetic
      PROVE  /\ c \in Node /\ kind[c] \in Space /\ (c = n \/ c \in ancestors[n])
             /\ SpacesOf(ancestors[c]) \subseteq Enclosing(n)
  <2>1. kind[c] \in Space /\ (c = n \/ c \in ancestors[n])
    BY <1>3 DEF Enclosing, SpacesOf
  <2>2. ancestors[c] \subseteq ancestors[n] /\ c \in Node
    BY <2>1, AncestorFacts
  <2>3. SpacesOf(ancestors[c]) \subseteq Enclosing(n)
    BY <2>2 DEF Enclosing, SpacesOf
  <2> QED
    BY <2>1, <2>2, <2>3
<1>4. ASSUME NEW c \in Enclosing(n) PROVE c \in 0..N /\ c <= n
  <2>1. CASE c = Synthetic
    BY <2>1, Nodes DEF Synthetic
  <2>2. CASE c # Synthetic
    <3>1. c \in Node /\ (c = n \/ c < n)
      BY <1>3, <2>2, AncestorFacts
    <3> QED
      BY <3>1 DEF Node
  <2> QED
    BY <2>1, <2>2
<1>5. ASSUME NEW c \in SpacesOf(ancestors[n]) PROVE c < n
  <2>1. c \in ancestors[n] \/ c = 0
    BY <1>5 DEF SpacesOf, Synthetic
  <2> QED
    BY <2>1, AncestorFacts DEF Node
<1> QED
  BY <1>1, <1>2, <1>3, <1>4, <1>5

\* A bounded set of numbers has a largest one, and `Max` is it.
LEMMA MaxUpTo ==
  ASSUME NEW n \in Nat, NEW S \in SUBSET (0..n), S # {}
  PROVE  Max(S) \in S /\ \A x \in S : x <= Max(S)
<1>1. n \in Nat
  OBVIOUS
<1> DEFINE T == {n - x : x \in S}
<1>2. T \in SUBSET Nat /\ T # {}
  <2>1. ASSUME NEW x \in S PROVE n - x \in Nat
    <3>1. x \in 0..n
      OBVIOUS
    <3> QED
      BY <1>1, <3>1
  <2> QED
    BY <2>1
<1>3. PICK m \in T : \A k \in T : m <= k
  <2> HIDE DEF T
  <2> QED
    BY <1>2, Least
<1>4. PICK y \in S : m = n - y
  BY <1>3
<1>5. \A x \in S : x <= y
  <2> SUFFICES ASSUME NEW x \in S PROVE x <= y
    OBVIOUS
  <2>1. n - y <= n - x
    BY <1>3, <1>4
  <2>2. x \in 0..n /\ y \in 0..n
    OBVIOUS
  <2> QED
    BY <1>1, <2>1, <2>2
<1>6. \E z \in S : \A x \in S : z >= x
  BY <1>5
<1> QED
  BY <1>6 DEF Max

\* A set of nodes has a largest one.
LEMMA MaxFacts ==
  ASSUME NEW S \in SUBSET (0..N), S # {}
  PROVE  Max(S) \in S /\ \A x \in S : x <= Max(S)
BY MaxUpTo, Nodes

\* The largest one is found when it is at hand.
LEMMA MaxIs ==
  ASSUME NEW S \in SUBSET (0..N), NEW m \in S, \A x \in S : x <= m
  PROVE  Max(S) = m
<1>1. Max(S) \in S /\ m <= Max(S) /\ Max(S) <= m
  BY MaxFacts
<1>2. Max(S) \in 0..N /\ m \in 0..N
  BY <1>1
<1> QED
  BY <1>1, <1>2

\* The space before an open one is the innermost around it.
LEMMA NestedInto ==
  ASSUME TreeRight, NEW o, Nested(o), Len(o) \in Nat, NEW i \in 1..Len(o), i > 1
  PROVE  /\ i - 1 \in 1..Len(o) /\ o[i].space \in Node \ {1}
         /\ o[i - 1].space \in SpacesOf(ancestors[o[i].space])
         /\ o[i - 1].space = Max(Enclosing(parent[o[i].space]))
<1> DEFINE c == o[i].space
           b == o[i - 1].space
<1>1. c \in Node \ {1} /\ Spaces(o, i - 1) = SpacesOf(ancestors[c])
  BY DEF Nested
<1>2. i - 1 \in 1..Len(o) /\ i - 1 \in 1..(i - 1)
  OBVIOUS
<1>3. b \in SpacesOf(ancestors[c])
  BY <1>1, <1>2 DEF Spaces
<1>4. Enclosing(parent[c]) = Spaces(o, i - 1) /\ Enclosing(parent[c]) \subseteq 0..N
  <2>1. Enclosing(parent[c]) = SpacesOf(ancestors[c]) /\ parent[c] \in Node
    BY <1>1, EncFacts, AncestorFacts
  <2> QED
    BY <1>1, <2>1, EncFacts
<1>5. ASSUME NEW x \in Spaces(o, i - 1) PROVE x <= b
  <2>1. PICK k \in 1..(i - 1) : x = o[k].space
    BY DEF Spaces
  <2>2. k \in 1..Len(o) /\ (k = i - 1 \/ k < i - 1)
    OBVIOUS
  <2>3. x = b \/ x < b
    BY <1>2, <2>1, <2>2 DEF Nested
  <2>4. x \in 0..N /\ b \in 0..N
    BY <1>1, <1>3, <1>4
  <2> QED
    BY <2>3, <2>4
<1>6. b = Max(Enclosing(parent[c]))
  BY <1>1, <1>3, <1>4, <1>5, MaxIs
<1> QED
  BY <1>1, <1>2, <1>3, <1>6

\* Being inside an open space is being inside the one before.
LEMMA NestedMono ==
  ASSUME TreeRight, NEW o, Nested(o), Len(o) \in Nat, NEW i \in 1..Len(o), i > 1,
         NEW n \in Node, o[i].space \in Enclosing(n)
  PROVE  o[i - 1].space \in Enclosing(n)
<1>1. o[i].space \in Node \ {1} /\ o[i - 1].space \in SpacesOf(ancestors[o[i].space])
  BY NestedInto
<1>2. o[i].space # Synthetic
  BY <1>1 DEF Node, Synthetic
<1> QED
  BY <1>1, <1>2, EncFacts

\* Two frames merged count what each of them counted.
LEMMA MergedCounts ==
  ASSUME NEW a \in Frame, NEW b \in Frame, NEW S, NEW T, Counts(a, S), Counts(b, T),
         S \cap T = {}, IsFiniteSet(S), IsFiniteSet(T)
  PROVE  Counts(merge(a, b), S \cup T)
<1> DEFINE q == a.counted
           r == b.counted
           m == merge(a, b)
<1>1. q \in Seq(Node \X Nat) /\ r \in Seq(Node \X Nat) /\ m.counted = q \o r
  BY MergeFacts DEF Frame
<1>2. Cardinality(S \cup T) = Cardinality(S) + Cardinality(T)
  <2>1. Cardinality(S \cap T) = 0
    BY FS_EmptySet
  <2>2. Cardinality(S \cup T) = Cardinality(S) + Cardinality(T) - Cardinality(S \cap T)
    BY FS_Union
  <2>3. Cardinality(S) \in Nat /\ Cardinality(T) \in Nat
    BY FS_CardinalityType
  <2> QED
    BY <2>1, <2>2, <2>3
<1>3. /\ Len(q) = Cardinality(S) /\ Len(r) = Cardinality(T)
      /\ {q[k][1] : k \in 1..Len(q)} = S /\ {r[k][1] : k \in 1..Len(r)} = T
  BY DEF Counts, CountedNodes
<1> HIDE DEF q, r, m
<1>4. /\ Len(q \o r) = Len(q) + Len(r) /\ Len(q) \in Nat /\ Len(r) \in Nat
      /\ \A i \in 1..Len(q) : (q \o r)[i] = q[i]
      /\ \A i \in (Len(q) + 1)..(Len(q) + Len(r)) : (q \o r)[i] = r[i - Len(q)]
  BY <1>1
<1>5. ASSUME NEW x \in {(q \o r)[k][1] : k \in 1..(Len(q) + Len(r))} PROVE x \in S \cup T
  <2>1. PICK k \in 1..(Len(q) + Len(r)) : x = (q \o r)[k][1]
    OBVIOUS
  <2>2. CASE k \in 1..Len(q)
    BY <1>3, <1>4, <2>1, <2>2
  <2>3. CASE k \in (Len(q) + 1)..(Len(q) + Len(r))
    <3>1. k - Len(q) \in 1..Len(r)
      BY <1>4, <2>3
    <3> QED
      BY <1>3, <1>4, <2>1, <2>3, <3>1
  <2> QED
    BY <1>4, <2>2, <2>3
<1>6. ASSUME NEW x \in S PROVE x \in {(q \o r)[k][1] : k \in 1..(Len(q) + Len(r))}
  <2>1. PICK k \in 1..Len(q) : x = q[k][1]
    BY <1>3
  <2>2. k \in 1..(Len(q) + Len(r)) /\ (q \o r)[k] = q[k]
    BY <1>4
  <2> QED
    BY <2>1, <2>2
<1>7. ASSUME NEW x \in T PROVE x \in {(q \o r)[k][1] : k \in 1..(Len(q) + Len(r))}
  <2>1. PICK k \in 1..Len(r) : x = r[k][1]
    BY <1>3
  <2>2. /\ Len(q) + k \in (Len(q) + 1)..(Len(q) + Len(r)) /\ (Len(q) + k) - Len(q) = k
        /\ Len(q) + k \in 1..(Len(q) + Len(r))
    BY <1>4
  <2>3. (q \o r)[Len(q) + k] = r[k]
    BY <1>4, <2>2
  <2> QED
    BY <2>1, <2>2, <2>3
<1>8. {(q \o r)[k][1] : k \in 1..(Len(q) + Len(r))} = S \cup T
  BY <1>5, <1>6, <1>7
<1>10. Len(m.counted) = Len(q) + Len(r)
  BY <1>1, <1>4
<1>9. CountedNodes(m) = S \cup T /\ Len(m.counted) = Cardinality(S \cup T)
  <2>1. CountedNodes(m) = {(q \o r)[k][1] : k \in 1..(Len(q) + Len(r))}
    BY <1>1, <1>10 DEF CountedNodes
  <2> QED
    BY <1>2, <1>3, <1>8, <1>10, <2>1
<1> QED
  BY <1>9 DEF Counts, m

\* The elements of a sequence.
LEMMA ElementsIn == ASSUME NEW S, NEW s \in Seq(S) PROVE \A i \in 1..Len(s) : s[i] \in S
OBVIOUS

\* The root stays.
LEMMA RootKept ==
  ASSUME TreeRight
  PROVE  1 \notin Gone /\ Kept \subseteq Node /\ Excluded \subseteq Node \ {1}
<1>1. kind[1] \notin Prunable
  BY DEF TreeRight, Prunable
<1>2. ~MarkedTest(1) /\ siblings(1) = {1}
  BY <1>1 DEF MarkedTest, siblings
<1>3. 1 \notin Gone
  BY <1>2 DEF Gone, Goes
<1> QED
  BY <1>3 DEF Kept, Excluded, Gone

\* Everything inside a space is done.
Settled(c, V, X) == /\ \A n \in Kept : c \in Enclosing(n) => n \in V
                    /\ \A x \in Excluded : c \in Enclosing(parent[x]) => x \in X

\* Closing the innermost space: its parent takes what it holds.
LEMMA CloseHolds ==
  ASSUME TreeRight, NEW V \in SUBSET Kept, NEW X \in SUBSET Excluded, NEW w \in World,
         Nested(w.open), Holds(w.open, V, X), Len(w.open) > 1
  PROVE  Nested(CloseInnermost(w).open) /\ Holds(CloseInnermost(w).open, V, X)
<1> DEFINE o == w.open
           n == Len(o)
           c == CloseInnermost(w).open
           a == o[n - 1]
           b == o[n]
<1>1. Len(c) = n - 1 /\ (\A i \in 1..(n - 2) : c[i] = o[i]) /\ c[n - 1] = merge(a, b)
  BY CloseFacts
<1>2. n \in Nat /\ n > 1 /\ n \in 1..n /\ n - 1 \in 1..n /\ o \in Seq(Frame)
  BY DEF World
<1>3. a \in Frame /\ b \in Frame
  <2> HIDE DEF Frame
  <2> QED
    BY <1>2
<1>4. /\ merge(a, b).space = a.space /\ merge(a, b).kind = a.kind
      /\ merge(a, b).excluded = a.excluded \cup b.excluded
      /\ merge(a, b).suppressed = a.suppressed
  BY <1>3, MergeFacts
<1>5. Nested(o) /\ Holds(o, V, X)
  OBVIOUS
<1>6. ASSUME NEW m \in Node, b.space \in Enclosing(m) PROVE a.space \in Enclosing(m)
  BY <1>2, <1>5, <1>6, NestedMono
<1>7. V \subseteq Node /\ X \subseteq Node \ {1} /\ IsFiniteSet(V)
  <2>1. V \subseteq Node /\ X \subseteq Node \ {1}
    BY RootKept
  <2>2. IsFiniteSet(Node)
    BY FS_Interval, SpaceAssumption DEF Node
  <2> QED
    BY <2>1, <2>2, FS_Subset
<1> HIDE DEF o, n, c
<1>8. \A i \in 1..(n - 1) : /\ i \in 1..n /\ c[i].space = o[i].space /\ c[i].kind = o[i].kind
                            /\ (i = n - 1 \/ i \in 1..(n - 2))
  BY <1>1, <1>2, <1>4
<1>9. Nested(c)
  <2>1. ASSUME NEW i \in 1..(n - 1), i > 1 PROVE Spaces(c, i - 1) = Spaces(o, i - 1)
    <3>1. \A k \in 1..(i - 1) : k \in 1..(n - 1)
      BY <1>2
    <3>2. \A k \in 1..(i - 1) : c[k].space = o[k].space
      BY <1>8, <3>1
    <3> QED
      BY <3>2 DEF Spaces
  <2>2. ASSUME NEW i \in 1..(n - 1)
        PROVE  /\ c[i].kind = KindOf(c[i].space)
               /\ i = 1 => c[i].space = Outermost
               /\ i > 1 => /\ c[i].space \in Node \ {1}
                           /\ Spaces(c, i - 1) = SpacesOf(ancestors[c[i].space])
    BY <1>5, <1>8, <2>1 DEF Nested, n
  <2>3. \A i, j \in 1..(n - 1) : i < j => c[i].space < c[j].space
    BY <1>5, <1>8 DEF Nested, n
  <2> QED
    BY <1>1, <2>2, <2>3 DEF Nested
<1>10. ASSUME NEW i \in 1..(n - 2)
       PROVE  /\ Counts(c[i], Own(c, i, V))
              /\ c[i].excluded = OwnRows(c, i, X)
              /\ c[i].suppressed = Silencers(c[i], V)
  <2>1. /\ i \in 1..n /\ i + 1 \in 1..(n - 1) /\ i < n - 1 /\ i < n /\ i \in 1..(n - 1)
    BY <1>2
  <2>2. c[i] = o[i] /\ c[i + 1].space = o[i + 1].space
    BY <1>1, <1>8, <2>1
  <2>3. Own(c, i, V) = Own(o, i, V) /\ OwnRows(c, i, X) = OwnRows(o, i, X)
    BY <1>1, <2>1, <2>2 DEF Own, OwnRows, n
  <2> QED
    BY <1>5, <2>1, <2>2, <2>3 DEF Holds, n
<1>11. /\ Counts(c[n - 1], Own(c, n - 1, V))
       /\ c[n - 1].excluded = OwnRows(c, n - 1, X)
       /\ c[n - 1].suppressed = Silencers(c[n - 1], V)
  <2>1. /\ Counts(a, Own(o, n - 1, V)) /\ Counts(b, Own(o, n, V))
        /\ a.excluded = OwnRows(o, n - 1, X) /\ b.excluded = OwnRows(o, n, X)
        /\ a.suppressed = Silencers(a, V)
    BY <1>2, <1>5 DEF Holds, n
  <2>2. n - 1 < n /\ ~(n < n) /\ ~(n - 1 < n - 1) /\ (n - 1) + 1 = n
    BY <1>2
  <2>3. /\ Own(o, n - 1, V) = {m \in V : a.space \in Enclosing(m) /\ b.space \notin Enclosing(m)}
        /\ Own(o, n, V) = {m \in V : b.space \in Enclosing(m)}
        /\ Own(c, n - 1, V) = {m \in V : a.space \in Enclosing(m)}
    BY <1>1, <1>4, <2>2 DEF Own, n
  <2>4. /\ OwnRows(o, n - 1, X) = {m \in X : /\ a.space \in Enclosing(parent[m])
                                             /\ b.space \notin Enclosing(parent[m])}
        /\ OwnRows(o, n, X) = {m \in X : b.space \in Enclosing(parent[m])}
        /\ OwnRows(c, n - 1, X) = {m \in X : a.space \in Enclosing(parent[m])}
    BY <1>1, <1>4, <2>2 DEF OwnRows, n
  <2>5. Own(c, n - 1, V) = Own(o, n - 1, V) \cup Own(o, n, V) /\ Own(o, n - 1, V) \cap Own(o, n, V) = {}
    BY <1>6, <1>7, <2>3
  <2>6. IsFiniteSet(Own(o, n - 1, V)) /\ IsFiniteSet(Own(o, n, V))
    <3>1. Own(o, n - 1, V) \subseteq V /\ Own(o, n, V) \subseteq V
      BY <2>3
    <3> QED
      BY <1>7, <3>1, FS_Subset
  <2>7. Counts(merge(a, b), Own(c, n - 1, V))
    <3> HIDE DEF a, b
    <3> QED
      BY <1>3, <2>1, <2>5, <2>6, MergedCounts
  <2>8. OwnRows(c, n - 1, X) = OwnRows(o, n - 1, X) \cup OwnRows(o, n, X)
    <3>1. \A x \in X : parent[x] \in Node
      BY <1>7, AncestorFacts
    <3> QED
      BY <1>6, <2>4, <3>1
  <2>9. Silencers(merge(a, b), V) = Silencers(a, V)
    BY <1>4 DEF Silencers
  <2> QED
    BY <1>1, <1>4, <2>1, <2>7, <2>8, <2>9
<1>12. Holds(c, V, X)
  BY <1>1, <1>8, <1>10, <1>11 DEF Holds
<1> QED
  BY <1>9, <1>12 DEF c

\* What is closed is whole.
LEMMA ClosePart ==
  ASSUME TreeRight, NEW V \in SUBSET Kept, NEW X \in SUBSET Excluded, NEW w \in World,
         Nested(w.open), Holds(w.open, V, X), Parted(w.spaces), Len(w.open) > 1,
         Settled(w.open[Len(w.open)].space, V, X)
  PROVE  Parted(CloseInnermost(w).spaces)
<1> DEFINE o == w.open
           n == Len(o)
           a == o[n - 1]
           b == o[n]
           s == [frame |-> b, into |-> a.space]
<1>1. CloseInnermost(w).spaces = w.spaces \cup {s}
  BY CloseFacts
<1>2. n \in Nat /\ n > 1 /\ n \in 1..n /\ ~(n < n)
  BY DEF World
<1>3. /\ Counts(b, Own(o, n, V)) /\ b.excluded = OwnRows(o, n, X)
      /\ b.suppressed = Silencers(b, V)
  BY <1>2 DEF Holds
<1>4. b.space \in Node \ {1} /\ a.space = Max(Enclosing(parent[b.space]))
  BY <1>2, NestedInto
<1>5. b.kind # "unit"
  <2>1. b.kind = KindOf(b.space)
    BY <1>2 DEF Nested
  <2> QED
    BY <1>4, <2>1 DEF KindOf, Node, Synthetic, TreeRight
<1>6. Own(o, n, V) = {m \in Kept : b.space \in Enclosing(m)}
  BY <1>2 DEF Own, Settled
<1>7. OwnRows(o, n, X) = {x \in Excluded : b.space \in Enclosing(parent[x])}
  BY <1>2 DEF OwnRows, Settled
<1>8. ASSUME NEW m \in Kept, FunctionsAround(m) # {}, b.space = Max(FunctionsAround(m))
      PROVE  m \in V
  <2>1. FunctionsAround(m) \subseteq Enclosing(m) /\ FunctionsAround(m) \in SUBSET (0..N)
    BY RootKept, EncFacts DEF FunctionsAround
  <2>2. b.space \in FunctionsAround(m)
    BY <1>8, <2>1, MaxFacts
  <2> QED
    BY <2>1, <2>2 DEF Settled
<1>9. Silencers(b, V) = Silencers(b, Kept)
  BY <1>5, <1>8 DEF Silencers
<1>10. Whole(b)
  BY <1>3, <1>6, <1>7, <1>9 DEF Whole
<1> QED
  BY <1>1, <1>4, <1>10 DEF Parted

\* What `Append` gives.
LEMMA AppendFacts ==
  ASSUME NEW S, NEW s \in Seq(S), NEW e \in S
  PROVE  /\ Append(s, e) \in Seq(S) /\ Len(s) \in Nat
         /\ Len(Append(s, e)) = Len(s) + 1 /\ Append(s, e)[Len(s) + 1] = e
         /\ \A i \in 1..Len(s) : Append(s, e)[i] = s[i]
OBVIOUS

\* A closed space is finalised once, and before those around it.
LEMMA EndOne ==
  ASSUME TreeRight, NEW V, NEW o \in Seq(Frame), Nested(o), Len(o) > 0,
         NEW F \in Seq(0..N), Ended(F, o, V),
         NEW c, Len(c) = Len(o) - 1, \A i \in 1..Len(c) : c[i].space = o[i].space
  PROVE  Ended(Append(F, o[Len(o)].space), c, V)
<1> DEFINE n == Len(o)
           q == Len(F)
           b == o[n].space
           G == Append(F, b)
<1>2. n \in Nat /\ n > 0 /\ n \in 1..n
  OBVIOUS
<1>3. o[n] \in Frame
  <2> HIDE DEF Frame
  <2> QED
    BY <1>2
<1>4. \A i \in 1..(n - 1) : c[i].space = o[i].space /\ i \in 1..n
  BY <1>2
<1>5. b \in 0..N /\ q \in Nat
  BY <1>2, <1>3 DEF Frame
<1>6. /\ Len(G) = q + 1 /\ G[q + 1] = b /\ \A i \in 1..q : G[i] = F[i]
      /\ \A i \in 1..(q + 1) : i \in 1..q \/ i = q + 1
  <2>1. Len(G) = q + 1 /\ G[q + 1] = b /\ \A i \in 1..q : G[i] = F[i]
    BY <1>5, AppendFacts
  <2>2. \A i \in 1..(q + 1) : i \in 1..q \/ i = q + 1
    <3> HIDE DEF q
    <3> QED
      BY <1>5
  <2> QED
    BY <2>1, <2>2
<1>7. /\ q = Cardinality(Members(F, q)) /\ Members(F, q) = SpacesOf(V) \ Spaces(o, n)
      /\ Spaces(o, n) \subseteq SpacesOf(V)
      /\ \A i, j \in 1..q : i < j /\ F[i] # Synthetic => F[j] \notin below(F[i])
      /\ \A i \in 1..q : \A k \in 1..n : F[i] # Synthetic => o[k].space \notin below(F[i])
  BY DEF Ended
<1>8. \A i \in 1..(n - 1) : o[i].space < b
  <2>1. \A i, j \in 1..n : i < j => o[i].space < o[j].space
    BY DEF Nested
  <2> QED
    BY <1>2, <2>1
<1>1. \A i \in 1..q : F[i] \in 0..N
  BY ElementsIn DEF q
<1>0. Len(c) = n - 1
  OBVIOUS
<1> HIDE DEF n, G, q, b
<1>9. /\ b \in Spaces(o, n) /\ Spaces(c, n - 1) = Spaces(o, n) \ {b}
  <2>1. b \in Spaces(o, n)
    BY <1>2 DEF Spaces, b
  <2>2. Spaces(c, n - 1) = {o[i].space : i \in 1..(n - 1)}
    BY <1>4 DEF Spaces
  <2>3. ASSUME NEW x PROVE x \in Spaces(o, n) \ {b} <=> x \in {o[i].space : i \in 1..(n - 1)}
    <3>1. \A i \in 1..n : i \in 1..(n - 1) \/ i = n
      BY <1>2
    <3>2. ASSUME NEW i \in 1..(n - 1) PROVE o[i].space # b /\ i \in 1..n
      BY <1>4, <1>5, <1>8
    <3>3. \A i \in 1..n : o[i].space # b => i \in 1..(n - 1)
      BY <3>1 DEF b
    <3> QED
      BY <3>2, <3>3 DEF Spaces
  <2> QED
    BY <2>1, <2>2, <2>3
<1>10. Members(G, q + 1) = Members(F, q) \cup {b}
  <2>1. ASSUME NEW x PROVE x \in Members(G, q + 1) <=> x \in Members(F, q) \cup {b}
    <3>1. q + 1 \in 1..(q + 1) /\ \A i \in 1..q : i \in 1..(q + 1)
      BY <1>5
    <3> QED
      BY <1>6, <3>1 DEF Members
  <2> QED
    BY <2>1
<1>11. q + 1 = Cardinality(Members(G, q + 1))
  <2>1. Members(F, q) \subseteq 0..N /\ IsFiniteSet(0..N)
    <3>1. Members(F, q) \subseteq 0..N
      BY <1>1 DEF Members
    <3>2. 0 \in Int /\ N \in Int
      BY SpaceAssumption
    <3>3. IsFiniteSet(0..N)
      BY <3>2, FS_Interval
    <3> QED
      BY <3>1, <3>3
  <2>2. IsFiniteSet(Members(F, q)) /\ b \notin Members(F, q)
    BY <1>7, <1>9, <2>1, FS_Subset
  <2>3. Cardinality(Members(F, q) \cup {b}) = Cardinality(Members(F, q)) + 1
    BY <2>2, FS_AddElement
  <2> QED
    BY <1>7, <1>10, <2>3
<1>12. Members(G, q + 1) = SpacesOf(V) \ Spaces(c, n - 1) /\ Spaces(c, n - 1) \subseteq SpacesOf(V)
  BY <1>7, <1>9, <1>10
<1>13. ASSUME NEW i \in 1..(q + 1), NEW j \in 1..(q + 1), i < j, G[i] # Synthetic
       PROVE  G[j] \notin below(G[i])
  <2>1. i \in 1..q /\ G[i] = F[i]
    BY <1>5, <1>6, <1>13
  <2>2. CASE j \in 1..q
    BY <1>6, <1>7, <1>13, <2>1, <2>2
  <2>3. CASE j = q + 1
    BY <1>2, <1>6, <1>7, <1>13, <2>1, <2>3 DEF b
  <2> QED
    BY <1>6, <2>2, <2>3
<1>14. ASSUME NEW i \in 1..(q + 1), NEW k \in 1..(n - 1), G[i] # Synthetic
       PROVE  c[k].space \notin below(G[i])
  <2>1. c[k].space = o[k].space /\ k \in 1..n
    BY <1>4
  <2>2. CASE i \in 1..q
    BY <1>6, <1>7, <1>14, <2>1, <2>2
  <2>3. CASE i = q + 1
    <3>1. G[i] = b /\ o[k].space < b
      BY <1>6, <1>8, <2>3
    <3>2. o[k].space \in below(b) => b < o[k].space /\ o[k].space \in Nat
      BY AncestorFacts, Nodes DEF below
    <3> QED
      BY <1>5, <2>1, <3>1, <3>2
  <2> QED
    BY <1>6, <2>2, <2>3
<1>15. Ended(G, c, V)
  BY <1>0, <1>6, <1>11, <1>12, <1>13, <1>14 DEF Ended
<1> QED
  BY <1>15 DEF G, b, n

\* Closing a space keeps the finalised ones in order, inside out.
LEMMA CloseEnds ==
  ASSUME TreeRight, NEW V, NEW w \in World,
         Nested(w.open), Ended(w.finalized, w.open, V), Len(w.open) > 1
  PROVE  Ended(CloseInnermost(w).finalized, CloseInnermost(w).open, V)
<1> DEFINE o == w.open
           n == Len(o)
           c == CloseInnermost(w).open
<1>1. /\ Len(c) = n - 1 /\ (\A i \in 1..(n - 2) : c[i] = o[i]) /\ c[n - 1] = merge(o[n - 1], o[n])
      /\ CloseInnermost(w).finalized = Append(w.finalized, o[n].space)
  BY CloseFacts
<1>2. n \in Nat /\ n > 1 /\ n - 1 \in 1..n /\ o \in Seq(Frame) /\ w.finalized \in Seq(0..N)
  BY DEF World
<1>3. o[n - 1] \in Frame
  BY <1>2, ElementsIn
<1>4. \A i \in 1..Len(c) : c[i].space = o[i].space
  <2>1. merge(o[n - 1], o[n]).space = o[n - 1].space
    BY <1>3, MergeFacts
  <2>2. \A i \in 1..(n - 1) : i = n - 1 \/ i \in 1..(n - 2)
    BY <1>2
  <2> QED
    BY <1>1, <2>1, <2>2
<1> HIDE DEF c
<1>5. Ended(Append(w.finalized, o[n].space), c, V)
  <2>1. Nested(o) /\ Ended(w.finalized, o, V) /\ Len(o) > 0 /\ Len(c) = Len(o) - 1
    BY <1>1, <1>2
  <2> HIDE DEF o, Frame
  <2> QED
    BY <1>2, <1>4, <2>1, EndOne DEF n
<1> QED
  BY <1>1, <1>5 DEF c

\* Closing the innermost space keeps everything that is right of the spaces.
LEMMA CloseRight ==
  ASSUME TreeRight, NEW V \in SUBSET Kept, NEW X \in SUBSET Excluded, NEW w \in World,
         Right(w, V, X), Len(w.open) > 1, Settled(w.open[Len(w.open)].space, V, X)
  PROVE  Right(CloseInnermost(w), V, X)
BY CloseHolds, ClosePart, CloseEnds DEF Right

-----------------------------------------------------------------------------
\* What the walk closes before a node is done, for the walk has left it.
LEMMA SettledClosing ==
  ASSUME Walking, stack # <<>>, NEW i \in 1..Len(open), i > 1, i > Top.level + Base
  PROVE  Settled(open[i].space, Visited, Omitted)
<1> DEFINE t == Top.node
           c == open[i].space
           l == Top.level + Base
<1>1. /\ t \in Node /\ Reached = t /\ l \in Nat /\ l <= Len(open) /\ TreeRight /\ Len(open) \in Nat
  BY TopFacts DEF Reached, Walking
<1>2. /\ \A j, k \in 1..Len(open) : j < k => open[j].space < open[k].space
      /\ Spaces(open, Len(open)) = SpacesOf(Members(chain, Len(chain)))
  BY DEF Walking, OpenRight
<1>3. /\ Spaces(open, l) = SpacesOf(ancestors[t])
      /\ \A k \in 1..Len(chain) : chain[k] < t
  <2>1. Len(stack) \in 1..Len(stack) /\ Top = stack[Len(stack)]
    BY TopFacts
  <2> QED
    BY <2>1 DEF Walking, StackRight
<1>4. \A k \in 1..Len(open) : open[k].space \in 0..N
  <2>1. \A k \in 1..Len(open) : open[k] \in Frame
    BY ElementsIn DEF Walking, TypeRight, World, Unclosed
  <2> QED
    BY <2>1 DEF Frame
<1> HIDE DEF t, c, l
<1>5. c # Synthetic
  <2>1. 1 \in 1..Len(open) /\ 1 < i
    BY <1>1
  <2>2. open[1].space < c /\ open[1].space \in 0..N /\ c \in 0..N
    BY <1>2, <1>4, <2>1 DEF c
  <2> QED
    BY <2>2 DEF Synthetic
<1>6. c \notin Spaces(open, l)
  <2>1. \A k \in 1..l : k \in 1..Len(open) /\ k < i
    BY <1>1 DEF l
  <2>2. \A k \in 1..l : open[k].space < c /\ open[k].space \in 0..N /\ c \in 0..N
    BY <1>2, <1>4, <2>1 DEF c
  <2> QED
    BY <2>2 DEF Spaces
<1>7. c \in SpacesOf(Members(chain, Len(chain)))
  BY <1>2 DEF Spaces, c
<1>8. kind[c] \in Space /\ c < t
  BY <1>3, <1>5, <1>7 DEF SpacesOf, Members
<1>9. c \notin ancestors[t]
  BY <1>3, <1>6, <1>8 DEF SpacesOf
<1>10. ASSUME NEW n \in Node, c \in Enclosing(n) PROVE n < t
  <2> SUFFICES ASSUME t <= n PROVE FALSE
    BY <1>1 DEF Node
  <2>1. c \in Node /\ (c = n \/ c \in ancestors[n])
    BY <1>1, <1>5, <1>10, EncFacts
  <2>2. c # n
    BY <1>1, <1>8, <2>1 DEF Node
  <2>3. c \in ancestors[t]
    BY <1>1, <1>8, <2>1, <2>2, Between
  <2> QED
    BY <1>9, <2>3
<1>11. ASSUME NEW n \in Kept, c \in Enclosing(n) PROVE n \in Visited
  <2>1. n \in Node
    BY DEF Kept
  <2> QED
    BY <1>1, <1>10, <1>11, <2>1 DEF Visited
<1>12. ASSUME NEW x \in Excluded, c \in Enclosing(parent[x]) PROVE x \in Omitted
  <2>1. x \in Node \ {1}
    BY <1>1, RootKept
  <2>2. c \in Enclosing(x)
    BY <1>1, <1>12, <2>1, EncFacts
  <2> QED
    BY <1>1, <1>10, <2>1, <2>2 DEF Omitted
<1>13. Settled(c, Visited, Omitted)
  BY <1>11, <1>12 DEF Settled
<1> QED
  BY <1>13 DEF c

\* Closing leaves the spaces right.
LEMMA ClosedIsRight ==
  ASSUME Walking, stack # <<>>, Right(Unclosed, Visited, Omitted)
  PROVE  Right(Closed, Visited, Omitted)
<1> DEFINE d == last_level - Top.level
           l == Top.level + Base
           Fine(w) == /\ Right(w, Visited, Omitted) /\ Len(w.open) <= Len(open)
                      /\ \A i \in 1..Len(w.open) : w.open[i].space = open[i].space
           G == {w \in World : Len(w.open) >= l => Fine(w)}
<1>1. /\ d \in Nat /\ Len(open) - d = l /\ Closed = finalize(d) /\ (d = 0 \/ d < Len(open))
      /\ l \in Nat /\ Len(open) \in Nat
  BY TopFacts
<1>2. Unclosed \in World /\ Unclosed.open = open /\ TreeRight
  BY DEF Walking, TypeRight, Unclosed
<1>3. Visited \in SUBSET Kept /\ Omitted \in SUBSET Excluded
  BY DEF Visited, Omitted
<1> HIDE DEF d
<1>4. Unclosed \in G
  BY <1>1, <1>2
<1>5. ASSUME NEW w \in World, Len(w.open) > 1, Len(w.open) - 1 >= l, Fine(w)
      PROVE  Fine(CloseInnermost(w))
  <2> DEFINE c == CloseInnermost(w)
             m == Len(w.open)
  <2>1. /\ c \in World /\ Len(c.open) = m - 1
        /\ \A i \in 1..(m - 2) : c.open[i] = w.open[i]
        /\ c.open[m - 1] = merge(w.open[m - 1], w.open[m])
    BY <1>5, CloseFacts
  <2>2. m \in Nat /\ m - 1 \in 1..m /\ m \in 1..Len(open) /\ m > l /\ w.open \in Seq(Frame) /\ m \in 1..m
    BY <1>1, <1>5 DEF World
  <2>3. Settled(w.open[m].space, Visited, Omitted)
    <3>1. Settled(open[m].space, Visited, Omitted)
      BY <1>5, <2>2, SettledClosing
    <3>2. w.open[m].space = open[m].space
      BY <1>5, <2>2
    <3> QED
      BY <3>1, <3>2
  <2>4. Right(c, Visited, Omitted)
    BY <1>2, <1>3, <1>5, <2>3, CloseRight
  <2>5. merge(w.open[m - 1], w.open[m]).space = w.open[m - 1].space
    <3>1. w.open[m - 1] \in Frame
      BY <2>2, ElementsIn
    <3> QED
      BY <3>1, MergeFacts
  <2>6. ASSUME NEW i \in 1..(m - 1) PROVE c.open[i].space = open[i].space
    <3>1. i \in 1..m /\ (i = m - 1 \/ i \in 1..(m - 2))
      BY <2>2
    <3>2. c.open[i].space = w.open[i].space
      BY <2>1, <2>5, <3>1
    <3> QED
      BY <1>5, <3>1, <3>2
  <2> HIDE DEF c, m
  <2>7. Len(c.open) <= Len(open)
    BY <1>1, <2>1, <2>2
  <2> QED
    BY <2>1, <2>4, <2>6, <2>7 DEF c
<1> HIDE DEF Fine, l
<1>6. ASSUME NEW w \in G, Len(w.open) > 1 PROVE CloseInnermost(w) \in G
  <2>1. /\ CloseInnermost(w) \in World /\ Len(CloseInnermost(w).open) = Len(w.open) - 1
        /\ Len(w.open) \in Nat
    BY <1>6, CloseFacts DEF World
  <2>2. Len(w.open) - 1 >= l => Len(w.open) >= l
    BY <1>1, <2>1
  <2> QED
    BY <1>5, <1>6, <2>1, <2>2
<1>7. \A w \in G : w \in World
  OBVIOUS
<1> HIDE DEF G
<1>8. Closed \in G /\ Len(Closed.open) = l
  BY <1>1, <1>2, <1>4, <1>6, FinalizeKeeps
<1>9. Fine(Closed)
  BY <1>1, <1>8 DEF G
<1> QED
  BY <1>9 DEF Fine

\* When the walk ends, every space is whole.
LEMMA FinishRight ==
  ASSUME Walking, Finish, Right(Unclosed, Visited, Omitted)
  PROVE  Parted(spaces') /\ Ended(finalized', <<>>, Kept)
<1>1. /\ stack = <<>>
      /\ finalized' = finalize(Len(open)).finalized
      /\ spaces' = finalize(Len(open)).spaces \cup
                     {[frame |-> f, into |-> f.space] : f \in ToSet(finalize(Len(open)).open)}
  BY DEF Finish
<1>2. Visited = Kept /\ Omitted = Excluded /\ TreeRight
  <2>1. Reached = N + 1 /\ \A n \in Node : n < N + 1
    BY <1>1, Nodes DEF Reached
  <2>2. Kept \subseteq Node /\ Excluded \subseteq Node /\ TreeRight
    BY RootKept DEF Walking
  <2> QED
    BY <2>1, <2>2 DEF Visited, Omitted
<1> DEFINE G == {w \in World : Right(w, Kept, Excluded)}
<1>3. Unclosed \in World /\ Unclosed \in G /\ Len(open) > 0
  BY <1>1, <1>2, FinishFacts DEF Walking, TypeRight
<1>4. ASSUME NEW w \in G, Len(w.open) > 1 PROVE CloseInnermost(w) \in G
  <2>1. Settled(w.open[Len(w.open)].space, Kept, Excluded)
    BY DEF Settled
  <2>2. CloseInnermost(w) \in World
    BY <1>4, CloseFacts
  <2> QED
    BY <1>2, <1>4, <2>1, <2>2, CloseRight
<1>5. PICK w \in G : /\ w \in World /\ Len(w.open) = 1
                     /\ finalize(Len(open)) =
                          [w EXCEPT !.finalized = Append(@, w.open[1].space)]
  <2> HIDE DEF G
  <2> QED
    BY <1>3, <1>4, FinalizeAll
<1>6. /\ finalize(Len(open)).open = w.open /\ finalize(Len(open)).spaces = w.spaces
      /\ finalize(Len(open)).finalized = Append(w.finalized, w.open[1].space)
  BY <1>5 DEF World
<1>7. /\ Nested(w.open) /\ Holds(w.open, Kept, Excluded) /\ Parted(w.spaces)
      /\ Ended(w.finalized, w.open, Kept)
  BY DEF Right
<1>8. w.open \in Seq(Frame) /\ w.finalized \in Seq(0..N)
  BY <1>5 DEF World
<1>9. Ended(finalized', <<>>, Kept)
  <2>1. Len(<<>>) = Len(w.open) - 1 /\ \A i \in 1..Len(<<>>) : <<>>[i].space = w.open[i].space
    BY <1>5
  <2>2. Len(w.open) > 0
    BY <1>5
  <2>3. Ended(Append(w.finalized, w.open[Len(w.open)].space), <<>>, Kept)
    BY <1>2, <1>7, <1>8, <2>1, <2>2, EndOne
  <2> QED
    BY <1>1, <1>5, <1>6, <2>3
<1>10. ToSet(w.open) = {w.open[1]}
  <2>1. DOMAIN w.open = {1}
    <3> HIDE DEF Frame
    <3> QED
      BY <1>5, <1>8
  <2> QED
    BY <2>1 DEF ToSet
<1>11. Whole(w.open[1]) /\ w.open[1].space \in {1, Synthetic}
  <2>1. 1 \in 1..Len(w.open) /\ ~(1 < Len(w.open))
    BY <1>5
  <2>2. /\ Own(w.open, 1, Kept) = {n \in Kept : w.open[1].space \in Enclosing(n)}
        /\ OwnRows(w.open, 1, Excluded)
             = {x \in Excluded : w.open[1].space \in Enclosing(parent[x])}
    BY <2>1 DEF Own, OwnRows
  <2>3. Whole(w.open[1])
    BY <1>7, <2>1, <2>2 DEF Holds, Whole
  <2> QED
    BY <1>7, <2>1, <2>3 DEF Nested, Outermost
<1>12. Parted(spaces')
  <2>1. spaces' = w.spaces \cup {[frame |-> w.open[1], into |-> w.open[1].space]}
    BY <1>1, <1>6, <1>10
  <2> QED
    BY <1>7, <1>11, <2>1 DEF Parted
<1> QED
  BY <1>9, <1>12

-----------------------------------------------------------------------------
\* What a step of the walk adds to what is done.
LEMMA DoneNext ==
  ASSUME Walking, FrontRight, KeptRight, RunRight, Prune \/ Visit
  PROVE  LET t == Top.node IN
         /\ Prune => t \in Excluded /\ Visited' = Visited /\ Omitted' = Omitted \cup {t}
         /\ Visit => t \in Kept /\ Visited' = Visited \cup {t} /\ Omitted' = Omitted
<1> DEFINE t == Top.node
<1>1. /\ t \in Node /\ Reached = t /\ Reached' \in Nat /\ t < Reached'
      /\ \A n \in Node : t < n /\ n < Reached' => Prune /\ t \in ancestors[n]
  BY NextReached
<1>2. /\ Prune => t \in Excluded
      /\ Visit => t \in Kept
  BY HandKept DEF Prune, Visit
<1>3. Kept' = Kept /\ Excluded' = Excluded
  <2>1. UNCHANGED input
    BY DEF Prune, Visit
  <2>2. Gone' = Gone /\ ancestors' = ancestors
    BY <2>1, TestsKept, InputKept
  <2> QED
    BY <2>2 DEF Kept, Excluded
<1>4. Kept \subseteq Node /\ Excluded \subseteq Node
  BY RootKept DEF Walking
<1>5. ~(Prune /\ Visit)
  BY DEF Prune, Visit
<1>6. ASSUME NEW n \in Kept \cup Excluded PROVE n < Reached' <=> n < t \/ n = t
  <2>1. n \in Node
    BY <1>4
  <2>2. CASE t < n /\ n < Reached'
    <3>1. t \in Gone /\ t \in ancestors[n]
      BY <1>1, <1>2, <2>1, <2>2 DEF Excluded
    <3> QED
      BY <3>1 DEF Kept, Excluded
  <2>3. CASE ~(t < n /\ n < Reached')
    BY <1>1, <2>1, <2>3 DEF Node
  <2> QED
    BY <2>2, <2>3
<1>7. /\ Visited' = {n \in Kept : n < t \/ n = t} /\ Visited = {n \in Kept : n < t}
      /\ Omitted' = {n \in Excluded : n < t \/ n = t} /\ Omitted = {n \in Excluded : n < t}
  BY <1>1, <1>3, <1>6 DEF Visited, Omitted
<1>8. Kept \cap Excluded = {}
  BY DEF Kept, Excluded
<1> HIDE DEF t
<1>9. Prune => Visited' = Visited /\ Omitted' = Omitted \cup {t}
  BY <1>2, <1>7, <1>8
<1>10. Visit => Visited' = Visited \cup {t} /\ Omitted' = Omitted
  BY <1>2, <1>7, <1>8
<1> QED
  BY <1>2, <1>9, <1>10 DEF t

\* Where frames stand, not what they hold.
LEMMA SameNested ==
  ASSUME NEW o, NEW c, Nested(o), Len(o) \in Nat, Len(c) = Len(o),
         \A i \in 1..Len(o) : c[i].space = o[i].space /\ c[i].kind = o[i].kind
  PROVE  Nested(c)
<1>1. ASSUME NEW i \in 1..Len(o), i > 1 PROVE Spaces(c, i - 1) = Spaces(o, i - 1)
  <2>1. \A k \in 1..(i - 1) : k \in 1..Len(o)
    OBVIOUS
  <2>2. \A k \in 1..(i - 1) : c[k].space = o[k].space
    BY <2>1
  <2> QED
    BY <2>2 DEF Spaces
<1>2. \A i \in 1..Len(c) :
        /\ c[i].kind = KindOf(c[i].space)
        /\ i = 1 => c[i].space = Outermost
        /\ i > 1 => /\ c[i].space \in Node \ {1}
                    /\ Spaces(c, i - 1) = SpacesOf(ancestors[c[i].space])
  BY <1>1 DEF Nested
<1>3. \A i, j \in 1..Len(c) : i < j => c[i].space < c[j].space
  BY DEF Nested
<1> QED
  BY <1>2, <1>3 DEF Nested

\* What was finalised depends on the spaces that the frames stand for only.
LEMMA SameEnded ==
  ASSUME NEW V, NEW F, NEW o, NEW c, Ended(F, o, V), Len(c) = Len(o),
         \A i \in 1..Len(o) : c[i].space = o[i].space
  PROVE  Ended(F, c, V)
<1>1. Spaces(c, Len(c)) = Spaces(o, Len(o))
  BY DEF Spaces
<1> QED
  BY <1>1 DEF Ended

\* What a frame owns hangs on where the frames stand.
LEMMA SameOwn ==
  ASSUME NEW V, NEW X, NEW o, NEW c, Len(o) \in Nat, Len(c) = Len(o),
         \A i \in 1..Len(o) : c[i].space = o[i].space,
         NEW i \in 1..Len(o)
  PROVE  Own(c, i, V) = Own(o, i, V) /\ OwnRows(c, i, X) = OwnRows(o, i, X)
<1>1. i < Len(o) => i + 1 \in 1..Len(o)
  OBVIOUS
<1>2. c[i].space = o[i].space /\ (i < Len(o) => c[i + 1].space = o[i + 1].space)
  BY <1>1
<1> QED
  BY <1>2 DEF Own, OwnRows

\* The spaces that stay open are those around the node in hand.
LEMMA HandSpaces ==
  ASSUME Walking, stack # <<>>
  PROVE  LET o == Closed.open
             t == Top.node
             l == Top.level + Base
         IN  /\ o \in Seq(Frame) /\ Len(o) = l /\ l \in Nat /\ t \in Node /\ TreeRight
             /\ Spaces(o, l) = SpacesOf(ancestors[t])
             /\ \A i \in 1..l : o[i].space \in SpacesOf(ancestors[t])
<1> DEFINE o == Closed.open
           t == Top.node
           l == Top.level + Base
<1>1. /\ o \in Seq(Frame) /\ Len(o) = l /\ l \in Nat /\ t \in Node /\ TreeRight
      /\ \A i \in 1..l : o[i].space = open[i].space
  BY TopFacts, ClosedRight DEF Walking
<1>2. Spaces(open, l) = SpacesOf(ancestors[t])
  <2>1. Len(stack) \in 1..Len(stack) /\ Top = stack[Len(stack)]
    BY TopFacts
  <2> QED
    BY <2>1 DEF Walking, StackRight
<1> HIDE DEF o, l
<1>3. Spaces(o, l) = Spaces(open, l)
  BY <1>1 DEF Spaces
<1>4. \A i \in 1..l : o[i].space \in SpacesOf(ancestors[t])
  BY <1>2, <1>3 DEF Spaces
<1> QED
  BY <1>1, <1>2, <1>3, <1>4 DEF o, l

\* A pruned node is left out of the innermost space, and thereby of all of them.
LEMMA PruneRight ==
  ASSUME Walking, stack # <<>>, prunes_subtree, NEW V, NEW X, Right(Closed, V, X),
         NEW w, w.open = prune_node(Closed.open), w.finalized = Closed.finalized,
         w.spaces = Closed.spaces
  PROVE  Right(w, V, X \cup {Top.node})
<1> DEFINE o == Closed.open
           c == w.open
           t == Top.node
           l == Top.level + Base
<1>1. /\ Len(o) = l /\ l \in Nat /\ l > 0 /\ t \in Node /\ TreeRight /\ Len(c) = l
      /\ \A i \in 1..l :
           /\ c[i].space = o[i].space /\ c[i].kind = o[i].kind
           /\ c[i].counted = o[i].counted
           /\ c[i].suppressed = o[i].suppressed
           /\ c[i].excluded = o[i].excluded \cup (IF i = l THEN {t} ELSE {})
  BY HandSpaces, PruneOpen
<1>2. \A i \in 1..l : o[i].space \in Enclosing(parent[t])
  <2>1. t # 1
    BY RootStays
  <2>2. SpacesOf(ancestors[t]) = Enclosing(parent[t])
    BY <1>1, <2>1, EncFacts
  <2> QED
    BY <2>2, HandSpaces
<1>3. /\ Nested(o) /\ Holds(o, V, X) /\ Parted(w.spaces) /\ Ended(w.finalized, o, V)
  BY DEF Right
<1> HIDE DEF o, c, t, l
<1>4. Nested(c)
  BY <1>1, <1>3, SameNested
<1>5. Ended(w.finalized, c, V)
  BY <1>1, <1>3, SameEnded
<1>6. ASSUME NEW i \in 1..l
      PROVE  /\ Counts(c[i], Own(c, i, V))
             /\ c[i].excluded = OwnRows(c, i, X \cup {t})
             /\ c[i].suppressed = Silencers(c[i], V)
  <2>1. Own(c, i, V) = Own(o, i, V) /\ OwnRows(c, i, X) = OwnRows(o, i, X)
    BY <1>1, SameOwn
  <2>2. /\ Counts(o[i], Own(o, i, V)) /\ o[i].excluded = OwnRows(o, i, X)
        /\ o[i].suppressed = Silencers(o[i], V)
    BY <1>1, <1>3 DEF Holds
  <2>3. Counts(c[i], Own(c, i, V))
    BY <1>1, <2>1, <2>2 DEF Counts, CountedNodes
  <2>4. c[i].suppressed = Silencers(c[i], V)
    BY <1>1, <2>2 DEF Silencers
  <2>5. t \in OwnRows(c, i, {t}) <=> i = l
    <3>1. c[i].space \in Enclosing(parent[t])
      BY <1>1, <1>2
    <3>2. i < l => c[i + 1].space \in Enclosing(parent[t])
      <4>1. i < l => i + 1 \in 1..l
        BY <1>1
      <4> QED
        BY <1>1, <1>2, <4>1
    <3>3. i = l <=> ~(i < l)
      BY <1>1
    <3> QED
      BY <1>1, <3>1, <3>2, <3>3 DEF OwnRows
  <2>6. OwnRows(c, i, X \cup {t}) = OwnRows(c, i, X) \cup OwnRows(c, i, {t})
    BY DEF OwnRows
  <2>7. OwnRows(c, i, {t}) \subseteq {t}
    BY DEF OwnRows
  <2>8. c[i].excluded = OwnRows(c, i, X \cup {t})
    <3>1. c[i].excluded = o[i].excluded \cup (IF i = l THEN {t} ELSE {})
      BY <1>1
    <3>2. OwnRows(c, i, {t}) = IF i = l THEN {t} ELSE {}
      BY <2>5, <2>7
    <3> QED
      BY <2>1, <2>2, <2>6, <3>1, <3>2
  <2> QED
    BY <2>3, <2>4, <2>8
<1>7. Holds(c, V, X \cup {t})
  BY <1>1, <1>6 DEF Holds
<1> QED
  BY <1>3, <1>4, <1>5, <1>7 DEF Right, c, t

\* The frames in which a node is counted hold what was done before it.
LEMMA FramesNested ==
  ASSUME Walking, stack # <<>>, Nested(Closed.open)
  PROVE  Nested(FramesHere)
<1> DEFINE o == Closed.open
           h == FramesHere
           t == Top.node
           l == Top.level + Base
           m == Len(h)
<1>1. /\ Len(o) = l /\ l \in Nat /\ t \in Node /\ TreeRight
      /\ Spaces(o, l) = SpacesOf(ancestors[t])
      /\ \A i \in 1..l : o[i].space \in SpacesOf(ancestors[t])
  BY HandSpaces
<1>2. /\ m > 0 /\ m \in Nat /\ m = IF FuncSpace THEN l + 1 ELSE l
      /\ \A i \in 1..l : h[i] = o[i]
      /\ FuncSpace => h[m] = FreshFrame
  BY FramesFacts
<1>3. Nested(o)
  OBVIOUS
<1>4. t = 1 => l = Base
  BY TopFacts
<1>5. t # 1 => l > 0
  BY TopFacts
<1> HIDE DEF o, h, l, m
<1>6. CASE ~FuncSpace
  <2>1. \A i \in 1..l : h[i].space = o[i].space /\ h[i].kind = o[i].kind
    BY <1>2
  <2>2. Len(h) = Len(o) /\ Len(o) \in Nat
    BY <1>1, <1>2, <1>6 DEF m
  <2>3. Nested(h)
    BY <1>1, <1>3, <2>1, <2>2, SameNested
  <2> QED
    BY <2>3 DEF h
<1>7. CASE FuncSpace
  <2>1. /\ m = l + 1 /\ h[m].space = t /\ h[m].kind = kind[t]
        /\ \A i \in 1..m : i = m \/ i \in 1..l
    BY <1>1, <1>2, <1>7 DEF FreshFrame
  <2>2. h[m].kind = KindOf(t) /\ t # Synthetic
    BY <1>1, <2>1 DEF KindOf, Synthetic, Node
  <2>3. m = 1 => t = Outermost
    <3>1. m = 1 => l = 0
      BY <1>1, <2>1
    <3>2. m = 1 => t = 1 /\ Base = 0
      BY <1>4, <1>5, <3>1
    <3> QED
      BY <3>2 DEF Base, Outermost
  <2>4. m > 1 => t \in Node \ {1}
    <3> SUFFICES ASSUME m > 1, t = 1 PROVE FALSE
      BY <1>1
    <3>1. Base = l /\ l > 0
      BY <1>1, <1>4, <2>1
    <3>2. kind[1] # "unit"
      BY <3>1 DEF Base
    <3> QED
      BY <1>1, <1>7, <3>2 DEF FuncSpace, Space, Function, TreeRight, t
  <2>5. \A i \in 1..m : i > 1 => Spaces(h, i - 1) = Spaces(o, i - 1)
    <3> SUFFICES ASSUME NEW i \in 1..m, i > 1 PROVE Spaces(h, i - 1) = Spaces(o, i - 1)
      OBVIOUS
    <3>1. \A k \in 1..(i - 1) : k \in 1..l
      BY <1>1, <2>1
    <3>2. \A k \in 1..(i - 1) : h[k].space = o[k].space
      BY <1>2, <3>1
    <3> QED
      BY <3>2 DEF Spaces
  <2>6. ASSUME NEW i \in 1..m
        PROVE  /\ h[i].kind = KindOf(h[i].space)
               /\ i = 1 => h[i].space = Outermost
               /\ i > 1 => /\ h[i].space \in Node \ {1}
                           /\ Spaces(h, i - 1) = SpacesOf(ancestors[h[i].space])
    <3>1. CASE i \in 1..l
      BY <1>1, <1>2, <1>3, <2>5, <3>1 DEF Nested
    <3>2. CASE i = m
      <4>1. m - 1 = l /\ m \in 1..m
        BY <1>1, <1>2, <2>1
      <4> QED
        BY <1>1, <2>1, <2>2, <2>3, <2>4, <2>5, <3>2, <4>1
    <3> QED
      BY <2>1, <3>1, <3>2
  <2>7. ASSUME NEW i \in 1..m, NEW j \in 1..m, i < j PROVE h[i].space < h[j].space
    <3>1. CASE j \in 1..l
      <4>1. i \in 1..l
        BY <1>1, <2>1, <2>7, <3>1
      <4> QED
        BY <1>1, <1>2, <1>3, <2>7, <3>1, <4>1 DEF Nested
    <3>2. CASE j = m
      <4>1. i \in 1..l
        BY <1>1, <2>1, <2>7, <3>2
      <4>2. o[i].space < t
        BY <1>1, <4>1, EncFacts
      <4> QED
        BY <1>2, <2>1, <3>2, <4>1, <4>2
    <3> QED
      BY <2>1, <3>1, <3>2
  <2>8. Nested(h)
    BY <2>6, <2>7 DEF Nested, m
  <2> QED
    BY <2>8 DEF h
<1> QED
  BY <1>6, <1>7

\* Opening the space of a node leaves every frame with what stands in it.
LEMMA FramesHold ==
  ASSUME Walking, stack # <<>>, Nested(Closed.open),
         NEW V \in SUBSET Kept, NEW X \in SUBSET Excluded, Holds(Closed.open, V, X),
         \A n \in V \cup X : n < Top.node
  PROVE  Holds(FramesHere, V, X)
<1> DEFINE o == Closed.open
           h == FramesHere
           t == Top.node
           l == Top.level + Base
           m == Len(h)
<1>1. Len(o) = l /\ l \in Nat /\ t \in Node /\ TreeRight
  BY HandSpaces
<1>2. /\ m > 0 /\ m \in Nat /\ m = IF FuncSpace THEN l + 1 ELSE l
      /\ \A i \in 1..l : h[i] = o[i]
      /\ FuncSpace => h[m] = FreshFrame
  BY FramesFacts
<1>3. Holds(o, V, X)
  OBVIOUS
<1>4. /\ V \subseteq Node /\ X \subseteq Node \ {1} /\ \A n \in V \cup X : n < t
  BY <1>1, RootKept
<1> HIDE DEF o, h, l, m, t
<1>5. CASE ~FuncSpace
  <2>1. Len(h) = Len(o) /\ Len(o) = l /\ l \in Nat
    BY <1>1, <1>2, <1>5 DEF m
  <2>2. ASSUME NEW i \in 1..l
        PROVE  /\ Counts(h[i], Own(h, i, V)) /\ h[i].excluded = OwnRows(h, i, X)
               /\ h[i].suppressed = Silencers(h[i], V)
    <3>1. Own(h, i, V) = Own(o, i, V) /\ OwnRows(h, i, X) = OwnRows(o, i, X)
      <4>1. \A k \in 1..Len(o) : h[k].space = o[k].space
        BY <1>2, <2>1
      <4> QED
        BY <2>1, <4>1, SameOwn
    <3>2. h[i] = o[i]
      BY <1>2
    <3> QED
      BY <1>3, <2>1, <3>1, <3>2 DEF Holds
  <2>3. Holds(h, V, X)
    BY <2>1, <2>2 DEF Holds
  <2> QED
    BY <2>3 DEF h
<1>6. CASE FuncSpace
  <2>1. /\ m = l + 1 /\ h[m] = FreshFrame /\ FreshFrame.space = t
        /\ \A i \in 1..m : i = m \/ i \in 1..l
    BY <1>1, <1>2, <1>6 DEF FreshFrame, t
  <2>2. ASSUME NEW n \in Node, n < t PROVE t \notin Enclosing(n)
    <3>1. t \in Enclosing(n) => t <= n
      BY <1>1, EncFacts
    <3> QED
      BY <1>1, <2>2, <3>1 DEF Node
  <2>3. \A n \in V : t \notin Enclosing(n)
    BY <1>4, <2>2
  <2>4. \A x \in X : t \notin Enclosing(parent[x])
    <3> SUFFICES ASSUME NEW x \in X PROVE t \notin Enclosing(parent[x])
      OBVIOUS
    <3>1. x \in Node \ {1} /\ x < t /\ parent[x] \in Node /\ parent[x] < x
      BY <1>1, <1>4, AncestorFacts
    <3>2. parent[x] < t
      BY <1>1, <3>1 DEF Node
    <3> QED
      BY <2>2, <3>1, <3>2
  <2>5. ASSUME NEW i \in 1..l
        PROVE  /\ Counts(h[i], Own(h, i, V)) /\ h[i].excluded = OwnRows(h, i, X)
               /\ h[i].suppressed = Silencers(h[i], V)
    <3>1. Own(h, i, V) = Own(o, i, V) /\ OwnRows(h, i, X) = OwnRows(o, i, X)
      <4>1. CASE i < l
        <5>1. i + 1 \in 1..l /\ i < m
          BY <1>1, <2>1, <4>1
        <5>2. h[i].space = o[i].space /\ h[i + 1].space = o[i + 1].space
          BY <1>2, <5>1
        <5> QED
          BY <1>1, <4>1, <5>1, <5>2 DEF Own, OwnRows, m
      <4>2. CASE i = l
        <5>1. i < m /\ i + 1 = m /\ ~(i < l)
          BY <1>1, <2>1, <4>2
        <5>2. h[i].space = o[i].space /\ h[i + 1].space = t
          BY <1>2, <2>1, <5>1
        <5> QED
          BY <1>1, <2>3, <2>4, <5>1, <5>2 DEF Own, OwnRows, m
      <4> QED
        BY <1>1, <4>1, <4>2
    <3>2. h[i] = o[i]
      BY <1>2
    <3> QED
      BY <1>1, <1>3, <3>1, <3>2 DEF Holds
  <2>6. /\ Counts(h[m], Own(h, m, V)) /\ h[m].excluded = OwnRows(h, m, X)
        /\ h[m].suppressed = Silencers(h[m], V)
    <3>1. Own(h, m, V) = {} /\ OwnRows(h, m, X) = {}
      BY <2>1, <2>3, <2>4 DEF Own, OwnRows
    <3>2. Counts(h[m], {})
      <4>1. FreshFrame.counted = <<>> /\ Len(<<>>) = 0 /\ Cardinality({}) = 0 /\ 1..0 = {}
        BY FS_EmptySet DEF FreshFrame
      <4> QED
        BY <2>1, <4>1 DEF Counts, CountedNodes
    <3>3. Silencers(FreshFrame, V) = {}
      <4> SUFFICES ASSUME NEW n \in V, n \in Silencers(FreshFrame, V) PROVE FALSE
        BY DEF Silencers
      <4>1. n \in Node /\ n < t /\ t \notin Enclosing(n)
        BY <1>4, <2>3
      <4>2. CASE FunctionsAround(n) # {} /\ t = Max(FunctionsAround(n))
        <5>1. FunctionsAround(n) \subseteq Enclosing(n) /\ FunctionsAround(n) \in SUBSET (0..N)
          BY <1>1, <4>1, EncFacts DEF FunctionsAround
        <5>2. t \in FunctionsAround(n)
          BY <4>2, <5>1, MaxFacts
        <5> QED
          BY <4>1, <5>1, <5>2
      <4>3. CASE kind[t] = "unit"
        <5>1. t = 1
          BY <1>1, <4>3 DEF TreeRight
        <5> QED
          BY <4>1, <5>1 DEF Node
      <4>4. FreshFrame.kind = kind[t]
        BY DEF FreshFrame, t
      <4> QED
        BY <2>1, <4>2, <4>3, <4>4 DEF Silencers
    <3>4. FreshFrame.excluded = {} /\ FreshFrame.suppressed = {}
      BY DEF FreshFrame
    <3> QED
      BY <2>1, <3>1, <3>2, <3>3, <3>4
  <2>7. Holds(h, V, X)
    BY <2>1, <2>5, <2>6 DEF Holds, m
  <2> QED
    BY <2>7 DEF h
<1> QED
  BY <1>5, <1>6

\* The node in hand is inside all frames that are open for it.
LEMMA FramesAround ==
  ASSUME Walking, stack # <<>>
  PROVE  LET h == FramesHere
             m == Len(h)
             t == Top.node
         IN  /\ h \in Seq(Frame) /\ m \in Nat /\ m > 0 /\ t \in Node /\ TreeRight
             /\ \A i \in 1..m : h[i].space \in Enclosing(t)
             /\ Spaces(h, m) = Enclosing(t)
             /\ Spaces(h, m) = Spaces(Closed.open, Len(Closed.open))
                                 \cup (IF FuncSpace THEN {t} ELSE {})
<1> DEFINE o == Closed.open
           h == FramesHere
           t == Top.node
           l == Top.level + Base
           m == Len(h)
<1>1. /\ Len(o) = l /\ l \in Nat /\ t \in Node /\ TreeRight
      /\ Spaces(o, l) = SpacesOf(ancestors[t])
  BY HandSpaces
<1>2. /\ m > 0 /\ m \in Nat /\ m = IF FuncSpace THEN l + 1 ELSE l
      /\ \A i \in 1..l : h[i] = o[i]
      /\ FuncSpace => h[m] = FreshFrame
      /\ h \in Seq(Frame)
  BY FramesFacts
<1>3. Enclosing(t) = SpacesOf(ancestors[t]) \cup (IF FuncSpace THEN {t} ELSE {})
  BY <1>1, EncFacts DEF FuncSpace
<1> HIDE DEF o, h, l, m
<1>4. Spaces(h, m) = Spaces(o, l) \cup (IF FuncSpace THEN {t} ELSE {})
  <2>1. CASE ~FuncSpace
    BY <1>2, <2>1 DEF Spaces
  <2>2. CASE FuncSpace
    <3>1. /\ h[m].space = t /\ m \in 1..m
          /\ \A i \in 1..m : i = m \/ i \in 1..l
          /\ \A i \in 1..l : i \in 1..m
      BY <1>1, <1>2, <2>2 DEF FreshFrame
    <3>2. ASSUME NEW x PROVE x \in Spaces(h, m) <=> x \in Spaces(o, l) \cup {t}
      BY <1>2, <3>1 DEF Spaces
    <3> QED
      BY <2>2, <3>2
  <2> QED
    BY <2>1, <2>2
<1>5. \A i \in 1..m : h[i].space \in Spaces(h, m)
  BY DEF Spaces
<1> QED
  BY <1>1, <1>2, <1>3, <1>4, <1>5 DEF o, h, l, m

\* The kind of a frame is that of its space, and only the first is a unit.
LEMMA FrameKinds ==
  ASSUME TreeRight, NEW h, Nested(h), Len(h) \in Nat, Len(h) > 0
  PROVE  /\ \A i \in 1..Len(h) : h[i].kind = "unit" <=> i = 1
         /\ \A i \in 1..Len(h) : h[i].kind \in Function
              <=> h[i].space # Synthetic /\ kind[h[i].space] \in Function
<1>1. /\ \A i \in 1..Len(h) : /\ h[i].kind = KindOf(h[i].space)
                              /\ i = 1 => h[i].space = Outermost
                              /\ i > 1 => h[i].space \in Node \ {1}
  BY DEF Nested
<1>2. KindOf(Outermost) = "unit"
  BY DEF KindOf, Outermost, Synthetic
<1>3. \A n \in Node \ {1} : KindOf(n) # "unit"
  BY DEF KindOf, Synthetic, Node, TreeRight
<1>4. \A c : KindOf(c) \in Function <=> c # Synthetic /\ kind[c] \in Function
  BY DEF KindOf, Function
<1>5. \A i \in 1..Len(h) : i = 1 \/ i > 1
  OBVIOUS
<1>6. \A i \in 1..Len(h) : h[i].kind = "unit" <=> i = 1
  BY <1>1, <1>2, <1>3, <1>5
<1> QED
  BY <1>1, <1>4, <1>6

\* A marker lands in the frame that the tree says.
LEMMA TargetIs ==
  ASSUME Walking, stack # <<>>, Nested(FramesHere), NEW i \in 1..Len(FramesHere)
  PROVE  LET h == FramesHere
             t == Top.node
         IN  i \in marker_target(h) <=>
               \/ kind[t] = "marker" /\ FunctionsAround(t) # {}
                    /\ h[i].space = Max(FunctionsAround(t))
               \/ kind[t] = "file_marker" /\ h[i].kind = "unit"
<1> DEFINE h == FramesHere
           t == Top.node
           m == Len(h)
           fs == {k \in DOMAIN h : h[k].kind \in Function}
           us == {k \in DOMAIN h : h[k].kind = "unit"}
<1>1. /\ h \in Seq(Frame) /\ m \in Nat /\ m > 0 /\ t \in Node /\ TreeRight
      /\ Spaces(h, m) = Enclosing(t)
  BY FramesAround
<1>2. DOMAIN h = 1..m
  <2> HIDE DEF Frame, h
  <2> QED
    BY <1>1 DEF m
<1>3. /\ Nested(h) /\ i \in 1..m
  OBVIOUS
<1>8. marker_target(h) = CASE kind[t] = "marker" /\ fs # {} -> {Max(fs)}
                           [] kind[t] = "file_marker" /\ us # {} -> {Min(us)}
                           [] OTHER -> {}
  BY DEF marker_target
<1> HIDE DEF h, m
<1>4. /\ \A k \in 1..m : h[k].kind = "unit" <=> k = 1
      /\ \A k \in 1..m : h[k].kind \in Function
              <=> h[k].space # Synthetic /\ kind[h[k].space] \in Function
  BY <1>1, <1>3, FrameKinds DEF m
<1>5. us = {1} /\ Min(us) = 1
  <2>1. us = {1}
    BY <1>1, <1>2, <1>4
  <2>2. {1} \in SUBSET Nat /\ {1} # {}
    OBVIOUS
  <2>3. Min({1}) \in {1}
    BY <2>2, MinFacts
  <2> QED
    BY <2>1, <2>3
<1>6. FunctionsAround(t) = {h[k].space : k \in fs}
  <2>1. ASSUME NEW x \in FunctionsAround(t) PROVE \E k \in fs : x = h[k].space
    <3>1. x \in Spaces(h, m) /\ x # Synthetic /\ kind[x] \in Function
      BY <1>1 DEF FunctionsAround
    <3>2. PICK k \in 1..m : x = h[k].space
      BY <3>1 DEF Spaces
    <3> QED
      BY <1>2, <1>4, <3>1, <3>2
  <2>2. ASSUME NEW k \in fs PROVE h[k].space \in FunctionsAround(t)
    <3>1. k \in 1..m /\ h[k].space # Synthetic /\ kind[h[k].space] \in Function
      BY <1>2, <1>4
    <3>2. h[k].space \in Spaces(h, m)
      BY <3>1 DEF Spaces
    <3> QED
      BY <1>1, <3>1, <3>2 DEF FunctionsAround
  <2> QED
    BY <2>1, <2>2
<1>7. fs # {} => /\ Max(fs) \in 1..m /\ Max(fs) \in fs
                 /\ Max(FunctionsAround(t)) = h[Max(fs)].space
  <2> SUFFICES ASSUME fs # {}
               PROVE  /\ Max(fs) \in 1..m /\ Max(fs) \in fs
                      /\ Max(FunctionsAround(t)) = h[Max(fs)].space
    OBVIOUS
  <2>1. Max(fs) \in fs /\ \A k \in fs : k <= Max(fs)
    <3>1. fs \in SUBSET (0..m)
      BY <1>1, <1>2
    <3> HIDE DEF fs
    <3> QED
      BY <1>1, <3>1, MaxUpTo
  <2> DEFINE j == Max(fs)
  <2>2. j \in fs /\ j \in 1..m /\ \A k \in fs : k \in 1..m /\ k <= j
    BY <1>2, <2>1
  <2> HIDE DEF j
  <2>3. FunctionsAround(t) \in SUBSET (0..N)
    BY <1>1, EncFacts DEF FunctionsAround
  <2>4. h[j].space \in FunctionsAround(t)
    BY <1>6, <2>2
  <2>5. ASSUME NEW x \in FunctionsAround(t) PROVE x <= h[j].space
    <3>1. PICK k \in fs : x = h[k].space
      BY <1>6
    <3>2. k = j \/ k < j
      BY <1>1, <2>2
    <3>3. x = h[j].space \/ x < h[j].space
      BY <1>3, <2>2, <3>1, <3>2 DEF Nested, m
    <3>4. x \in 0..N /\ h[j].space \in 0..N
      BY <2>3, <2>4
    <3> QED
      BY <3>3, <3>4
  <2>6. Max(FunctionsAround(t)) = h[j].space
    BY <2>3, <2>4, <2>5, MaxIs
  <2> QED
    BY <2>2, <2>6 DEF j
<1>9. \A k \in 1..m : h[i].space = h[k].space => i = k
  <2> SUFFICES ASSUME NEW k \in 1..m, h[i].space = h[k].space PROVE i = k
    OBVIOUS
  <2>1. i < k => h[i].space < h[k].space
    BY <1>3 DEF Nested, m
  <2>2. k < i => h[k].space < h[i].space
    BY <1>3 DEF Nested, m
  <2>3. h[k].space \in 0..N
    <3>1. h[k].space \in Enclosing(t)
      BY <1>1 DEF Spaces
    <3> QED
      BY <1>1, <3>1, EncFacts
  <2>4. i \in Nat /\ k \in Nat
    BY <1>1, <1>3
  <2> HIDE DEF fs, us
  <2> QED
    BY <2>1, <2>2, <2>3, <2>4
<1>10. fs = {} <=> FunctionsAround(t) = {}
  BY <1>6
<1> HIDE DEF fs, us, t
<1>11. CASE kind[t] = "marker" /\ fs # {}
  BY <1>3, <1>7, <1>8, <1>9, <1>10, <1>11 DEF h, t
<1>12. CASE kind[t] = "marker" /\ fs = {}
  BY <1>8, <1>10, <1>12 DEF h, t
<1>13. CASE kind[t] = "file_marker"
  <2>1. marker_target(h) = {1}
    BY <1>5, <1>8, <1>13
  <2> QED
    BY <1>3, <1>4, <1>13, <2>1 DEF h, t
<1>14. CASE kind[t] # "marker" /\ kind[t] # "file_marker"
  BY <1>8, <1>14 DEF h, t
<1> QED
  BY <1>11, <1>12, <1>13, <1>14

\* Counting one more node.
LEMMA CountOneMore ==
  ASSUME NEW s \in Seq(Node \X Nat), NEW e \in Node \X Nat, NEW f, NEW g,
         f.counted = s, g.counted = Append(s, e),
         NEW S, IsFiniteSet(S), Counts(f, S), e[1] \notin S
  PROVE  Counts(g, S \cup {e[1]})
<1>1. /\ Len(s) \in Nat /\ Len(Append(s, e)) = Len(s) + 1 /\ Append(s, e)[Len(s) + 1] = e
      /\ \A i \in 1..Len(s) : Append(s, e)[i] = s[i]
  BY AppendFacts
<1>2. Len(s) = Cardinality(S) /\ {s[k][1] : k \in 1..Len(s)} = S
  BY DEF Counts, CountedNodes
<1>3. Cardinality(S \cup {e[1]}) = Cardinality(S) + 1
  BY FS_AddElement
<1> DEFINE q == Len(s)
           A == Append(s, e)
<1> HIDE DEF q, A
<1>4. {A[k][1] : k \in 1..(q + 1)} = {s[k][1] : k \in 1..q} \cup {e[1]}
  <2>1. /\ q \in Nat /\ A[q + 1] = e /\ \A i \in 1..q : A[i] = s[i]
    BY <1>1 DEF q, A
  <2>2. \A k \in 1..(q + 1) : k \in 1..q \/ k = q + 1
    BY <2>1
  <2>3. q + 1 \in 1..(q + 1) /\ \A k \in 1..q : k \in 1..(q + 1)
    BY <2>1
  <2>4. ASSUME NEW x
        PROVE  x \in {A[k][1] : k \in 1..(q + 1)} <=> x \in {s[k][1] : k \in 1..q} \cup {e[1]}
    <3>1. ASSUME NEW k \in 1..(q + 1), x = A[k][1]
          PROVE  x \in {s[i][1] : i \in 1..q} \cup {e[1]}
      <4>1. CASE k \in 1..q
        BY <2>1, <3>1, <4>1
      <4>2. CASE k = q + 1
        BY <2>1, <3>1, <4>2
      <4> QED
        BY <2>2, <4>1, <4>2
    <3>2. ASSUME NEW k \in 1..q, x = s[k][1] PROVE x \in {A[i][1] : i \in 1..(q + 1)}
      <4>1. k \in 1..(q + 1) /\ A[k] = s[k]
        BY <2>1, <2>3
      <4> QED
        BY <3>2, <4>1
    <3>3. e[1] \in {A[i][1] : i \in 1..(q + 1)}
      BY <2>1, <2>3
    <3> QED
      BY <3>1, <3>2, <3>3
  <2> QED
    BY <2>4
<1>5. CountedNodes(g) = S \cup {e[1]} /\ Len(g.counted) = Cardinality(S \cup {e[1]})
  BY <1>1, <1>2, <1>3, <1>4 DEF CountedNodes, q, A
<1> QED
  BY <1>5 DEF Counts

\* A visited node is counted once in the innermost space, and a marker silences
\* the space it is for.
LEMMA VisitHolds ==
  ASSUME Walking, stack # <<>>, Nested(FramesHere),
         NEW V \in SUBSET Kept, NEW X \in SUBSET Excluded, Holds(FramesHere, V, X),
         Top.node \notin V,
         NEW c, c = compute_per_node(apply_suppression(FramesHere))
  PROVE  Nested(c) /\ Holds(c, V \cup {Top.node}, X)
<1> DEFINE h == FramesHere
           t == Top.node
           m == Len(h)
<1>1. /\ h \in Seq(Frame) /\ m \in Nat /\ m > 0 /\ t \in Node /\ TreeRight
      /\ \A i \in 1..m : h[i].space \in Enclosing(t)
  BY FramesAround
<1>2. /\ Len(c) = m
      /\ \A i \in 1..m :
           /\ c[i].space = h[i].space /\ c[i].kind = h[i].kind
           /\ c[i].excluded = h[i].excluded
           /\ c[i].suppressed = h[i].suppressed \cup
                (IF i \in marker_target(h) THEN {t} ELSE {})
           /\ c[i].counted = IF i = m THEN Append(h[m].counted, <<t, Charge>>)
                             ELSE h[i].counted
  BY VisitOpen
<1>3. Nested(h) /\ Holds(h, V, X) /\ t \notin V
  OBVIOUS
<1>4. \A i \in 1..m : i \in marker_target(h) <=>
               \/ kind[t] = "marker" /\ FunctionsAround(t) # {}
                    /\ h[i].space = Max(FunctionsAround(t))
               \/ kind[t] = "file_marker" /\ h[i].kind = "unit"
  BY TargetIs
<1>5. Charge \in Nat
  BY NestingFacts DEF Walking
<1> HIDE DEF h, t, m
<1>6. Nested(c)
  BY <1>1, <1>2, <1>3, SameNested DEF m
<1>7. ASSUME NEW i \in 1..m
      PROVE  /\ Counts(c[i], Own(c, i, V \cup {t}))
             /\ c[i].excluded = OwnRows(c, i, X)
             /\ c[i].suppressed = Silencers(c[i], V \cup {t})
  <2>1. Own(c, i, V) = Own(h, i, V) /\ OwnRows(c, i, X) = OwnRows(h, i, X)
    BY <1>1, <1>2, SameOwn DEF m
  <2>2. /\ Counts(h[i], Own(h, i, V)) /\ h[i].excluded = OwnRows(h, i, X)
        /\ h[i].suppressed = Silencers(h[i], V)
    BY <1>3 DEF Holds, m
  <2>3. Own(c, i, {t}) = IF i = m THEN {t} ELSE {}
    <3>1. c[i].space \in Enclosing(t)
      BY <1>1, <1>2
    <3>2. i < m => c[i + 1].space \in Enclosing(t)
      <4>1. i < m => i + 1 \in 1..m
        BY <1>1
      <4> QED
        BY <1>1, <1>2, <4>1
    <3>3. i = m <=> ~(i < m)
      BY <1>1
    <3>4. t \in Own(c, i, {t}) <=> i = m
      BY <1>2, <3>1, <3>2, <3>3 DEF Own
    <3>5. Own(c, i, {t}) \subseteq {t}
      BY DEF Own
    <3> QED
      BY <3>4, <3>5
  <2>4. Own(c, i, V \cup {t}) = Own(c, i, V) \cup Own(c, i, {t})
    BY DEF Own
  <2>5. Counts(c[i], Own(c, i, V \cup {t}))
    <3>1. CASE i # m
      <4>1. Own(c, i, V \cup {t}) = Own(h, i, V) /\ c[i].counted = h[i].counted
        BY <1>2, <2>1, <2>3, <2>4, <3>1
      <4> QED
        BY <2>2, <4>1 DEF Counts, CountedNodes
    <3>2. CASE i = m
      <4>1. Own(c, i, V \cup {t}) = Own(h, i, V) \cup {t}
        BY <2>1, <2>3, <2>4, <3>2
      <4>2. c[i].counted = Append(h[i].counted, <<t, Charge>>)
        BY <1>2, <3>2
      <4>3. h[i].counted \in Seq(Node \X Nat)
        <5>1. h[i] \in Frame
          BY <1>1, ElementsIn DEF m
        <5> QED
          BY <5>1 DEF Frame
      <4>4. /\ IsFiniteSet(Own(h, i, V)) /\ t \notin Own(h, i, V)
        <5>1. Own(h, i, V) \subseteq V /\ V \subseteq Node
          BY <1>1, RootKept DEF Own
        <5>2. IsFiniteSet(Node)
          BY FS_Interval, SpaceAssumption DEF Node
        <5>3. Own(h, i, V) \subseteq Node
          BY <5>1
        <5> QED
          BY <1>3, <5>1, <5>2, <5>3, FS_Subset
      <4>5. <<t, Charge>> \in Node \X Nat /\ <<t, Charge>>[1] = t
        BY <1>1, <1>5
      <4> DEFINE e == <<t, Charge>>
                 s == h[i].counted
                 S == Own(h, i, V)
      <4>6. /\ s \in Seq(Node \X Nat) /\ e \in Node \X Nat /\ e[1] = t
            /\ c[i].counted = Append(s, e) /\ IsFiniteSet(S) /\ Counts(h[i], S) /\ e[1] \notin S
            /\ h[i].counted = s
        BY <2>2, <4>2, <4>3, <4>4, <4>5
      <4> HIDE DEF e, s, S
      <4>7. Counts(c[i], S \cup {e[1]})
        BY <4>6, CountOneMore
      <4> QED
        BY <4>1, <4>6, <4>7 DEF S
    <3> QED
      BY <3>1, <3>2
  <2>6. Silencers(c[i], V \cup {t}) = Silencers(h[i], V) \cup
           (IF i \in marker_target(h) THEN {t} ELSE {})
    <3>1. c[i].space = h[i].space /\ c[i].kind = h[i].kind
      BY <1>2
    <3>2. Silencers(c[i], V \cup {t}) = Silencers(h[i], V) \cup Silencers(h[i], {t})
      BY <3>1 DEF Silencers
    <3>3. t \in Silencers(h[i], {t}) <=> i \in marker_target(h)
      BY <1>4 DEF Silencers
    <3>4. Silencers(h[i], {t}) \subseteq {t}
      BY DEF Silencers
    <3>5. Silencers(h[i], {t}) = IF i \in marker_target(h) THEN {t} ELSE {}
      BY <3>3, <3>4
    <3> QED
      BY <3>2, <3>5
  <2>7. c[i].suppressed = h[i].suppressed \cup (IF i \in marker_target(h) THEN {t} ELSE {})
    BY <1>2
  <2>8. c[i].excluded = h[i].excluded
    BY <1>2
  <2> QED
    BY <2>1, <2>2, <2>5, <2>6, <2>7, <2>8
<1>8. Holds(c, V \cup {t}, X)
  BY <1>2, <1>7 DEF Holds
<1> QED
  BY <1>6, <1>8 DEF t

\* A visited node opens at most its own space.
LEMMA VisitEnds ==
  ASSUME Walking, stack # <<>>, NEW V, Top.node \notin V,
         NEW F, Ended(F, Closed.open, V),
         NEW c, Len(c) = Len(FramesHere),
         \A i \in 1..Len(c) : c[i].space = FramesHere[i].space
  PROVE  Ended(F, c, V \cup {Top.node})
<1> DEFINE o == Closed.open
           h == FramesHere
           t == Top.node
           m == Len(c)
<1>1. /\ m \in Nat /\ t \in Node /\ TreeRight
      /\ Spaces(h, m) = Enclosing(t)
      /\ Spaces(h, m) = Spaces(o, Len(o)) \cup (IF FuncSpace THEN {t} ELSE {})
  BY FramesAround
<1>2. Spaces(o, Len(o)) = SpacesOf(ancestors[t])
  BY HandSpaces
<1>3. /\ Len(F) = Cardinality(Members(F, Len(F)))
      /\ Members(F, Len(F)) = SpacesOf(V) \ Spaces(o, Len(o))
      /\ Spaces(o, Len(o)) \subseteq SpacesOf(V)
      /\ \A i, j \in 1..Len(F) : i < j /\ F[i] # Synthetic => F[j] \notin below(F[i])
      /\ \A i \in 1..Len(F) : \A k \in 1..Len(o) :
           F[i] # Synthetic => o[k].space \notin below(F[i])
  BY DEF Ended
<1>4. \A i \in 1..m : c[i].space = h[i].space
  OBVIOUS
<1>5. t \notin V /\ t # Synthetic
  BY <1>1 DEF Node, Synthetic
<1>6. FuncSpace <=> kind[t] \in Space
  BY DEF FuncSpace
<1> HIDE DEF o, h, t, m
<1>7. Spaces(c, m) = Spaces(o, Len(o)) \cup (IF FuncSpace THEN {t} ELSE {})
  <2>1. Spaces(c, m) = Spaces(h, m)
    BY <1>4 DEF Spaces
  <2> QED
    BY <1>1, <2>1
<1>8. SpacesOf(V \cup {t}) = SpacesOf(V) \cup (IF FuncSpace THEN {t} ELSE {})
  BY <1>6 DEF SpacesOf
<1>9. t \notin SpacesOf(V)
  BY <1>5 DEF SpacesOf
<1>10. /\ Members(F, Len(F)) = SpacesOf(V \cup {t}) \ Spaces(c, m)
       /\ Spaces(c, m) \subseteq SpacesOf(V \cup {t})
  BY <1>3, <1>7, <1>8, <1>9
<1>11. ASSUME NEW i \in 1..Len(F), NEW k \in 1..m, F[i] # Synthetic
       PROVE  c[k].space \notin below(F[i])
  <2>1. c[k].space \in Spaces(o, Len(o)) \/ c[k].space = t
    <3>1. c[k].space \in Spaces(c, m)
      BY DEF Spaces
    <3> QED
      BY <1>7, <3>1
  <2>2. CASE c[k].space \in Spaces(o, Len(o))
    <3>1. PICK j \in 1..Len(o) : c[k].space = o[j].space
      BY <2>2 DEF Spaces
    <3> QED
      BY <1>3, <1>11, <3>1
  <2>3. CASE c[k].space = t
    <3> SUFFICES ASSUME t \in below(F[i]) PROVE FALSE
      BY <2>3
    <3>1. F[i] \in Members(F, Len(F))
      BY DEF Members
    <3>2. kind[F[i]] \in Space /\ F[i] \notin Spaces(o, Len(o))
      BY <1>3, <1>11, <3>1 DEF SpacesOf
    <3>3. F[i] \in ancestors[t]
      BY DEF below
    <3> QED
      BY <1>2, <3>2, <3>3 DEF SpacesOf
  <2> QED
    BY <2>1, <2>2, <2>3
<1>12. Ended(F, c, V \cup {t})
  BY <1>3, <1>10, <1>11 DEF Ended, m
<1> QED
  BY <1>12 DEF t

\* A visit adds its node to the spaces around it, and nothing else.
LEMMA VisitRight ==
  ASSUME Walking, stack # <<>>, NEW V \in SUBSET Kept, NEW X \in SUBSET Excluded,
         Right(Closed, V, X), \A n \in V \cup X : n < Top.node,
         NEW w, w.open = compute_per_node(apply_suppression(FramesHere)),
         w.finalized = Closed.finalized, w.spaces = Closed.spaces
  PROVE  Right(w, V \cup {Top.node}, X)
<1>1. /\ Nested(Closed.open) /\ Holds(Closed.open, V, X) /\ Parted(Closed.spaces)
      /\ Ended(Closed.finalized, Closed.open, V)
  BY DEF Right
<1>2. Nested(FramesHere) /\ Holds(FramesHere, V, X)
  BY <1>1, FramesNested, FramesHold
<1>3. Top.node \notin V
  <2>1. Top.node \in Node
    BY TopFacts
  <2> QED
    BY <2>1 DEF Node
<1>4. Nested(w.open) /\ Holds(w.open, V \cup {Top.node}, X)
  BY <1>2, <1>3, VisitHolds
<1>5. /\ Len(w.open) = Len(FramesHere)
      /\ \A i \in 1..Len(w.open) : w.open[i].space = FramesHere[i].space
  BY VisitOpen
<1>6. Ended(w.finalized, w.open, V \cup {Top.node})
  BY <1>1, <1>3, <1>5, VisitEnds
<1> QED
  BY <1>1, <1>4, <1>6 DEF Right

-----------------------------------------------------------------------------
\* What depends on the input only stays, fourth part.
LEMMA RightKept ==
  ASSUME UNCHANGED input
  PROVE  /\ \A w, V, X : Right(w, V, X)' <=> Right(w, V, X)
         /\ \A S : Parted(S)' <=> Parted(S)
         /\ \A F, o, V : Ended(F, o, V)' <=> Ended(F, o, V)
         /\ Kept' = Kept
<1>1. /\ parent' = parent /\ kind' = kind /\ ancestors' = ancestors /\ Gone' = Gone
      /\ \A S : SpacesOf(S)' = SpacesOf(S)
      /\ \A n : below(n)' = below(n) /\ Enclosing(n)' = Enclosing(n)
  BY InputKept, TestsKept
<1>2. Kept' = Kept /\ Excluded' = Excluded
  BY <1>1 DEF Kept, Excluded
<1>3. \A n : FunctionsAround(n)' = FunctionsAround(n)
  BY <1>1 DEF FunctionsAround
<1>4. \A x : Enclosing(parent[x])' = Enclosing(parent[x])
  BY <1>1 DEF Enclosing, SpacesOf
<1>5. \A o : Nested(o)' <=> Nested(o)
  <2>1. Outermost' = Outermost /\ \A c : KindOf(c)' = KindOf(c)
    BY <1>1 DEF Outermost, KindOf
  <2>2. \A c : SpacesOf(ancestors[c])' = SpacesOf(ancestors[c])
    BY <1>1 DEF SpacesOf
  <2> QED
    BY <2>1, <2>2 DEF Nested
<1>6. \A f, V : Silencers(f, V)' = Silencers(f, V)
  BY <1>1, <1>3 DEF Silencers
<1>7. \A o, i, V : Own(o, i, V)' = Own(o, i, V) /\ OwnRows(o, i, V)' = OwnRows(o, i, V)
  BY <1>1, <1>4 DEF Own, OwnRows
<1>8. \A o, V, X : Holds(o, V, X)' <=> Holds(o, V, X)
  BY <1>6, <1>7 DEF Holds, Counts, CountedNodes
<1>9. \A f : Whole(f)' <=> Whole(f)
  BY <1>1, <1>2, <1>4, <1>6 DEF Whole, Counts, CountedNodes
<1>10. \A S : Parted(S)' <=> Parted(S)
  BY <1>4, <1>9 DEF Parted
<1>11. \A F, o, V : Ended(F, o, V)' <=> Ended(F, o, V)
  BY <1>1 DEF Ended
<1>12. \A w, V, X : Right(w, V, X)' <=> Right(w, V, X)
  BY <1>5, <1>8, <1>10, <1>11 DEF Right
<1> QED
  BY <1>2, <1>10, <1>11, <1>12

\* Nothing is counted, and nothing finalised, before the walk begins.
LEMMA InitSpaces == Init => SpacesRight
<1> SUFFICES ASSUME Init PROVE Right(Unclosed, Visited, Omitted)
  BY DEF SpacesRight, Init
<1>1. TreeRight
  BY InitRight
<1>2. /\ stack # <<>> /\ Top.node = 1 /\ finalized = <<>> /\ spaces = {}
      /\ open = IF kind[1] = "unit" THEN <<>>
                ELSE <<[space |-> Synthetic, kind |-> "unit", counted |-> <<>>,
                        excluded |-> {}, suppressed |-> {}]>>
  BY DEF Init, Top, Last
<1>3. Visited = {} /\ Omitted = {}
  <2>1. Reached = 1
    BY <1>2 DEF Reached
  <2>2. \A n \in Node : ~(n < 1)
    BY DEF Node
  <2> QED
    BY <1>1, <2>1, <2>2, RootKept DEF Visited, Omitted
<1>4. /\ Unclosed.open = open /\ Unclosed.spaces = {} /\ Unclosed.finalized = <<>>
  BY <1>2 DEF Unclosed
<1>5. CASE kind[1] = "unit"
  <2>1. open = <<>> /\ Len(open) = 0
    BY <1>2, <1>5
  <2>2. SpacesOf({}) = {} /\ Spaces(open, 0) = {} /\ Members(<<>>, 0) = {} /\ Len(<<>>) = 0
    BY <1>5 DEF SpacesOf, Spaces, Members
  <2>3. Cardinality({}) = 0
    BY FS_EmptySet
  <2>4. Ended(<<>>, open, {})
    BY <2>1, <2>2, <2>3 DEF Ended
  <2>5. Nested(open) /\ Holds(open, {}, {})
    BY <2>1 DEF Nested, Holds
  <2> QED
    BY <1>3, <1>4, <2>4, <2>5 DEF Right, Parted
<1>6. CASE kind[1] # "unit"
  <2>1. /\ Len(open) = 1 /\ \A i \in 1..1 : i = 1
        /\ open[1] = [space |-> Synthetic, kind |-> "unit", counted |-> <<>>,
                      excluded |-> {}, suppressed |-> {}]
    BY <1>2, <1>6
  <2>2. /\ open[1].space = Synthetic /\ open[1].kind = "unit" /\ open[1].counted = <<>>
        /\ open[1].excluded = {} /\ open[1].suppressed = {}
    BY <2>1
  <2>3. SpacesOf({}) = {Synthetic}
    BY <1>6 DEF SpacesOf
  <2>4. Spaces(open, 1) = {Synthetic}
    BY <2>1, <2>2 DEF Spaces
  <2>5. Members(<<>>, 0) = {} /\ Len(<<>>) = 0
    BY DEF Members
  <2>6. Cardinality({}) = 0
    BY FS_EmptySet
  <2>7. Ended(<<>>, open, {})
    <3>1. /\ Len(open) = 1 /\ Spaces(open, Len(open)) = {Synthetic}
          /\ Members(<<>>, Len(<<>>)) = {} /\ Len(<<>>) = Cardinality({}) /\ 1..Len(<<>>) = {}
      BY <2>1, <2>4, <2>5, <2>6
    <3> QED
      BY <2>3, <3>1 DEF Ended
  <2>8. Nested(open)
    BY <1>6, <2>1, <2>2 DEF Nested, KindOf, Outermost
  <2>9. Holds(open, {}, {})
    <3>1. Own(open, 1, {}) = {} /\ OwnRows(open, 1, {}) = {} /\ Silencers(open[1], {}) = {}
      BY DEF Own, OwnRows, Silencers
    <3>2. Counts(open[1], {})
      BY <2>2, <2>5, <2>6 DEF Counts, CountedNodes
    <3> QED
      BY <2>1, <2>2, <3>1, <3>2 DEF Holds
  <2> QED
    BY <1>3, <1>4, <2>7, <2>8, <2>9 DEF Right, Parted
<1> QED
  BY <1>5, <1>6

\* Every step keeps the spaces right.
LEMMA SpacesStep == WalkInv /\ TestsRight /\ SpacesRight /\ [Next]_vars => SpacesRight'
<1> SUFFICES ASSUME WalkInv, TestsRight, SpacesRight, [Next]_vars PROVE SpacesRight'
  OBVIOUS
<1>1. ASSUME Prune \/ Visit \/ Finish
      PROVE  Walking /\ UNCHANGED input /\ Right(Unclosed, Visited, Omitted)
  BY <1>1 DEF Prune, Visit, Finish, WalkInv, WalkRight, Walking, SpacesRight
<1>2. UNCHANGED input =>
        /\ \A w, V, X : Right(w, V, X)' <=> Right(w, V, X)
        /\ \A S : Parted(S)' <=> Parted(S)
        /\ \A F, o, V : Ended(F, o, V)' <=> Ended(F, o, V)
        /\ Kept' = Kept
  BY RightKept
<1>3. CASE Prune \/ Visit
  <2> DEFINE t == Top.node
  <2>1. /\ stack # <<>> /\ pc' = "walk" /\ Walking /\ UNCHANGED input
        /\ FrontRight /\ KeptRight /\ RunRight /\ t \in Node
    BY <1>1, <1>3, TopFacts DEF Prune, Visit, TestsRight
  <2>2. Right(Closed, Visited, Omitted)
    BY <1>1, <1>3, <2>1, ClosedIsRight
  <2>3. /\ Prune => t \in Excluded /\ Visited' = Visited /\ Omitted' = Omitted \cup {t}
        /\ Visit => t \in Kept /\ Visited' = Visited \cup {t} /\ Omitted' = Omitted
    BY <1>3, <2>1, DoneNext
  <2>4. /\ Unclosed'.open = open' /\ Unclosed'.finalized = Closed.finalized
        /\ Unclosed'.spaces = Closed.spaces
    BY <1>3 DEF Unclosed, Prune, Visit
  <2> SUFFICES Right(Unclosed', Visited', Omitted')
    BY <1>2, <2>1 DEF SpacesRight
  <2>5. CASE Prune
    <3>1. prunes_subtree /\ open' = prune_node(Closed.open)
      BY <2>5 DEF Prune
    <3> QED
      BY <2>1, <2>2, <2>3, <2>4, <2>5, <3>1, PruneRight
  <2>6. CASE Visit
    <3>1. open' = compute_per_node(apply_suppression(FramesHere))
      BY <2>6 DEF Visit, FramesHere, FuncSpace
    <3>2. Visited \in SUBSET Kept /\ Omitted \in SUBSET Excluded
      BY DEF Visited, Omitted
    <3>3. \A n \in Visited \cup Omitted : n < t
      BY <2>1 DEF Visited, Omitted, Reached
    <3> QED
      BY <2>1, <2>2, <2>3, <2>4, <2>6, <3>1, <3>2, <3>3, VisitRight
  <2> QED
    BY <1>3, <2>5, <2>6
<1>4. CASE Finish
  <2>1. pc' = "done" /\ UNCHANGED input
    BY <1>4 DEF Finish
  <2>2. Parted(spaces') /\ Ended(finalized', <<>>, Kept)
    BY <1>1, <1>4, FinishRight
  <2> QED
    BY <1>2, <2>1, <2>2 DEF SpacesRight
<1>5. CASE UNCHANGED vars
  <2>1. UNCHANGED input
    BY <1>5 DEF vars, input
  <2>2. /\ pc' = pc /\ stack' = stack /\ open' = open /\ finalized' = finalized
        /\ spaces' = spaces
    BY <1>5 DEF vars
  <2>3. Unclosed' = Unclosed /\ Reached' = Reached
    BY <2>2 DEF Unclosed, Reached, Top
  <2>4. Gone' = Gone /\ ancestors' = ancestors
    BY <2>1, TestsKept, InputKept
  <2>5. Visited' = Visited /\ Omitted' = Omitted
    BY <2>3, <2>4 DEF Visited, Omitted, Kept, Excluded
  <2> QED
    BY <1>2, <2>1, <2>2, <2>3, <2>5 DEF SpacesRight
<1> QED
  BY <1>3, <1>4, <1>5 DEF Next, Done

\* When the walk is done, what was finalised and what the spaces hold is right.
LEMMA WhenDone ==
  ASSUME WalkInv, SpacesRight, pc = "done"
  PROVE  /\ Parted(spaces) /\ Ended(finalized, <<>>, Kept)
         /\ finalized \in Seq(0..N)
         /\ \A s \in spaces : s.frame \in Frame /\ Whole(s.frame)
<1>1. Parted(spaces) /\ Ended(finalized, <<>>, Kept)
  BY DEF SpacesRight
<1>2. finalized \in Seq(0..N) /\ \A s \in spaces : s.frame \in Frame
  <2>1. /\ Unclosed.finalized \in Seq(0..N)
        /\ Unclosed.spaces \in SUBSET [frame : Frame, into : 0..N]
    BY DEF WalkInv, TypeRight, World
  <2>2. Unclosed.finalized = finalized /\ Unclosed.spaces = spaces
    BY DEF Unclosed
  <2> HIDE DEF Frame
  <2> QED
    BY <2>1, <2>2
<1>3. \A s \in spaces : Whole(s.frame)
  BY <1>1 DEF Parted
<1> QED
  BY <1>1, <1>2, <1>3

\* What every space holds, and what was finalised, is right throughout.
THEOREM SpacesAreRight == Spec => []SpacesRight
<1>1. Init => TestsRight /\ SpacesRight
  BY InitTests, InitSpaces DEF TestsRight
<1> QED
  BY <1>1, TestsStep, SpacesStep, WalkIsRight, PTL DEF Spec

\* Every space is finalised once, after all the spaces inside it, and handed
\* to the space that encloses it in the source, however late it is closed.
THEOREM SpacesCloseOnce == Spec => []ClosedOnceInsideOut
<1>1. WalkInv /\ SpacesRight => ClosedOnceInsideOut
  <2> SUFFICES ASSUME WalkInv, SpacesRight, pc = "done"
               PROVE  /\ ToSet(finalized) = Opened /\ Len(finalized) = Cardinality(Opened)
                      /\ \A i, j \in DOMAIN finalized :
                           i < j /\ finalized[i] # Synthetic =>
                             finalized[j] \notin below(finalized[i])
                      /\ \A s \in spaces : s.frame.space \notin {1, Synthetic} =>
                           s.into = Max(Enclosing(parent[s.frame.space]))
    BY DEF ClosedOnceInsideOut
  <2>1. /\ Parted(spaces) /\ Ended(finalized, <<>>, Kept) /\ finalized \in Seq(0..N)
    BY WhenDone
  <2>2. DOMAIN finalized = 1..Len(finalized)
    BY <2>1
  <2>3. /\ Len(finalized) = Cardinality(Members(finalized, Len(finalized)))
        /\ Members(finalized, Len(finalized)) = SpacesOf(Kept) \ Spaces(<<>>, Len(<<>>))
        /\ \A i, j \in 1..Len(finalized) :
             i < j /\ finalized[i] # Synthetic => finalized[j] \notin below(finalized[i])
    BY <2>1 DEF Ended
  <2>4. Spaces(<<>>, Len(<<>>)) = {}
    BY DEF Spaces
  <2>5. ToSet(finalized) = Members(finalized, Len(finalized))
    BY <2>2 DEF ToSet, Members
  <2>6. Members(finalized, Len(finalized)) = Opened
    BY <2>3, <2>4 DEF Opened
  <2>7. \A s \in spaces : s.frame.space \notin {1, Synthetic} =>
          s.into = Max(Enclosing(parent[s.frame.space]))
    BY <2>1 DEF Parted
  <2> QED
    BY <2>2, <2>3, <2>5, <2>6, <2>7
<1> QED
  BY <1>1, SpacesAreRight, WalkIsRight, PTL

\* A space counts every retained node inside it once, whichever inner space
\* counted it first, and leaves out the rows of every pruned subtree inside it.
THEOREM NodesCountWhereTheyStand == Spec => []CountedWhereItStands
<1>1. WalkInv /\ SpacesRight => CountedWhereItStands
  <2> SUFFICES ASSUME WalkInv, SpacesRight, pc = "done", NEW s \in spaces
               PROVE  LET counted == [i \in DOMAIN s.frame.counted |-> s.frame.counted[i][1]]
                          within  == {n \in Kept : s.frame.space \in Enclosing(n)}
                      IN  /\ ToSet(counted) = within /\ Len(counted) = Cardinality(within)
                          /\ s.frame.excluded
                               = {n \in Excluded : s.frame.space \in Enclosing(parent[n])}
    BY DEF CountedWhereItStands
  <2> DEFINE f == s.frame
             counted == [i \in DOMAIN f.counted |-> f.counted[i][1]]
             within == {n \in Kept : f.space \in Enclosing(n)}
  <2>1. f \in Frame /\ Whole(f)
    BY WhenDone
  <2>2. f.counted \in Seq(Node \X Nat)
    BY <2>1 DEF Frame
  <2>3. DOMAIN f.counted = 1..Len(f.counted) /\ Len(f.counted) \in Nat
    BY <2>2
  <2>4. /\ CountedNodes(f) = within /\ Len(f.counted) = Cardinality(within)
        /\ f.excluded = {n \in Excluded : f.space \in Enclosing(parent[n])}
    BY <2>1 DEF Whole, Counts
  <2> HIDE DEF f, within
  <2>5. ToSet(counted) = CountedNodes(f)
    <3>1. DOMAIN counted = 1..Len(f.counted) /\ \A k \in 1..Len(f.counted) : counted[k] = f.counted[k][1]
      BY <2>3
    <3> QED
      BY <3>1 DEF ToSet, CountedNodes
  <2>6. Len(counted) = Len(f.counted)
    <3>1. DOMAIN counted = 1..Len(f.counted)
      BY <2>3
    <3> QED
      BY <2>3, <3>1
  <2> QED
    BY <2>4, <2>5, <2>6 DEF f, within
<1> QED
  BY <1>1, SpacesAreRight, WalkIsRight, PTL

\* A marker silences the innermost function around it, however many functions
\* start on its line, and a file marker silences the file.
THEOREM MarkersSilenceInnermost == Spec => []MarkersLandInnermost
<1>1. WalkInv /\ SpacesRight => MarkersLandInnermost
  <2> SUFFICES ASSUME WalkInv, SpacesRight, pc = "done", NEW s \in spaces
               PROVE  LET k == s.frame.kind
                          functions(n) == {m \in Enclosing(n) \ {Synthetic} : kind[m] \in Function}
                      IN  s.frame.suppressed =
                            {n \in Kept : \/ kind[n] = "marker" /\ functions(n) # {}
                                               /\ s.frame.space = Max(functions(n))
                                          \/ kind[n] = "file_marker" /\ k = "unit"}
    BY DEF MarkersLandInnermost
  <2>1. Whole(s.frame)
    BY WhenDone
  <2> QED
    BY <2>1 DEF Whole, Silencers, FunctionsAround
<1> QED
  BY <1>1, SpacesAreRight, WalkIsRight, PTL
=============================================================================
