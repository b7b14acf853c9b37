--------------------------- MODULE SwmrMap_proof ---------------------------
(***************************************************************************)
(* No node is deleted under a reader, get is linearizable, and the chains, *)
(* the clock array and the retired list agree, for any number of keys,     *)
(* buckets, readers, slots and puts.                                       *)
(*                                                                         *)
(* What a walk comes to is the least closed set that it starts in, so a    *)
(* fact about a whole chain is proved by naming a closed set, without      *)
(* induction over the chain.  First come the lemmas on walks (what         *)
(* replacing, adding and removing one node does to them), then the         *)
(* inductive invariant, then each step's effect on the heap, and the       *)
(* invariant part by part: types, the map and its clock, the retired list, *)
(* the registry and the epochs, and last the readers.                      *)
(*                                                                         *)
(* The argument for the readers: a node that a reader may come to is       *)
(* linked, or it was retired in the epoch the reader has announced or      *)
(* later, and such a node's pointer leads to another of that kind.         *)
(* reclaim_memory deletes only what was retired before the least of the    *)
(* announced epochs (EpochInv).                                            *)
(***************************************************************************)
EXTENDS SwmrMap, SequenceTheorems, FiniteSetTheorems, TLAPS

-----------------------------------------------------------------------------
(***************************************************************************)
(* Walks: what is reached from p through the pointers nx of the nodes A.   *)
(***************************************************************************)
Shut(nx, S) == \A n \in S : nx[n] \in S \cup {Null}
Reach(A, nx, p) == {n \in Node : \A S \in SUBSET A : p \in S \cup {Null} /\ Shut(nx, S) => n \in S}

LEMMA NullNode == Null \notin Node
BY MapAssumption DEF MapAssumption

\* A walk comes to nothing outside a closed set that it starts in.
LEMMA ReachLeast ==
  ASSUME NEW A, NEW nx, NEW p, NEW S \in SUBSET A, p \in S \cup {Null}, Shut(nx, S)
  PROVE  Reach(A, nx, p) \subseteq S
BY DEF Reach

LEMMA ReachNull == ASSUME NEW A, NEW nx PROVE Reach(A, nx, Null) = {}
<1>1. {} \in SUBSET A /\ Null \in {} \cup {Null} /\ Shut(nx, {})
  BY DEF Shut
<1> QED BY <1>1, ReachLeast DEF Reach

\* What a walk comes to is closed.
LEMMA ReachShut ==
  ASSUME NEW A \in SUBSET Node, NEW nx, Shut(nx, A), NEW p \in A \cup {Null}
  PROVE  /\ Reach(A, nx, p) \subseteq A
         /\ p \in Reach(A, nx, p) \cup {Null}
         /\ Shut(nx, Reach(A, nx, p))
<1>1. Reach(A, nx, p) \subseteq A
  BY ReachLeast
<1>2. p \in Reach(A, nx, p) \cup {Null}
  BY NullNode DEF Reach
<1>3. ASSUME NEW n \in Reach(A, nx, p), nx[n] # Null PROVE nx[n] \in Reach(A, nx, p)
  <2>1. nx[n] \in Node
    BY <1>1, <1>3 DEF Shut
  <2>2. ASSUME NEW S \in SUBSET A, p \in S \cup {Null}, Shut(nx, S) PROVE nx[n] \in S
    BY <1>3, <2>2 DEF Shut, Reach
  <2> QED BY <2>1, <2>2 DEF Reach
<1> QED BY <1>1, <1>2, <1>3 DEF Shut

\* One step of a walk.
LEMMA ReachStep ==
  ASSUME NEW A \in SUBSET Node, NEW nx, Shut(nx, A), NEW p \in A
  PROVE  Reach(A, nx, p) = {p} \cup Reach(A, nx, nx[p])
<1> DEFINE R == Reach(A, nx, nx[p])
<1>1. nx[p] \in A \cup {Null}
  BY DEF Shut
<1>2. R \subseteq A /\ nx[p] \in R \cup {Null} /\ Shut(nx, R)
  BY <1>1, ReachShut
<1>3. Reach(A, nx, p) \subseteq {p} \cup R
  <2>1. {p} \cup R \in SUBSET A /\ p \in {p} \cup R /\ Shut(nx, {p} \cup R)
    BY <1>2 DEF Shut
  <2> QED BY <2>1, ReachLeast
<1>4. p \in Reach(A, nx, p)
  BY ReachShut, NullNode
<1>5. R \subseteq Reach(A, nx, p)
  <2>1. Reach(A, nx, p) \in SUBSET A /\ Shut(nx, Reach(A, nx, p))
    BY ReachShut
  <2>2. nx[p] \in Reach(A, nx, p) \cup {Null}
    BY <1>4, <2>1 DEF Shut
  <2> QED BY <2>1, <2>2, ReachLeast
<1> QED BY <1>3, <1>4, <1>5

\* A walk is not changed by what happens off its way.
LEMMA ReachSame ==
  ASSUME NEW A \in SUBSET Node, NEW nx, Shut(nx, A), NEW p \in A \cup {Null},
         NEW B \in SUBSET Node, NEW ny, Reach(A, nx, p) \subseteq B,
         \A n \in Reach(A, nx, p) : ny[n] = nx[n]
  PROVE  Reach(B, ny, p) = Reach(A, nx, p)
<1> DEFINE R == Reach(A, nx, p)
<1>1. R \subseteq A /\ p \in R \cup {Null} /\ Shut(nx, R)
  BY ReachShut
<1> HIDE DEF R
<1>2. \A n \in R : ny[n] = nx[n]
  BY DEF R
<1>3. Reach(B, ny, p) \subseteq R
  <2>1. R \in SUBSET B /\ Shut(ny, R)
    BY <1>1, <1>2 DEF Shut, R
  <2> QED BY <1>1, <2>1, ReachLeast
<1>4. ASSUME NEW n \in R PROVE n \in Reach(B, ny, p)
  <2>1. ASSUME NEW S \in SUBSET B, p \in S \cup {Null}, Shut(ny, S) PROVE n \in S
    <3>1. S \cap R \in SUBSET A /\ p \in (S \cap R) \cup {Null}
      BY <1>1, <2>1
    <3>2. Shut(nx, S \cap R)
      BY <1>1, <1>2, <2>1 DEF Shut
    <3>3. R \subseteq S \cap R
      BY <3>1, <3>2, ReachLeast DEF R
    <3> QED BY <1>4, <3>3
  <2> QED BY <1>1, <1>4, <2>1 DEF Reach
<1> QED BY <1>3, <1>4 DEF R

\* Pointers that lead down lead nowhere twice.
Down(A, nx, rank) ==
  /\ rank \in [Node -> Nat]
  /\ \A n \in A : nx[n] # Null => rank[nx[n]] < rank[n]

LEMMA ReachDown ==
  ASSUME NEW A \in SUBSET Node, NEW nx, Shut(nx, A), NEW rank, Down(A, nx, rank), NEW p \in A
  PROVE  /\ p \notin Reach(A, nx, nx[p])
         /\ \A n \in Reach(A, nx, p) : nx[n] # p
<1>1. \A n \in A : rank[n] \in Nat
  BY DEF Down
<1>2. \A n \in A : nx[n] # Null => nx[n] \in A /\ rank[nx[n]] < rank[n]
  BY DEF Down, Shut
<1> DEFINE T == {n \in A : rank[n] < rank[p]}
<1>3. T \in SUBSET A /\ nx[p] \in T \cup {Null} /\ Shut(nx, T)
  BY <1>1, <1>2 DEF Shut
<1>4. Reach(A, nx, nx[p]) \subseteq T
  BY <1>3, ReachLeast
<1>5. p \notin Reach(A, nx, nx[p])
  BY <1>1, <1>4
<1>6. ASSUME NEW n \in Reach(A, nx, p), nx[n] = p PROVE FALSE
  <2>1. n = p \/ n \in T
    BY <1>4, ReachStep
  <2>2. n \in A /\ p # Null
    BY <2>1, NullNode
  <2> QED BY <1>1, <1>2, <1>6, <2>1, <2>2
<1> QED BY <1>5, <1>6
-----------------------------------------------------------------------------
(***************************************************************************)
(* What put does to the walks: new takes the place of old, a head is put   *)
(* before the first node of a bucket, a victim is taken out.               *)
(***************************************************************************)
\* The pointers of P, all of them to old, become new; and new points on.
Replaced(A, nx, B, ny, P, old, new) ==
  /\ old \in A /\ new \in Node \ A /\ B = A \cup {new}
  /\ P \subseteq {a \in A : nx[a] = old}
  /\ \A a \in A : ny[a] = IF a \in P THEN new ELSE nx[a]
  /\ ny[new] = nx[old]

LEMMA ReplaceWalk ==
  ASSUME NEW A \in SUBSET Node, NEW nx, Shut(nx, A), NEW p \in A \cup {Null},
         NEW B, NEW ny, NEW P, NEW old, NEW new, Replaced(A, nx, B, ny, P, old, new)
  PROVE  /\ Shut(ny, B)
         /\ Reach(A, nx, p) \ {old} \subseteq Reach(B, ny, p)
         /\ old \in Reach(A, nx, p) => Reach(B, ny, p) \cap {old, new} # {}
         /\ Reach(B, ny, p) \subseteq Reach(A, nx, p) \cup {new}
<1> USE DEF Replaced
<1>1. Shut(ny, B) /\ B \in SUBSET Node /\ p \in B \cup {Null}
  BY DEF Shut
<1>2. ASSUME NEW S \in SUBSET B, p \in S \cup {Null}, Shut(ny, S)
      PROVE  /\ Reach(A, nx, p) \ {old} \subseteq S
             /\ old \in Reach(A, nx, p) => S \cap {old, new} # {}
  <2>1. CASE new \in S
    <3> DEFINE T == (S \ {new}) \cup {old}
    <3>1. T \in SUBSET A /\ p \in T \cup {Null}
      BY <1>2, NullNode
    <3>2. Shut(nx, T)
      BY <1>2, <2>1, NullNode DEF Shut
    <3> QED BY <2>1, <3>1, <3>2, ReachLeast
  <2>2. CASE new \notin S
    <3>1. S \in SUBSET A /\ Shut(nx, S)
      BY <1>2, <2>2, NullNode DEF Shut
    <3> QED BY <1>2, <3>1, ReachLeast
  <2> QED BY <2>1, <2>2
<1>3. Reach(B, ny, p) \in SUBSET B /\ p \in Reach(B, ny, p) \cup {Null} /\ Shut(ny, Reach(B, ny, p))
  BY <1>1, ReachShut
<1>4. /\ Reach(A, nx, p) \ {old} \subseteq Reach(B, ny, p)
      /\ old \in Reach(A, nx, p) => Reach(B, ny, p) \cap {old, new} # {}
  BY <1>2, <1>3
<1>5. Reach(B, ny, p) \subseteq Reach(A, nx, p) \cup {new}
  <2> DEFINE R == Reach(A, nx, p)
  <2>1. R \subseteq A /\ p \in R \cup {Null} /\ Shut(nx, R)
    BY ReachShut
  <2> HIDE DEF R
  <2>2. CASE old \in R
    <3>1. R \cup {new} \in SUBSET B /\ Shut(ny, R \cup {new})
      BY <2>1, <2>2 DEF Shut
    <3> QED BY <2>1, <3>1, ReachLeast DEF R
  <2>3. CASE old \notin R
    <3>1. R \in SUBSET B /\ Shut(ny, R)
      BY <2>1, <2>3, NullNode DEF Shut
    <3> QED BY <2>1, <3>1, ReachLeast DEF R
  <2> QED BY <2>2, <2>3
<1> QED BY <1>1, <1>4, <1>5

\* The chain that old was in, from its head h.
LEMMA ReplaceChain ==
  ASSUME NEW A \in SUBSET Node, NEW nx, Shut(nx, A), NEW h \in A,
         NEW rank, Down(A, nx, rank),
         NEW B, NEW ny, NEW P, NEW old \in Reach(A, nx, h), NEW new,
         Replaced(A, nx, B, ny, P, old, new),
         P = IF h = old THEN {} ELSE {a \in Reach(A, nx, h) : nx[a] = old}
  PROVE  Reach(B, ny, IF h = old THEN new ELSE h) = (Reach(A, nx, h) \ {old}) \cup {new}
<1> USE DEF Replaced
<1> DEFINE R == Reach(A, nx, h)
           g == IF h = old THEN new ELSE h
<1>1. R \subseteq A /\ h \in R /\ Shut(nx, R)
  BY ReachShut, NullNode
<1>2. old \in A /\ nx[old] # old /\ \A n \in R : nx[n] = old => h # old
  <2>1. old \in A
    OBVIOUS
  <2>2. nx[old] # old
    <3>1. old \in Reach(A, nx, old)
      BY <2>1, ReachShut, NullNode
    <3> QED BY <2>1, <3>1, ReachDown
  <2> QED BY <2>1, <2>2, ReachDown
<1> HIDE DEF R
<1>3. P = IF h = old THEN {} ELSE {a \in R : nx[a] = old}
  BY DEF R
<1>4. g \in (R \ {old}) \cup {new}
  BY <1>1
<1>5. Reach(B, ny, g) \subseteq (R \ {old}) \cup {new}
  <2> DEFINE T == (R \ {old}) \cup {new}
  <2>1. T \in SUBSET B
    BY <1>1
  <2>2. ASSUME NEW n \in T PROVE ny[n] \in T \cup {Null}
    <3>1. CASE n = new
      BY <1>1, <1>2, <3>1 DEF Shut, R
    <3>2. CASE n \in R \ {old}
      BY <1>1, <1>2, <1>3, <3>2 DEF Shut
    <3> QED BY <3>1, <3>2
  <2>3. Shut(ny, T)
    BY <2>2 DEF Shut
  <2> QED BY <1>4, <2>1, <2>3, ReachLeast
<1>6. ASSUME NEW S \in SUBSET B, g \in S \cup {Null}, Shut(ny, S)
      PROVE  (R \ {old}) \cup {new} \subseteq S
  <2>1. new \in S
    <3> SUFFICES ASSUME new \notin S PROVE FALSE
      OBVIOUS
    <3> DEFINE T == (S \cap R) \ {old}
    <3>1. h # old /\ h \in S
      BY <1>1, <1>6, NullNode
    <3>2. T \in SUBSET A /\ h \in T
      BY <1>1, <3>1
    <3>3. Shut(nx, T)
      BY <1>1, <1>3, <1>6, <3>1, NullNode DEF Shut
    <3>4. R \subseteq T
      BY <3>2, <3>3, ReachLeast DEF R
    <3> QED BY <3>4 DEF R
  <2> DEFINE T == (S \ {new}) \cup {old}
  <2>2. T \in SUBSET A /\ h \in T
    BY <1>1, <1>6, NullNode
  <2>3. Shut(nx, T)
    BY <1>1, <1>6, <2>1, NullNode DEF Shut
  <2>4. R \subseteq T
    BY <2>2, <2>3, ReachLeast DEF R
  <2> QED BY <2>1, <2>4
<1>7. (R \ {old}) \cup {new} \subseteq Reach(B, ny, g)
  BY <1>1, <1>6 DEF Reach
<1> QED BY <1>5, <1>7 DEF R

LEMMA ReplaceDown ==
  ASSUME NEW A \in SUBSET Node, NEW nx, Shut(nx, A), NEW rank, Down(A, nx, rank),
         NEW B, NEW ny, NEW P, NEW old, NEW new, Replaced(A, nx, B, ny, P, old, new)
  PROVE  Down(B, ny, [rank EXCEPT ![new] = rank[old]])
<1> USE DEF Replaced
<1> DEFINE rk == [rank EXCEPT ![new] = rank[old]]
<1>1. rk \in [Node -> Nat] /\ rk[new] = rank[old] /\ \A n \in A : rk[n] = rank[n]
  BY DEF Down
<1> HIDE DEF rk
<1>2. ASSUME NEW n \in B, ny[n] # Null PROVE rk[ny[n]] < rk[n]
  <2>1. CASE n = new
    BY <1>1, <1>2, <2>1 DEF Shut, Down
  <2>2. CASE n \in P
    BY <1>1, <2>2, NullNode DEF Shut, Down
  <2>3. CASE n \in A \ P
    BY <1>1, <1>2, <2>3 DEF Shut, Down
  <2> QED BY <2>1, <2>2, <2>3
<1> QED BY <1>1, <1>2 DEF Down, rk

\* new becomes the head before h.
Headed(A, nx, B, ny, h, new) ==
  /\ h \in A \cup {Null} /\ new \in Node \ A /\ B = A \cup {new}
  /\ ny[new] = h /\ \A a \in A : ny[a] = nx[a]

LEMMA HeadWalk ==
  ASSUME NEW A \in SUBSET Node, NEW nx, Shut(nx, A), NEW B, NEW ny, NEW h, NEW new,
         Headed(A, nx, B, ny, h, new)
  PROVE  /\ Shut(ny, B)
         /\ \A p \in A \cup {Null} : Reach(B, ny, p) = Reach(A, nx, p)
         /\ Reach(B, ny, new) = Reach(A, nx, h) \cup {new}
         /\ \A rank : Down(A, nx, rank) => \E rk : Down(B, ny, rk)
<1> USE DEF Headed
<1>1. Shut(ny, B) /\ B \in SUBSET Node
  BY DEF Shut
<1>2. ASSUME NEW p \in A \cup {Null} PROVE Reach(B, ny, p) = Reach(A, nx, p)
  <2>1. Reach(A, nx, p) \subseteq A
    BY ReachShut
  <2> QED BY <1>1, <2>1, ReachSame
<1>3. Reach(B, ny, new) = Reach(A, nx, h) \cup {new}
  BY <1>1, <1>2, ReachStep
<1>4. ASSUME NEW rank, Down(A, nx, rank) PROVE \E rk : Down(B, ny, rk)
  <2> DEFINE rk == [rank EXCEPT ![new] = IF h = Null THEN 0 ELSE rank[h] + 1]
  <2>1. /\ rk \in [Node -> Nat]
        /\ h # Null => rk[new] = rank[h] + 1
        /\ \A n \in A : rk[n] = rank[n]
    BY <1>4 DEF Down
  <2> HIDE DEF rk
  <2>2. ASSUME NEW n \in B, ny[n] # Null PROVE rk[ny[n]] < rk[n]
    <3>1. CASE n = new
      <4>1. h \in A /\ ny[n] = h /\ rk[h] = rank[h] /\ rk[n] = rank[h] + 1
        BY <2>1, <2>2, <3>1
      <4>2. rank[h] \in Nat
        BY <1>4, <4>1 DEF Down
      <4> QED BY <4>1, <4>2
    <3>2. CASE n \in A
      BY <1>4, <2>1, <2>2, <3>2 DEF Shut, Down
    <3> QED BY <3>1, <3>2
  <2>3. Down(B, ny, rk)
    BY <2>1, <2>2 DEF Down
  <2> QED BY <2>3
<1> QED BY <1>1, <1>2, <1>3, <1>4

\* The pointers of P, all of them to v, become what v points to.
Removed(A, nx, ny, P, v) ==
  /\ v \in A
  /\ P \subseteq {a \in A : nx[a] = v}
  /\ \A a \in A : ny[a] = IF a \in P THEN nx[v] ELSE nx[a]

LEMMA RemoveWalk ==
  ASSUME NEW A \in SUBSET Node, NEW nx, Shut(nx, A), NEW p \in A \cup {Null},
         NEW ny, NEW P, NEW v, Removed(A, nx, ny, P, v), nx[v] # v
  PROVE  /\ Shut(ny, A)
         /\ Reach(A, nx, p) \ {v} \subseteq Reach(A, ny, p)
         /\ Reach(A, ny, p) \subseteq Reach(A, nx, p)
<1> USE DEF Removed
<1>1. Shut(ny, A)
  BY DEF Shut
<1>2. ASSUME NEW S \in SUBSET A, p \in S \cup {Null}, Shut(ny, S)
      PROVE  Reach(A, nx, p) \ {v} \subseteq S
  <2>1. CASE S \cap P = {}
    <3>1. Shut(nx, S)
      BY <1>2, <2>1 DEF Shut
    <3> QED BY <1>2, <3>1, ReachLeast
  <2>2. CASE S \cap P # {}
    <3>1. S \cup {v} \in SUBSET A /\ p \in S \cup {v} \cup {Null}
      BY <1>2
    <3>2. nx[v] \in S \cup {Null}
      BY <1>2, <2>2 DEF Shut
    <3>3. Shut(nx, S \cup {v})
      BY <1>2, <3>2 DEF Shut
    <3> QED BY <3>1, <3>3, ReachLeast
  <2> QED BY <2>1, <2>2
<1>3. Reach(A, ny, p) \in SUBSET A /\ p \in Reach(A, ny, p) \cup {Null} /\ Shut(ny, Reach(A, ny, p))
  BY <1>1, ReachShut
<1>4. Reach(A, ny, p) \subseteq Reach(A, nx, p)
  <2> DEFINE R == Reach(A, nx, p)
  <2>1. R \in SUBSET A /\ p \in R \cup {Null} /\ Shut(nx, R)
    BY ReachShut
  <2> HIDE DEF R
  <2>2. Shut(ny, R)
    BY <2>1, NullNode DEF Shut
  <2> QED BY <2>1, <2>2, ReachLeast DEF R
<1> QED BY <1>1, <1>2, <1>3, <1>4

LEMMA RemoveChain ==
  ASSUME NEW A \in SUBSET Node, NEW nx, Shut(nx, A), NEW h \in A,
         NEW rank, Down(A, nx, rank), NEW ny, NEW P, NEW v \in Reach(A, nx, h),
         Removed(A, nx, ny, P, v),
         P = IF h = v THEN {} ELSE {a \in Reach(A, nx, h) : nx[a] = v}
  PROVE  Reach(A, ny, IF h = v THEN nx[v] ELSE h) = Reach(A, nx, h) \ {v}
<1>0. Reach(A, nx, h) \ {v} \subseteq Reach(A, ny, h)
  <2>1. v \in A /\ nx[v] # v
    <3>1. v \in A /\ v \in Reach(A, nx, v)
      BY ReachShut, NullNode DEF Removed
    <3> QED BY <3>1, ReachDown
  <2> QED BY <2>1, RemoveWalk
<1> USE DEF Removed
<1>1. /\ Reach(A, nx, h) \subseteq A /\ h \in Reach(A, nx, h) /\ Shut(nx, Reach(A, nx, h))
      /\ nx[v] # v
  <2>1. v \in Reach(A, nx, v)
    BY ReachShut, NullNode
  <2> QED BY <2>1, ReachShut, ReachDown, NullNode
<1>2. CASE h = v
  <2>1. nx[v] \in A \cup {Null} /\ \A n \in A : ny[n] = nx[n]
    BY <1>2 DEF Shut
  <2>2. Reach(A, nx, nx[v]) \subseteq A
    BY <2>1, ReachShut
  <2>3. Reach(A, ny, nx[v]) = Reach(A, nx, nx[v])
    BY <2>1, <2>2, ReachSame
  <2>4. Reach(A, nx, v) = {v} \cup Reach(A, nx, nx[v]) /\ v \notin Reach(A, nx, nx[v])
    BY ReachStep, ReachDown
  <2> QED BY <1>2, <2>3, <2>4
<1>3. CASE h # v
  <2> DEFINE T == Reach(A, nx, h) \ {v}
  <2>2. T \in SUBSET A /\ h \in T
    BY <1>1, <1>3
  <2>3. Shut(ny, T)
    BY <1>1, <1>3 DEF Shut
  <2>4. Reach(A, ny, h) \subseteq T
    BY <2>2, <2>3, ReachLeast
  <2> QED BY <1>0, <1>3, <2>4
<1> QED BY <1>2, <1>3

LEMMA RemoveDown ==
  ASSUME NEW A \in SUBSET Node, NEW nx, Shut(nx, A), NEW rank, Down(A, nx, rank),
         NEW ny, NEW P, NEW v, Removed(A, nx, ny, P, v)
  PROVE  Down(A, ny, rank)
<1> USE DEF Removed
<1>1. ASSUME NEW n \in A, ny[n] # Null PROVE rank[ny[n]] < rank[n]
  <2>1. CASE n \in P
    <3>1. nx[v] \in A /\ rank[nx[v]] < rank[v] /\ rank[v] < rank[n]
      BY <1>1, <2>1, NullNode DEF Shut, Down
    <3>2. rank[nx[v]] \in Nat /\ rank[v] \in Nat /\ rank[n] \in Nat
      BY <3>1 DEF Down
    <3> QED BY <2>1, <3>1, <3>2
  <2>2. CASE n \notin P
    BY <1>1, <2>2 DEF Down
  <2> QED BY <2>1, <2>2
<1> QED BY <1>1 DEF Down

-----------------------------------------------------------------------------
(***************************************************************************)
(* The inductive invariant.                                                *)
(***************************************************************************)
USE MapAssumption DEF MapAssumption

Inside == {"load", "announce", "bucket", "visit", "next", "leave"}
Call == [pc : Inside \cup {"return"}, key : Key, at : Pointer, epoch : Nat,
         result : Value \cup {None}, seen : SUBSET (Value \cup {None})]
Locals == [pc : {"idle"}] \cup [pc : {"register"}, current : SUBSET Slot] \cup Call
Writing == [pc : {"idle", "advance"}]
             \cup [pc : {"sweep", "link"}, key : Key, swept : 0..Capacity]
             \cup [pc : {"active", "epoch"}, slot : 1..(MaxReaders + 1), min : Int]

\* The epoch is one more than the number of calls of put that have advanced it.
TypeInv ==
  /\ TypeOK
  /\ writer \in Writing
  /\ rd \in [Reader -> Locals]
  /\ epoch = IF writer.pc \in {"idle", "active", "epoch"} THEN puts + 1 ELSE puts
  /\ writer.pc = "epoch" => writer.slot \in Slot

NextOf == [n \in Node |-> node[n].next]
LinkedNodes == UNION {Linked(b) : b \in Bucket}

\* Pointers lead to nodes of the same bucket, and never in a circle.
HeapInv ==
  /\ Shut(NextOf, Allocated)
  /\ \E rank : Down(Allocated, NextOf, rank)
  /\ \A n \in Allocated : node[n].next # Null =>
       Hash[node[node[n].next].key] = Hash[node[n].key]
  /\ \A b \in Bucket : /\ bucket[b] \in Allocated \cup {Null}
                       /\ bucket[b] # Null => Hash[node[bucket[b]].key] = b

\* The linked nodes are the map.
MapInv ==
  /\ \A m, n \in LinkedNodes : node[m].key = node[n].key => m = n
  /\ \A n \in LinkedNodes : contents[node[n].key] = node[n].value
  /\ \A k \in Key : contents[k] # None => \E n \in LinkedNodes : node[n].key = k

\* The clock array has them all; a victim's place is empty until it is filled.
Held == 1..Len(clock) \ IF writer.pc = "link" THEN {hand} ELSE {}
ClockInv ==
  /\ \A i \in Held : clock[i] \in LinkedNodes /\ node[clock[i]].idx = i
  /\ \A n \in LinkedNodes : node[n].idx \in Held /\ clock[node[n].idx] = n
  /\ writer.pc \in {"sweep", "link"} => Len(clock) = Capacity /\ contents[writer.key] = None

\* The retired nodes are the others, and none points to one retired before it.
RetiredInv ==
  /\ \A t, u \in retired : t.node = u.node => t = u
  /\ \A t \in retired : t.node \in Allocated \ LinkedNodes
  /\ \A n \in Allocated \ LinkedNodes : \E t \in retired : t.node = n
  /\ \A t \in retired :
       LET m == node[t.node].next
       IN  \/ m \in LinkedNodes \cup {Null}
           \/ \E u \in retired : u.node = m /\ t.epoch <= u.epoch

\* A reader inside get has a slot of its own, and has marked it.
RegistryInv ==
  /\ \A r \in Reader : id[r] # NoSlot => id[r] \in slots
  /\ \A r, q \in Reader : id[r] = id[q] /\ id[r] # NoSlot => r = q
  /\ \A r \in Reader : rd[r].pc \in Inside => id[r] # NoSlot /\ active[id[r]]

\* The epoch from which on nothing may be deleted under r, and the writer's view
\* of the slots that it has looked at.
Guard(r) == IF rd[r].pc = "announce" THEN rd[r].epoch ELSE announced[id[r]]
EpochInv ==
  /\ \A r \in Reader : rd[r].pc \in Inside => rd[r].epoch <= epoch
  /\ \A r \in Reader : rd[r].pc = "announce" => announced[id[r]] <= rd[r].epoch
  /\ writer.pc \in {"active", "epoch"} =>
       /\ writer.min <= epoch
       /\ \A r \in Reader : rd[r].pc \in Inside \ {"load"} /\ id[r] < writer.slot =>
            writer.min <= Guard(r)

\* A node that r may visit: it is linked, or it cannot be deleted yet and what r
\* would find there was in the map during the call.
Safe(r, n) ==
  \/ n \in LinkedNodes
  \/ \E t \in retired : /\ t.node = n /\ announced[id[r]] <= t.epoch
                        /\ node[n].key = rd[r].key => node[n].value \in rd[r].seen

ReaderInv(r) ==
  /\ rd[r].pc \in Inside \cup {"return"} => contents[rd[r].key] \in rd[r].seen
  /\ rd[r].pc \in {"load", "announce", "bucket", "return"} => rd[r].at = Null
  /\ rd[r].pc \in {"leave", "return"} => rd[r].result \in rd[r].seen
  /\ rd[r].pc \in {"load", "announce", "bucket", "visit", "next"} => rd[r].result = None
  /\ rd[r].pc \in {"visit", "next", "leave"} /\ rd[r].at # Null =>
       /\ rd[r].at \in Allocated
       /\ Hash[node[rd[r].at].key] = Hash[rd[r].key]
       /\ \A n \in Chain(rd[r].at) : Safe(r, n)
  /\ rd[r].pc \in {"visit", "next"} =>
       \/ None \in rd[r].seen
       \/ \E n \in Chain(rd[r].at) : node[n].key = rd[r].key
  /\ rd[r].pc = "next" => rd[r].at # Null /\ node[rd[r].at].key # rd[r].key

IInv ==
  /\ TypeInv /\ HeapInv /\ MapInv /\ ClockInv /\ RetiredInv /\ RegistryInv /\ EpochInv
  /\ \A r \in Reader : ReaderInv(r)

-----------------------------------------------------------------------------
(***************************************************************************)
(* Nodes and chains.                                                       *)
(***************************************************************************)
HeapType == node \in [Node -> Live \cup {Deleted}] /\ bucket \in [Bucket -> Pointer]

LEMMA NodeIs ==
  ASSUME HeapType
  PROVE  /\ \A n \in Allocated : /\ n \in Node /\ node[n] \in Live /\ node[n].key \in Key
                                 /\ node[n].value \in Value /\ node[n].idx \in 1..Capacity
                                 /\ node[n].next \in Pointer
         /\ \A n \in Node : node[n].key \in Key => n \in Allocated
         /\ \A n \in Node \ Allocated : node[n] = Deleted
         /\ Allocated \in SUBSET Node
<1>1. \A n \in Node : node[n] \in Live \cup {Deleted}
  BY DEF HeapType
<1>2. Deleted.key = NoKey
  BY DEF Deleted
<1>3. \A x \in Live : x.key \in Key /\ x.value \in Value /\ x.idx \in 1..Capacity /\ x.next \in Pointer
  BY DEF Live, Pointer
<1> QED BY <1>1, <1>2, <1>3 DEF Allocated

LEMMA ChainIs == \A p : Chain(p) = Reach(Allocated, NextOf, p)
<1>1. \A S \in SUBSET Allocated : Closed(S) <=> Shut(NextOf, S)
  BY DEF Closed, Shut, NextOf, Allocated
<1> QED BY <1>1 DEF Chain, Reach

LEMMA ChainNext == \A p : Chain(p)' = Reach(Allocated', NextOf', p)
<1>1. \A S \in SUBSET Allocated' : Closed(S)' <=> Shut(NextOf', S)
  BY DEF Closed, Shut, NextOf, Allocated
<1> QED BY <1>1 DEF Chain, Reach

LEMMA ChainIn ==
  ASSUME HeapType, HeapInv, NEW p \in Allocated \cup {Null}
  PROVE  /\ Chain(p) \subseteq Allocated
         /\ p \in Chain(p) \cup {Null}
         /\ \A n \in Chain(p) : node[n].next \in Chain(p) \cup {Null}
         /\ p # Null => /\ Chain(p) = {p} \cup Chain(node[p].next)
                        /\ \A n \in Chain(p) : Hash[node[n].key] = Hash[node[p].key]
         /\ p = Null => Chain(p) = {}
<1>1. Allocated \in SUBSET Node /\ Shut(NextOf, Allocated)
  BY NodeIs DEF HeapInv
<1>2. \A n \in Allocated : NextOf[n] = node[n].next
  BY DEF NextOf, Allocated
<1>3. /\ Chain(p) \subseteq Allocated
      /\ p \in Chain(p) \cup {Null}
      /\ Shut(NextOf, Chain(p))
  BY <1>1, ReachShut, ChainIs
<1>4. \A n \in Chain(p) : node[n].next \in Chain(p) \cup {Null}
  BY <1>2, <1>3 DEF Shut
<1>5. ASSUME p # Null PROVE Chain(p) = {p} \cup Chain(node[p].next)
  BY <1>1, <1>2, <1>5, ReachStep, ChainIs
<1>6. ASSUME p # Null, NEW n \in Chain(p) PROVE Hash[node[n].key] = Hash[node[p].key]
  <2> DEFINE S == {m \in Allocated : Hash[node[m].key] = Hash[node[p].key]}
  <2>1. S \in SUBSET Allocated /\ p \in S
    BY <1>6
  <2>2. Shut(NextOf, S)
    BY <1>1, <1>2 DEF Shut, HeapInv
  <2>3. Chain(p) \subseteq S
    BY <2>1, <2>2, ReachLeast, ChainIs
  <2> QED BY <1>6, <2>3
<1>7. Chain(Null) = {}
  BY ReachNull, ChainIs
<1> QED BY <1>3, <1>4, <1>5, <1>6, <1>7

LEMMA LinkedIn ==
  ASSUME HeapType, HeapInv
  PROVE  /\ \A b \in Bucket : /\ Linked(b) \subseteq Allocated /\ Linked(b) \subseteq LinkedNodes
                              /\ \A n \in Linked(b) : Hash[node[n].key] = b
         /\ LinkedNodes \subseteq Allocated
         /\ \A n \in LinkedNodes : n \in Linked(Hash[node[n].key])
         /\ \A n \in LinkedNodes : node[n].next \in LinkedNodes \cup {Null}
<1>1. ASSUME NEW b \in Bucket
      PROVE  /\ Linked(b) \subseteq Allocated
             /\ \A n \in Linked(b) : Hash[node[n].key] = b
             /\ \A n \in Linked(b) : node[n].next \in Linked(b) \cup {Null}
  <2>1. /\ bucket[b] \in Allocated \cup {Null}
        /\ bucket[b] # Null => Hash[node[bucket[b]].key] = b
    BY DEF HeapInv
  <2> QED BY <2>1, ChainIn DEF Linked
<1>2. \A b \in Bucket : Linked(b) \subseteq LinkedNodes
  BY DEF LinkedNodes
<1>3. \A n \in LinkedNodes : \E b \in Bucket : n \in Linked(b)
  BY DEF LinkedNodes
<1> QED BY <1>1, <1>2, <1>3

\* Chains of which the pointers do not change stay the same.
LEMMA ChainSame ==
  ASSUME HeapType, HeapType', HeapInv, NEW p \in Allocated \cup {Null}, Chain(p) \subseteq Allocated',
         \A n \in Chain(p) : node'[n].next = node[n].next
  PROVE  Chain(p)' = Chain(p)
<1>1. /\ Allocated \in SUBSET Node /\ Allocated' \in SUBSET Node
      /\ Shut(NextOf, Allocated)
  BY NodeIs DEF HeapInv, Allocated
<1>2. \A n \in Chain(p) : NextOf'[n] = NextOf[n]
  BY ChainIn, <1>1 DEF NextOf
<1>3. Chain(p) = Reach(Allocated, NextOf, p) /\ Chain(p)' = Reach(Allocated', NextOf', p)
  BY ChainIs, ChainNext
<1> QED BY <1>1, <1>2, <1>3, ReachSame

-----------------------------------------------------------------------------
(***************************************************************************)
(* What put does to the heap.                                              *)
(***************************************************************************)
\* What stays of the nodes of a set.
SameData(S) ==
  \A n \in S : /\ node'[n].key = node[n].key /\ node'[n].value = node[n].value
               /\ node'[n].idx = node[n].idx

\* new takes the place of old.
ReplaceEffect(k, v, old, new) ==
  /\ old \in LinkedNodes /\ node[old].key = k /\ new \in Node \ Allocated
  /\ HeapType' /\ HeapInv'
  /\ Allocated' = Allocated \cup {new}
  /\ LinkedNodes' = (LinkedNodes \ {old}) \cup {new}
  /\ SameData(Allocated)
  /\ node'[new].key = k /\ node'[new].value = v /\ node'[new].idx = node[old].idx
  /\ \A n \in (Allocated \ LinkedNodes) \cup {old} : node'[n].next = node[n].next
  /\ \A p \in Allocated \cup {Null} :
       /\ Chain(p) \ {old} \subseteq Chain(p)'
       /\ old \in Chain(p) => Chain(p)' \cap {old, new} # {}
       /\ Chain(p)' \subseteq Chain(p) \cup {new}

LEMMA ReplaceHeap ==
  ASSUME HeapType, HeapInv, NEW k \in Key, NEW v \in Value, NEW old \in Holders(k),
         NEW new \in Node, node[new] = Deleted,
         Redirect([node EXCEPT ![new] = Fresh(k, v, node[old].idx, node[old].next)],
                  Hash[k], old, new)
  PROVE  ReplaceEffect(k, v, old, new)
<1> DEFINE b == Hash[k]
           h == bucket[b]
           P == IF h = old THEN {} ELSE {a \in Linked(b) : node[a].next = old}
           x == Fresh(k, v, node[old].idx, node[old].next)
\* The state before.
<1>1. /\ b \in Bucket /\ old \in Linked(b) /\ old \in LinkedNodes /\ old \in Allocated
      /\ node[old].key = k /\ new \in Node \ Allocated /\ Linked(b) \subseteq Allocated
  BY LinkedIn DEF Holders, Allocated
<1>2. /\ Allocated \in SUBSET Node /\ Shut(NextOf, Allocated)
      /\ \A n \in Allocated : node[n].next \in Allocated \cup {Null}
      /\ \A n \in Allocated : NextOf[n] = node[n].next
  BY NodeIs DEF HeapInv, Shut, NextOf
<1>3. /\ h \in Allocated /\ Linked(b) = Reach(Allocated, NextOf, h) /\ h \in Linked(b)
  <2>1. h \in Allocated \cup {Null} /\ h # Null
    BY <1>1, ChainIn DEF HeapInv, Linked
  <2> QED BY <2>1, ChainIs, ChainIn DEF Linked
\* The step.
<1>4. x \in Live /\ x.key = k /\ x.value = v /\ x.idx = node[old].idx /\ x.next = node[old].next
  BY <1>1, NodeIs DEF Fresh, Live
<1>5. /\ bucket' = IF h = old THEN [bucket EXCEPT ![b] = new] ELSE bucket
      /\ node'[new] = x
      /\ \A n \in Node : n # new => node'[n] = IF n \in P THEN [node[n] EXCEPT !.next = new]
                                                ELSE node[n]
      /\ DOMAIN node' = Node
  <2>1. CASE h = old
    BY <2>1 DEF Redirect, HeapType
  <2>2. CASE h # old
    BY <1>1, <2>2 DEF Redirect, HeapType
  <2> QED BY <2>1, <2>2
<1> HIDE DEF b, h, P, x
<1>6. P \subseteq Allocated /\ old \notin P /\ \A n \in P : n \in Linked(b) /\ node[n].next = old
  <2>1. node[old].next # old
    <3>1. PICK rank : Down(Allocated, NextOf, rank)
      BY DEF HeapInv
    <3>2. rank[old] \in Nat
      BY <1>1, <1>2, <3>1 DEF Down
    <3> QED BY <1>1, <1>2, <3>1, <3>2, NullNode DEF Down
  <2> QED BY <1>1, <2>1 DEF P
<1>7. \A n \in Allocated :
        /\ n # new /\ node'[n] \in Live
        /\ node'[n].key = node[n].key /\ node'[n].value = node[n].value
        /\ node'[n].idx = node[n].idx
        /\ node'[n].next = IF n \in P THEN new ELSE node[n].next
  <2> SUFFICES ASSUME NEW n \in Allocated
               PROVE  /\ n # new /\ node'[n] \in Live
                      /\ node'[n].key = node[n].key /\ node'[n].value = node[n].value
                      /\ node'[n].idx = node[n].idx
                      /\ node'[n].next = IF n \in P THEN new ELSE node[n].next
    OBVIOUS
  <2>1. n \in Node /\ n # new /\ node[n] \in Live
    BY <1>1, NodeIs
  <2>2. CASE n \in P
    BY <1>5, <2>1, <2>2 DEF Live, Pointer
  <2>3. CASE n \notin P
    BY <1>5, <2>1, <2>3
  <2> QED BY <2>2, <2>3
<1>8. HeapType' /\ Allocated' = Allocated \cup {new}
  <2>1. \A n \in Node : n \notin Allocated => node[n] = Deleted /\ n \notin P
    BY <1>6, NodeIs
  <2>2. \A n \in Node : node'[n] \in Live \cup {Deleted}
    BY <1>4, <1>5, <1>7, <2>1
  <2>3. Deleted \notin Live
    BY DEF Deleted, Live
  <2>4. \A n \in Node : node'[n] # Deleted <=> n \in Allocated \/ n = new
    BY <1>4, <1>5, <1>7, <2>1, <2>3
  <2>5. bucket' \in [Bucket -> Pointer]
    BY <1>1, <1>5 DEF HeapType, Pointer
  <2>6. node' = [n \in Node |-> node'[n]]
    <3>1. CASE h = old
      BY <3>1 DEF Redirect, HeapType, h, b, Fresh
    <3>2. CASE h # old
      BY <3>2 DEF Redirect, h, b
    <3> QED BY <3>1, <3>2
  <2>7. node' \in [Node -> Live \cup {Deleted}]
    BY <2>2, <2>6
  <2> QED BY <2>4, <2>5, <2>7 DEF HeapType, Allocated
<1>9. Replaced(Allocated, NextOf, Allocated', NextOf', P, old, new)
  <2>1. \A n \in Allocated' : NextOf'[n] = node'[n].next
    BY DEF NextOf, Allocated
  <2> QED BY <1>1, <1>2, <1>4, <1>5, <1>6, <1>7, <1>8, <2>1 DEF Replaced
<1>10. \A p \in Allocated \cup {Null} :
        /\ Chain(p) \ {old} \subseteq Chain(p)'
        /\ old \in Chain(p) => Chain(p)' \cap {old, new} # {}
        /\ Chain(p)' \subseteq Chain(p) \cup {new}
  BY <1>2, <1>9, ReplaceWalk, ChainIs, ChainNext
<1>11. Linked(b)' = (Linked(b) \ {old}) \cup {new}
  <2>1. PICK rank : Down(Allocated, NextOf, rank)
    BY DEF HeapInv
  <2>2. P = IF h = old THEN {} ELSE {a \in Reach(Allocated, NextOf, h) : NextOf[a] = old}
    <3>1. {a \in Linked(b) : node[a].next = old} = {a \in Linked(b) : NextOf[a] = old}
      BY <1>1, <1>2
    <3> QED BY <1>3, <3>1 DEF P
  <2>3. Reach(Allocated', NextOf', IF h = old THEN new ELSE h) = (Linked(b) \ {old}) \cup {new}
    BY <1>1, <1>2, <1>3, <1>9, <2>1, <2>2, ReplaceChain
  <2>4. bucket'[b] = IF h = old THEN new ELSE h
    BY <1>1, <1>5 DEF h, HeapType
  <2> QED BY <2>3, <2>4, ChainNext DEF Linked
<1>12. ASSUME NEW c \in Bucket, c # b PROVE Linked(c)' = Linked(c) /\ old \notin Linked(c)
  <2>1. bucket[c] \in Allocated \cup {Null} /\ bucket'[c] = bucket[c]
    BY <1>5, <1>12 DEF HeapInv, HeapType
  <2>2. \A n \in Linked(c) : n \in Allocated /\ n # old /\ n \notin P
    BY <1>1, <1>6, <1>12, LinkedIn
  <2>3. PICK p \in Allocated \cup {Null} : p = bucket[c]
    BY <2>1
  <2>4. Linked(c)' = Chain(p)' /\ Linked(c) = Chain(p)
    BY <2>1, <2>3, ChainNext DEF Linked
  <2>5. Chain(p) \subseteq Allocated' /\ \A n \in Chain(p) : node'[n].next = node[n].next
    BY <1>7, <1>8, <2>2, <2>4
  <2>6. Chain(p)' = Chain(p)
    BY <1>8, <2>5, ChainSame
  <2> QED BY <2>2, <2>4, <2>6
<1>13. LinkedNodes' = (LinkedNodes \ {old}) \cup {new}
  BY <1>1, <1>11, <1>12 DEF LinkedNodes
<1>14. HeapInv'
  <2>1. Shut(NextOf, Allocated)' /\ (\E rank : Down(Allocated, NextOf, rank))'
    <3>1. PICK rank : Down(Allocated, NextOf, rank)
      BY DEF HeapInv
    <3>2. Down(Allocated', NextOf', [rank EXCEPT ![new] = rank[old]])
      BY <1>2, <1>9, <3>1, ReplaceDown
    <3>3. Shut(NextOf', Allocated')
      BY <1>1, <1>2, <1>9, ReplaceWalk
    <3> QED BY <3>2, <3>3
  <2>2. ASSUME NEW n \in Allocated', node'[n].next # Null
        PROVE  Hash[node'[node'[n].next].key] = Hash[node'[n].key]
    <3>1. CASE n = new
      <4>1. node'[new].key = k /\ node'[new].next = node[old].next
        BY <1>4, <1>5
      <4>2. node[old].next \in Allocated /\ Hash[node[node[old].next].key] = Hash[k]
        BY <1>1, <1>2, <2>2, <3>1, <4>1 DEF HeapInv
      <4> QED BY <1>7, <3>1, <4>1, <4>2
    <3>2. CASE n \in P
      <4>1. Hash[node[n].key] = b /\ node'[n].next = new /\ node'[new].key = k /\ n \in Allocated
        BY <1>1, <1>4, <1>5, <1>6, <1>7, <3>2, LinkedIn
      <4> QED BY <1>7, <4>1 DEF b
    <3>3. CASE n \in Allocated \ P
      <4>1. node'[n].next = node[n].next /\ node[n].next \in Allocated
        BY <1>2, <1>7, <2>2, <3>3
      <4>2. Hash[node[node[n].next].key] = Hash[node[n].key]
        BY <2>2, <3>3, <4>1 DEF HeapInv
      <4> QED BY <1>7, <3>3, <4>1, <4>2
    <3> QED BY <1>8, <2>2, <3>1, <3>2, <3>3
  <2>3. ASSUME NEW c \in Bucket
        PROVE  /\ bucket'[c] \in Allocated' \cup {Null}
               /\ bucket'[c] # Null => Hash[node'[bucket'[c]].key] = c
    <3>1. CASE c = b /\ h = old
      <4>1. bucket'[c] = new /\ node'[new].key = k
        BY <1>1, <1>4, <1>5, <3>1 DEF HeapType
      <4> QED BY <1>8, <3>1, <4>1 DEF b
    <3>2. CASE ~(c = b /\ h = old)
      <4>1. bucket'[c] = bucket[c] /\ bucket[c] \in Allocated \cup {Null}
        BY <1>5, <3>2 DEF HeapType, HeapInv
      <4> QED BY <1>7, <1>8, <4>1 DEF HeapInv
    <3> QED BY <3>1, <3>2
  <2> QED BY <2>1, <2>2, <2>3 DEF HeapInv
<1>15. \A n \in (Allocated \ LinkedNodes) \cup {old} : node'[n].next = node[n].next
  BY <1>1, <1>6, <1>7 DEF LinkedNodes
<1> QED
  BY <1>1, <1>4, <1>5, <1>7, <1>8, <1>10, <1>13, <1>14, <1>15 DEF ReplaceEffect, SameData

\* new becomes the head of the bucket of its key.
HeadEffect(k, v, i, new) ==
  /\ new \in Node \ Allocated
  /\ HeapType' /\ HeapInv'
  /\ Allocated' = Allocated \cup {new}
  /\ LinkedNodes' = LinkedNodes \cup {new}
  /\ SameData(Allocated)
  /\ node'[new].key = k /\ node'[new].value = v /\ node'[new].idx = i
  /\ \A n \in Allocated : node'[n].next = node[n].next
  /\ \A p \in Allocated \cup {Null} : Chain(p)' = Chain(p)

LEMMA HeadHeap ==
  ASSUME HeapType, HeapInv, NEW k \in Key, NEW v \in Value, NEW i \in 1..Capacity,
         NEW new \in Node, node[new] = Deleted,
         node' = [node EXCEPT ![new] = Fresh(k, v, i, bucket[Hash[k]])],
         bucket' = [bucket EXCEPT ![Hash[k]] = new]
  PROVE  HeadEffect(k, v, i, new)
<1> DEFINE b == Hash[k]
           x == Fresh(k, v, i, bucket[b])
<1>1. /\ b \in Bucket /\ bucket[b] \in Allocated \cup {Null} /\ new \in Node \ Allocated
      /\ bucket[b] # Null => Hash[node[bucket[b]].key] = b
  BY DEF HeapInv, Allocated
<1>2. /\ Allocated \in SUBSET Node /\ Shut(NextOf, Allocated)
      /\ \A n \in Allocated : node[n].next \in Allocated \cup {Null}
      /\ \A n \in Allocated : NextOf[n] = node[n].next
  BY NodeIs DEF HeapInv, Shut, NextOf
<1>3. x \in Live /\ x.key = k /\ x.value = v /\ x.idx = i /\ x.next = bucket[b]
  BY <1>1, NodeIs DEF Fresh, Live, Pointer
<1>4. /\ node' = [node EXCEPT ![new] = x] /\ bucket' = [bucket EXCEPT ![b] = new]
      /\ b = Hash[k]
  OBVIOUS
<1> HIDE DEF b, x
<1>5. /\ HeapType' /\ node'[new] = x
      /\ \A n \in Allocated : n # new /\ node'[n] = node[n]
      /\ bucket'[b] = new /\ \A c \in Bucket \ {b} : bucket'[c] = bucket[c]
  BY <1>1, <1>3, <1>4, NodeIs DEF HeapType, Pointer
<1>6. Allocated' = Allocated \cup {new}
  <2>1. Deleted \notin Live
    BY DEF Deleted, Live
  <2>2. \A n \in Node \ {new} : node'[n] = node[n]
    BY <1>4 DEF HeapType
  <2>3. \A n \in Node : node'[n] # Deleted <=> n \in Allocated \/ n = new
    BY <1>1, <1>3, <1>5, <2>1, <2>2, NodeIs DEF Allocated
  <2> QED BY <2>3 DEF Allocated
<1>7. Headed(Allocated, NextOf, Allocated', NextOf', bucket[b], new)
  <2>1. \A n \in Allocated' : NextOf'[n] = node'[n].next
    BY DEF NextOf, Allocated
  <2> QED BY <1>1, <1>2, <1>3, <1>5, <1>6, <2>1 DEF Headed
<1>8. /\ Shut(NextOf', Allocated')
      /\ \A p \in Allocated \cup {Null} : Chain(p)' = Chain(p)
      /\ Chain(new)' = Chain(bucket[b]) \cup {new}
      /\ \E rk : Down(Allocated', NextOf', rk)
  <2>1. PICK rank : Down(Allocated, NextOf, rank)
    BY DEF HeapInv
  <2>2. /\ Shut(NextOf', Allocated')
        /\ \A p \in Allocated \cup {Null} : Reach(Allocated', NextOf', p) = Reach(Allocated, NextOf, p)
        /\ Reach(Allocated', NextOf', new) = Reach(Allocated, NextOf, bucket[b]) \cup {new}
        /\ \E rk : Down(Allocated', NextOf', rk)
    <3>1. /\ Shut(NextOf', Allocated')
          /\ \A p \in Allocated \cup {Null} : Reach(Allocated', NextOf', p) = Reach(Allocated, NextOf, p)
          /\ Reach(Allocated', NextOf', new) = Reach(Allocated, NextOf, bucket[b]) \cup {new}
          /\ \A rk : Down(Allocated, NextOf, rk) => \E rl : Down(Allocated', NextOf', rl)
      BY <1>2, <1>7, HeadWalk
    <3> QED BY <2>1, <3>1
  <2>3. \A p \in Allocated \cup {Null} : Chain(p)' = Chain(p)
    BY <2>2, ChainIs, ChainNext
  <2>4. Chain(new)' = Chain(bucket[b]) \cup {new}
    BY <2>2, ChainIs, ChainNext
  <2> QED BY <2>2, <2>3, <2>4
<1>9. LinkedNodes' = LinkedNodes \cup {new}
  <2>1. Linked(b)' = Linked(b) \cup {new}
    BY <1>5, <1>8, ChainIs, ChainNext DEF Linked
  <2>2. \A c \in Bucket \ {b} : Linked(c)' = Linked(c)
    <3> SUFFICES ASSUME NEW c \in Bucket \ {b} PROVE Linked(c)' = Linked(c)
      OBVIOUS
    <3>1. PICK p \in Allocated \cup {Null} : p = bucket[c]
      BY DEF HeapInv
    <3>2. Linked(c)' = Chain(p)' /\ Linked(c) = Chain(p)
      BY <1>5, <3>1, ChainNext DEF Linked
    <3> QED BY <1>8, <3>2
  <2> QED BY <1>1, <2>1, <2>2 DEF LinkedNodes
<1>10. HeapInv'
  <2>1. ASSUME NEW n \in Allocated', node'[n].next # Null
        PROVE  Hash[node'[node'[n].next].key] = Hash[node'[n].key]
    <3>1. CASE n = new
      BY <1>1, <1>3, <1>4, <1>5, <2>1, <3>1
    <3>2. CASE n \in Allocated
      BY <1>2, <1>5, <2>1, <3>2 DEF HeapInv
    <3> QED BY <1>6, <3>1, <3>2
  <2>2. ASSUME NEW c \in Bucket
        PROVE  /\ bucket'[c] \in Allocated' \cup {Null}
               /\ bucket'[c] # Null => Hash[node'[bucket'[c]].key] = c
    BY <1>1, <1>3, <1>4, <1>5, <1>6 DEF HeapInv
  <2> QED BY <1>8, <2>1, <2>2 DEF HeapInv
<1> QED BY <1>1, <1>3, <1>5, <1>6, <1>8, <1>9, <1>10 DEF HeadEffect, SameData

\* A victim is taken out of its chain and keeps its own pointer.
RemoveEffect(v) ==
  /\ v \in LinkedNodes
  /\ HeapType' /\ HeapInv'
  /\ Allocated' = Allocated
  /\ LinkedNodes' = LinkedNodes \ {v}
  /\ SameData(Allocated)
  /\ \A n \in (Allocated \ LinkedNodes) \cup {v} : node'[n].next = node[n].next
  /\ \A p \in Allocated \cup {Null} : Chain(p) \ {v} \subseteq Chain(p)' /\ Chain(p)' \subseteq Chain(p)

LEMMA RemoveHeap ==
  ASSUME HeapType, HeapInv, NEW v \in LinkedNodes,
         Redirect(node, Hash[node[v].key], v, node[v].next)
  PROVE  RemoveEffect(v)
<1>0. PICK b \in Bucket : b = Hash[node[v].key]
  BY LinkedIn, NodeIs
<1> DEFINE h == bucket[b]
           P == IF h = v THEN {} ELSE {a \in Linked(b) : node[a].next = v}
<1>1. /\ b \in Bucket /\ v \in Linked(b) /\ v \in Allocated /\ Linked(b) \subseteq Allocated
  BY <1>0, LinkedIn, NodeIs
<1>2. /\ Allocated \in SUBSET Node /\ Shut(NextOf, Allocated)
      /\ \A n \in Allocated : node[n].next \in Allocated \cup {Null}
      /\ \A n \in Allocated : NextOf[n] = node[n].next
  BY NodeIs DEF HeapInv, Shut, NextOf
<1>3. /\ h \in Allocated /\ Linked(b) = Reach(Allocated, NextOf, h)
  <2>1. h \in Allocated \cup {Null} /\ h # Null
    BY <1>1, ChainIn DEF HeapInv, Linked
  <2> QED BY <2>1, ChainIs DEF Linked
<1>4. /\ bucket' = IF h = v THEN [bucket EXCEPT ![b] = node[v].next] ELSE bucket
      /\ node' = [n \in Node |-> IF n \in P THEN [node[n] EXCEPT !.next = node[v].next] ELSE node[n]]
  <2>1. CASE h = v
    BY <1>0, <2>1 DEF Redirect, HeapType
  <2>2. CASE h # v
    BY <1>0, <1>1, <2>2 DEF Redirect, HeapType
  <2> QED BY <2>1, <2>2
<1>5. PICK rank : Down(Allocated, NextOf, rank)
  BY DEF HeapInv
<1>6. P \subseteq Allocated /\ v \notin P /\ \A n \in P : n \in Linked(b) /\ node[n].next = v
  <2>1. rank[v] \in Nat
    BY <1>1, <1>2, <1>5 DEF Down
  <2>2. node[v].next # v
    BY <1>1, <1>2, <1>5, <2>1, NullNode DEF Down
  <2> QED BY <1>1, <2>2
<1> HIDE DEF h, P
<1>7. \A n \in Allocated :
        /\ node'[n] \in Live
        /\ node'[n].key = node[n].key /\ node'[n].value = node[n].value
        /\ node'[n].idx = node[n].idx
        /\ node'[n].next = IF n \in P THEN node[v].next ELSE node[n].next
  <2> SUFFICES ASSUME NEW n \in Allocated
               PROVE  /\ node'[n] \in Live
                      /\ node'[n].key = node[n].key /\ node'[n].value = node[n].value
                      /\ node'[n].idx = node[n].idx
                      /\ node'[n].next = IF n \in P THEN node[v].next ELSE node[n].next
    OBVIOUS
  <2>1. n \in Node /\ node[n] \in Live /\ node[v].next \in Pointer
    BY <1>1, NodeIs
  <2>2. CASE n \in P
    BY <1>4, <2>1, <2>2 DEF Live, Pointer
  <2>3. CASE n \notin P
    BY <1>4, <2>1, <2>3
  <2> QED BY <2>2, <2>3
<1>8. HeapType' /\ Allocated' = Allocated
  <2>1. \A n \in Node : n \notin Allocated => node'[n] = Deleted
    BY <1>4, <1>6, NodeIs
  <2>2. Deleted \notin Live
    BY DEF Deleted, Live
  <2>3. \A n \in Node : node'[n] # Deleted <=> n \in Allocated
    BY <1>7, <2>1, <2>2
  <2>4. bucket' \in [Bucket -> Pointer]
    BY <1>1, <1>4, NodeIs DEF HeapType
  <2>5. node' \in [Node -> Live \cup {Deleted}]
    BY <1>4, <1>7, <2>1
  <2> QED BY <2>3, <2>4, <2>5 DEF HeapType, Allocated
<1>9. Removed(Allocated, NextOf, NextOf', P, v)
  <2>1. \A n \in Allocated : NextOf'[n] = node'[n].next
    BY <1>2 DEF NextOf
  <2> QED BY <1>1, <1>2, <1>6, <1>7, <2>1 DEF Removed
<1>10. NextOf[v] # v
  <2>1. rank[v] \in Nat
    BY <1>1, <1>2, <1>5 DEF Down
  <2> QED BY <1>1, <1>2, <1>5, <2>1, NullNode DEF Down
<1>11. \A p \in Allocated \cup {Null} : Chain(p) \ {v} \subseteq Chain(p)' /\ Chain(p)' \subseteq Chain(p)
  BY <1>2, <1>8, <1>9, <1>10, RemoveWalk, ChainIs, ChainNext
<1>12. Linked(b)' = Linked(b) \ {v}
  <2>1. P = IF h = v THEN {} ELSE {a \in Reach(Allocated, NextOf, h) : NextOf[a] = v}
    <3>1. {a \in Linked(b) : node[a].next = v} = {a \in Linked(b) : NextOf[a] = v}
      BY <1>1, <1>2
    <3> QED BY <1>3, <3>1 DEF P
  <2>2. Reach(Allocated, NextOf', IF h = v THEN NextOf[v] ELSE h) = Linked(b) \ {v}
    BY <1>1, <1>2, <1>3, <1>5, <1>9, <2>1, RemoveChain
  <2>3. bucket'[b] = IF h = v THEN NextOf[v] ELSE h
    BY <1>1, <1>2, <1>4 DEF h, HeapType
  <2>4. Linked(b)' = Reach(Allocated, NextOf', bucket'[b])
    BY <1>8, ChainNext DEF Linked
  <2> QED BY <2>2, <2>3, <2>4
<1>13. ASSUME NEW c \in Bucket, c # b PROVE Linked(c)' = Linked(c) /\ v \notin Linked(c)
  <2>1. bucket[c] \in Allocated \cup {Null} /\ bucket'[c] = bucket[c]
    BY <1>4, <1>13 DEF HeapInv, HeapType
  <2>2. \A n \in Linked(c) : n \in Allocated /\ n # v /\ n \notin P
    BY <1>1, <1>6, <1>13, LinkedIn
  <2>3. PICK p \in Allocated \cup {Null} : p = bucket[c]
    BY <2>1
  <2>4. Linked(c)' = Chain(p)' /\ Linked(c) = Chain(p)
    BY <2>1, <2>3, ChainNext DEF Linked
  <2>5. Chain(p) \subseteq Allocated' /\ \A n \in Chain(p) : node'[n].next = node[n].next
    BY <1>7, <1>8, <2>2, <2>4
  <2>6. Chain(p)' = Chain(p)
    BY <1>8, <2>5, ChainSame
  <2> QED BY <2>2, <2>4, <2>6
<1>14. LinkedNodes' = LinkedNodes \ {v}
  <2>1. \A c \in Bucket : Linked(c)' = Linked(c) \ {v}
    BY <1>12, <1>13
  <2> QED BY <2>1 DEF LinkedNodes
<1>15. HeapInv'
  <2>1. Down(Allocated, NextOf', rank) /\ Shut(NextOf', Allocated)
    BY <1>1, <1>2, <1>5, <1>9, <1>10, RemoveDown, RemoveWalk
  <2>2. Shut(NextOf, Allocated)' /\ (\E rk : Down(Allocated, NextOf, rk))'
    BY <1>8, <2>1
  <2>3. ASSUME NEW n \in Allocated, node'[n].next # Null
        PROVE  Hash[node'[node'[n].next].key] = Hash[node'[n].key]
    <3>1. CASE n \in P
      <4>1. node'[n].next = node[v].next /\ node[n].next = v /\ node[v].next \in Allocated
        BY <1>1, <1>2, <1>6, <1>7, <2>3, <3>1
      <4>2. Hash[node[v].key] = Hash[node[n].key] /\ Hash[node[node[v].next].key] = Hash[node[v].key]
        BY <1>1, <2>3, <4>1, NullNode, <1>2 DEF HeapInv
      <4> QED BY <1>7, <4>1, <4>2
    <3>2. CASE n \notin P
      <4>1. node'[n].next = node[n].next /\ node[n].next \in Allocated
        BY <1>2, <1>7, <2>3, <3>2
      <4>2. Hash[node[node[n].next].key] = Hash[node[n].key]
        BY <2>3, <4>1 DEF HeapInv
      <4> QED BY <1>7, <4>1, <4>2
    <3> QED BY <3>1, <3>2
  <2>4. ASSUME NEW c \in Bucket
        PROVE  /\ bucket'[c] \in Allocated \cup {Null}
               /\ bucket'[c] # Null => Hash[node'[bucket'[c]].key] = c
    <3>1. CASE c = b /\ h = v
      <4>1. bucket'[c] = node[v].next /\ node[v].next \in Allocated \cup {Null}
        BY <1>1, <1>2, <1>4, <3>1 DEF HeapType
      <4>2. node[v].next # Null => Hash[node[node[v].next].key] = Hash[node[v].key]
        BY <1>1 DEF HeapInv
      <4> QED BY <1>0, <1>7, <3>1, <4>1, <4>2
    <3>2. CASE ~(c = b /\ h = v)
      <4>1. bucket'[c] = bucket[c] /\ bucket[c] \in Allocated \cup {Null}
        BY <1>4, <3>2 DEF HeapType, HeapInv
      <4> QED BY <1>7, <4>1 DEF HeapInv
    <3> QED BY <3>1, <3>2
  <2> QED BY <1>8, <2>2, <2>3, <2>4 DEF HeapInv
<1>16. \A n \in (Allocated \ LinkedNodes) \cup {v} : node'[n].next = node[n].next
  BY <1>1, <1>6, <1>7 DEF LinkedNodes
<1> QED BY <1>7, <1>8, <1>11, <1>14, <1>15, <1>16 DEF RemoveEffect, SameData

\* Nodes to which none of the others points are deleted, or none at all is.
DeleteEffect(D) ==
  /\ HeapType' /\ HeapInv'
  /\ Allocated' = Allocated \ D
  /\ LinkedNodes' = LinkedNodes
  /\ SameData(Allocated')
  /\ \A n \in Allocated' : node'[n].next = node[n].next
  /\ \A p \in Allocated' \cup {Null} : Chain(p)' = Chain(p)

LEMMA DeleteHeap ==
  ASSUME HeapType, HeapInv, HeapType', NEW D, D \cap LinkedNodes = {},
         bucket' = bucket, Allocated' = Allocated \ D, SameData(Allocated'),
         \A n \in Allocated' : node'[n].next = node[n].next /\ node[n].next \notin D
  PROVE  DeleteEffect(D)
<1>1. /\ Allocated \in SUBSET Node /\ Allocated' \in SUBSET Node
      /\ \A n \in Allocated : node[n].next \in Allocated \cup {Null}
      /\ \A n \in Allocated : NextOf[n] = node[n].next
      /\ \A n \in Allocated' : NextOf'[n] = node[n].next
  BY NodeIs DEF HeapInv, Shut, NextOf
<1>2. ASSUME NEW p \in Allocated' \cup {Null}
      PROVE  Chain(p)' = Chain(p) /\ Chain(p) \subseteq Allocated'
  <2>1. Shut(NextOf, Allocated')
    BY <1>1 DEF Shut
  <2>2. Chain(p) \subseteq Allocated'
    BY <1>2, <2>1, ReachLeast, ChainIs
  <2> QED BY <2>2, ChainSame
<1>3. ASSUME NEW c \in Bucket PROVE bucket[c] \in Allocated' \cup {Null} /\ Linked(c)' = Linked(c)
  <2>1. bucket[c] \in Linked(c) \cup {Null} /\ bucket[c] \in Allocated \cup {Null}
    BY ChainIn DEF HeapInv, Linked
  <2>2. bucket[c] \in Allocated' \cup {Null}
    BY <2>1, LinkedIn
  <2>3. PICK p \in Allocated' \cup {Null} : p = bucket[c]
    BY <2>2
  <2>4. Linked(c)' = Chain(p)' /\ Linked(c) = Chain(p)
    BY <2>3, ChainNext DEF Linked
  <2> QED BY <1>2, <2>2, <2>4
<1>4. LinkedNodes' = LinkedNodes
  BY <1>3 DEF LinkedNodes
<1>5. HeapInv'
  <2>1. Shut(NextOf, Allocated)'
    BY <1>1 DEF Shut
  <2>2. PICK rank : Down(Allocated, NextOf, rank)
    BY DEF HeapInv
  <2>3. Down(Allocated', NextOf', rank)
    BY <1>1, <2>2 DEF Down
  <2>4. \A n \in Allocated' : node'[n].next # Null => Hash[node'[node'[n].next].key] = Hash[node'[n].key]
    BY <1>1 DEF HeapInv, SameData
  <2>5. \A c \in Bucket : bucket'[c] # Null => Hash[node'[bucket'[c]].key] = c
    BY <1>3 DEF HeapInv, SameData
  <2> QED BY <1>3, <2>1, <2>3, <2>4, <2>5 DEF HeapInv
<1> QED BY <1>2, <1>4, <1>5 DEF DeleteEffect

-----------------------------------------------------------------------------
(***************************************************************************)
(* Locals.                                                                 *)
(***************************************************************************)
LEMMA LocalsIs ==
  ASSUME NEW l \in Locals
  PROVE  /\ l.pc \in Inside \cup {"return", "idle", "register"}
         /\ l.pc \in Inside \cup {"return"} =>
              /\ l \in Call /\ l.key \in Key /\ l.at \in Pointer /\ l.epoch \in Nat
              /\ l.result \in Value \cup {None} /\ l.seen \subseteq Value \cup {None}
         /\ l.pc = "register" => l.current \subseteq Slot
BY DEF Locals, Call, Inside

LEMMA WritingIs ==
  ASSUME NEW w \in Writing
  PROVE  /\ w.pc \in {"idle", "advance", "sweep", "link", "active", "epoch"}
         /\ w.pc \in {"sweep", "link"} =>
              w \in [pc : {"sweep", "link"}, key : Key, swept : 0..Capacity]
         /\ w.pc \in {"active", "epoch"} =>
              w \in [pc : {"active", "epoch"}, slot : 1..(MaxReaders + 1), min : Int]
BY DEF Writing

\* A change of the map is observed by the calls of get under way.
LEMMA Observed ==
  ASSUME TypeInv, contents' \in [Key -> Value \cup {None}], Observe(contents')
  PROVE  /\ rd' \in [Reader -> Locals]
         /\ \A r \in Reader :
              /\ rd'[r].pc = rd[r].pc
              /\ rd[r].pc = "register" => rd'[r].current = rd[r].current
              /\ rd[r].pc \in Inside \cup {"return"} =>
                   /\ rd'[r].key = rd[r].key /\ rd'[r].at = rd[r].at
                   /\ rd'[r].epoch = rd[r].epoch /\ rd'[r].result = rd[r].result
                   /\ rd'[r].seen = rd[r].seen \cup {contents'[rd[r].key]}
<1>1. rd \in [Reader -> Locals]
  BY DEF TypeInv
<1>2. ASSUME NEW r \in Reader
      PROVE  /\ rd'[r] \in Locals
             /\ rd'[r].pc = rd[r].pc
             /\ rd[r].pc = "register" => rd'[r].current = rd[r].current
             /\ rd[r].pc \in Inside \cup {"return"} =>
                  /\ rd'[r].key = rd[r].key /\ rd'[r].at = rd[r].at
                  /\ rd'[r].epoch = rd[r].epoch /\ rd'[r].result = rd[r].result
                  /\ rd'[r].seen = rd[r].seen \cup {contents'[rd[r].key]}
  <2>1. CASE rd[r].pc \in {"idle", "register"}
    BY <1>1, <2>1 DEF Observe, Inside
  <2>2. CASE rd[r].pc \notin {"idle", "register"}
    <3>1. rd[r] \in Call /\ rd[r].key \in Key /\ rd[r].pc \in Inside \cup {"return"}
      BY <1>1, <2>2, LocalsIs
    <3>2. rd'[r] = [rd[r] EXCEPT !.seen = rd[r].seen \cup {contents'[rd[r].key]}]
      BY <2>2 DEF Observe
    <3>3. contents'[rd[r].key] \in Value \cup {None}
      BY <3>1
    <3>4. rd'[r] \in Call
      BY <3>1, <3>2, <3>3 DEF Call
    <3> QED BY <2>2, <3>1, <3>2, <3>4 DEF Call, Locals
  <2> QED BY <2>1, <2>2
<1>3. rd' \in [Reader -> Locals]
  BY <1>2 DEF Observe
<1> QED BY <1>2, <1>3

LEMMA HeapTyped == ASSUME TypeInv PROVE HeapType
BY DEF TypeInv, TypeOK, HeapType

\* The heap is as it was.
LEMMA HeapStays == ASSUME HeapType, HeapInv, UNCHANGED <<node, bucket>> PROVE DeleteEffect({})
BY DeleteHeap DEF HeapType, Allocated, SameData

-----------------------------------------------------------------------------
(***************************************************************************)
(* The types.                                                              *)
(***************************************************************************)
LEMMA TypeGet ==
  ASSUME IInv, NEW r \in Reader, get(r) \/ EndThread(r)
  PROVE  TypeInv'
<1>0. TypeInv /\ TypeOK /\ rd \in [Reader -> Locals]
  BY DEF IInv, TypeInv
\* Most steps change the locals, and the flag or the announcement of a slot.
<1>1. ASSUME NEW from, NEW to \in Locals, Step(r, from, to),
             node' \in [Node -> Live \cup {Deleted}],
             active' \in [Slot -> BOOLEAN], announced' \in [Slot -> 0..epoch]
      PROVE  TypeInv'
  <2>1. TypeOK'
    BY <1>0, <1>1 DEF Step, Move, TypeOK, registryVars, clockVars
  <2> QED BY <1>0, <1>1, <2>1 DEF Step, Move, TypeInv
<1>3. CASE LoadSlots(r)
  <2>1. [pc |-> "register", current |-> slots] \in Locals
    BY <1>0 DEF Locals, TypeOK
  <2> QED BY <1>0, <1>1, <1>3, <2>1 DEF LoadSlots, TypeOK
<1>4. CASE ChooseSlot(r)
  <2>1. PICK free \in Slot \ rd[r].current : TakeSlot(r, free)
    BY <1>4 DEF ChooseSlot
  <2>2. [pc |-> "idle"] \in Locals
    BY DEF Locals
  <2>3. CASE slots = rd[r].current
    <3>1. TypeOK'
      BY <1>0, <1>4, <2>1, <2>3 DEF ChooseSlot, TakeSlot, Move, TypeOK, clockVars
    <3> QED BY <1>0, <1>4, <2>1, <2>2, <2>3, <3>1 DEF TakeSlot, Move, TypeInv
  <2>4. CASE slots # rd[r].current
    <3>1. Step(r, "register", [rd[r] EXCEPT !.current = slots])
      BY <2>1, <2>4 DEF TakeSlot
    <3>2. [rd[r] EXCEPT !.current = slots] \in Locals
      <4>1. rd[r] \in [pc : {"register"}, current : SUBSET Slot]
        BY <1>0, <1>4 DEF ChooseSlot, Locals, Call, Inside
      <4> QED BY <1>0, <4>1 DEF Locals, TypeOK
    <3> QED BY <1>0, <1>1, <1>4, <3>1, <3>2 DEF ChooseSlot, TypeOK
  <2> QED BY <2>3, <2>4
<1>5. CASE NoSlotLeft(r) \/ Return(r)
  <2>1. [pc |-> "idle"] \in Locals
    BY DEF Locals
  <2> QED BY <1>0, <1>1, <1>5, <2>1 DEF NoSlotLeft, Return, TypeOK
<1>6. CASE EndThread(r)
  <2>1. [pc |-> "idle"] \in Locals
    BY DEF Locals
  <2>2. TypeOK'
    BY <1>0, <1>6 DEF EndThread, Move, TypeOK, clockVars
  <2> QED BY <1>0, <1>6, <2>1, <2>2 DEF EndThread, Move, TypeInv
<1>7. ASSUME NEW k \in Key, Activate(r, k) PROVE TypeInv'
  <2>1. id[r] \in Slot /\ contents[k] \in Value \cup {None}
    BY <1>0, <1>7 DEF Activate, TypeOK
  <2>2. [pc |-> "load", key |-> k, at |-> Null, epoch |-> 0, result |-> None,
         seen |-> {contents[k]}] \in Locals
    BY <2>1 DEF Locals, Call, Inside, Pointer
  <2>3. active' \in [Slot -> BOOLEAN]
    BY <1>0, <1>7, <2>1 DEF Activate, TypeOK
  <2> QED BY <1>0, <1>1, <1>7, <2>2, <2>3 DEF Activate, TypeOK
<1>8. CASE rd[r].pc \in Inside /\ get(r)
  <2>1. rd[r] \in Call /\ rd[r].key \in Key /\ rd[r].at \in Pointer
    BY <1>0, <1>8, LocalsIs
  <2>2. epoch \in Nat /\ announced \in [Slot -> 0..epoch] /\ active \in [Slot -> BOOLEAN]
        /\ node \in [Node -> Live \cup {Deleted}]
    BY <1>0 DEF TypeOK
  <2>3. CASE LoadEpoch(r)
    <3>1. [rd[r] EXCEPT !.pc = "announce", !.epoch = epoch] \in Locals
      BY <2>1, <2>2 DEF Locals, Call, Inside
    <3> QED BY <1>1, <2>2, <2>3, <3>1 DEF LoadEpoch
  <2>4. CASE Announce(r)
    <3>1. [rd[r] EXCEPT !.pc = "bucket"] \in Locals
      BY <2>1 DEF Locals, Call, Inside
    <3>2. rd[r].epoch \in 0..epoch
      BY <1>8, <2>1, <2>2 DEF IInv, EpochInv, Call
    <3> QED BY <1>1, <2>2, <2>4, <3>1, <3>2 DEF Announce
  <2>5. CASE LoadBucket(r)
    <3>1. bucket[Hash[rd[r].key]] \in Pointer
      BY <1>0, <2>1 DEF TypeOK
    <3>2. [rd[r] EXCEPT !.pc = "visit", !.at = bucket[Hash[rd[r].key]]] \in Locals
      BY <2>1, <3>1 DEF Locals, Call, Inside
    <3> QED BY <1>1, <2>2, <2>5, <3>2 DEF LoadBucket
  <2>6. CASE VisitFound(r)
    <3>1. rd[r].at \in Allocated /\ node[rd[r].at] \in Live /\ node[rd[r].at].value \in Value
      BY <1>0, <2>1, <2>6, HeapTyped, NodeIs DEF VisitFound, Found, Pointer
    <3>2. [rd[r] EXCEPT !.pc = "leave", !.result = node[rd[r].at].value] \in Locals
      BY <2>1, <3>1 DEF Locals, Call, Inside
    <3>3. [node[rd[r].at] EXCEPT !.referenced = TRUE] \in Live
      BY <3>1 DEF Live
    <3>4. node' \in [Node -> Live \cup {Deleted}]
      BY <2>2, <2>6, <3>3 DEF VisitFound
    <3> QED BY <1>1, <2>2, <2>6, <3>2, <3>4 DEF VisitFound
  <2>7. CASE VisitOther(r)
    <3>1. [rd[r] EXCEPT !.pc = IF rd[r].at = Null THEN "leave" ELSE "next"] \in Locals
      BY <2>1 DEF Locals, Call, Inside
    <3> QED BY <1>1, <2>2, <2>7, <3>1 DEF VisitOther
  <2>8. CASE LoadNext(r)
    <3>1. node[rd[r].at].next \in Pointer
      <4>1. rd[r].pc = "next"
        BY <2>8 DEF LoadNext
      <4>2. rd[r].at \in Allocated
        BY <4>1 DEF IInv, ReaderInv
      <4> QED BY <1>0, <4>2, HeapTyped, NodeIs
    <3>2. [rd[r] EXCEPT !.pc = "visit", !.at = node[rd[r].at].next] \in Locals
      BY <2>1, <3>1 DEF Locals, Call, Inside
    <3> QED BY <1>1, <2>2, <2>8, <3>2 DEF LoadNext
  <2>9. CASE Deactivate(r)
    <3>1. [rd[r] EXCEPT !.pc = "return", !.at = Null] \in Locals
      BY <2>1 DEF Locals, Call, Inside, Pointer
    <3>2. active' \in [Slot -> BOOLEAN]
      BY <2>2, <2>9 DEF Deactivate
    <3> QED BY <1>1, <2>2, <2>9, <3>1, <3>2 DEF Deactivate
  <2> QED
    BY <1>3, <1>4, <1>5, <1>7, <1>8, <2>3, <2>4, <2>5, <2>6, <2>7, <2>8, <2>9 DEF get
<1> QED
  BY <1>3, <1>4, <1>5, <1>6, <1>7, <1>8 DEF get, LoadEpoch, Announce, LoadBucket,
     VisitFound,
     VisitOther, LoadNext, Deactivate, Step, Move, Inside

LEMMA SeqExcept ==
  ASSUME NEW s \in Seq(Node), NEW i \in Nat, NEW n \in Node
  PROVE  /\ [s EXCEPT ![i] = n] \in Seq(Node) /\ Len([s EXCEPT ![i] = n]) = Len(s)
         /\ \A j \in 1..Len(s) : [s EXCEPT ![i] = n][j] = IF j = i THEN n ELSE s[j]
<1>1. CASE i \in 1..Len(s)
  BY <1>1, ExceptSeq
<1>2. CASE i \notin 1..Len(s)
  <2>1. DOMAIN s = 1..Len(s) /\ s = [j \in 1..Len(s) |-> s[j]]
    OBVIOUS
  <2>2. [s EXCEPT ![i] = n] = s
    BY <1>2, <2>1
  <2> QED BY <1>2, <2>2
<1> QED BY <1>1, <1>2

\* The steps of put: what they do to the heap, and that they keep the types.
LEMMA ReplaceStep ==
  ASSUME IInv, NEW k \in Key, PutReplace(k)
  PROVE  /\ TypeInv'
         /\ \E old, new : /\ ReplaceEffect(k, puts', old, new)
                          /\ clock' = [clock EXCEPT ![node[old].idx] = new]
                          /\ retired' = retired \cup {[node |-> old, epoch |-> epoch]}
<1>0. TypeInv /\ TypeOK /\ HeapType /\ HeapInv /\ epoch \in Nat \ {0}
  BY HeapTyped DEF IInv, TypeInv, TypeOK
<1>1. PICK old \in Holders(k), new \in {n \in Node : node[n] = Deleted} :
         /\ Redirect([node EXCEPT ![new] = Fresh(k, puts', node[old].idx, node[old].next)],
                     Hash[k], old, new)
         /\ clock' = [clock EXCEPT ![node[old].idx] = new]
         /\ Retire(old)
  BY DEF PutReplace
<1>2. /\ writer.pc = "idle" /\ puts < MaxPuts /\ puts' = puts + 1 /\ puts' \in Value
      /\ writer' = [pc |-> "advance"]
      /\ contents' = [contents EXCEPT ![k] = puts'] /\ Observe(contents')
      /\ UNCHANGED <<hand, epoch, active, announced, slots, id>>
  BY <1>0 DEF PutReplace, BeginPut, Set, registryVars, TypeOK, Value
<1>3. ReplaceEffect(k, puts', old, new)
  <2>1. PICK v \in Value : v = puts'
    BY <1>2
  <2> QED BY <1>0, <1>1, <2>1, ReplaceHeap
<1>4. old \in Allocated /\ old \in Node /\ node[old].idx \in 1..Capacity
  BY <1>0, <1>3, LinkedIn, NodeIs DEF ReplaceEffect
<1>5. contents' \in [Key -> Value \cup {None}]
  BY <1>0, <1>2 DEF TypeOK
<1>6. rd' \in [Reader -> Locals]
  BY <1>0, <1>2, <1>5, Observed
<1>7. clock' \in Seq(Node) /\ Len(clock') = Len(clock)
  BY <1>0, <1>1, <1>4, SeqExcept DEF TypeOK
<1>8. retired' \subseteq [node : Node, epoch : 1..epoch']
  BY <1>0, <1>1, <1>2, <1>4 DEF Retire, TypeOK
<1>9. TypeOK'
  BY <1>0, <1>2, <1>3, <1>5, <1>7, <1>8 DEF TypeOK, ReplaceEffect, HeapType, Value
<1>10. TypeInv'
  BY <1>0, <1>2, <1>6, <1>9 DEF TypeInv, Writing
<1> QED BY <1>1, <1>3, <1>10 DEF Retire

LEMMA InsertStep ==
  ASSUME IInv, NEW k \in Key, PutInsert(k)
  PROVE  /\ TypeInv'
         /\ \E new : /\ HeadEffect(k, puts', Len(clock) + 1, new)
                     /\ clock' = Append(clock, new)
<1>0. TypeInv /\ TypeOK /\ HeapType /\ HeapInv
  BY HeapTyped DEF IInv, TypeInv
<1>1. PICK new \in {n \in Node : node[n] = Deleted} :
         /\ LinkHead(new, k, puts', Len(clock) + 1)
         /\ clock' = Append(clock, new)
  BY DEF PutInsert
<1>2. /\ writer.pc = "idle" /\ puts < MaxPuts /\ puts' = puts + 1 /\ puts' \in Value
      /\ writer' = [pc |-> "advance"]
      /\ contents' = [contents EXCEPT ![k] = puts'] /\ Observe(contents')
      /\ UNCHANGED <<hand, retired, epoch, active, announced, slots, id>>
      /\ Len(clock) + 1 \in 1..Capacity
  BY <1>0, <1>1 DEF PutInsert, BeginPut, LinkHead, Set, registryVars, TypeOK, Value
<1>3. HeadEffect(k, puts', Len(clock) + 1, new)
  <2>1. PICK v \in Value, i \in 1..Capacity : v = puts' /\ i = Len(clock) + 1
    BY <1>2
  <2> QED BY <1>0, <1>1, <2>1, HeadHeap DEF LinkHead
<1>5. contents' \in [Key -> Value \cup {None}]
  BY <1>0, <1>2 DEF TypeOK
<1>6. rd' \in [Reader -> Locals]
  BY <1>0, <1>2, <1>5, Observed
<1>7. clock' \in Seq(Node) /\ Len(clock') <= Capacity
  BY <1>0, <1>1, <1>2 DEF TypeOK
<1>9. TypeOK'
  BY <1>0, <1>2, <1>3, <1>5, <1>7 DEF TypeOK, HeadEffect, HeapType, Value
<1>10. TypeInv'
  BY <1>0, <1>2, <1>6, <1>9 DEF TypeInv, Writing
<1> QED BY <1>1, <1>3, <1>10

LEMMA UnlinkStep ==
  ASSUME IInv, Unlink
  PROVE  /\ TypeInv'
         /\ writer' = [writer EXCEPT !.pc = "link"] /\ writer.pc = "sweep"
         /\ hand \in 1..Len(clock) /\ Len(clock) = Capacity
         /\ RemoveEffect(clock[hand])
         /\ node[clock[hand]].key \in Key
         /\ contents' = [contents EXCEPT ![node[clock[hand]].key] = None]
         /\ retired' = retired \cup {[node |-> clock[hand], epoch |-> epoch]}
<1>0. TypeInv /\ TypeOK /\ HeapType /\ HeapInv /\ epoch \in Nat \ {0}
  BY HeapTyped DEF IInv, TypeInv, TypeOK
<1> DEFINE k == node[clock[hand]].key
<1>2. /\ writer.pc = "sweep" /\ writer' = [writer EXCEPT !.pc = "link"]
      /\ Redirect(node, Hash[k], clock[hand], node[clock[hand]].next)
      /\ retired' = retired \cup {[node |-> clock[hand], epoch |-> epoch]}
      /\ contents' = [contents EXCEPT ![k] = None] /\ Observe(contents')
      /\ UNCHANGED <<clock, hand, epoch, puts, active, announced, slots, id>>
  BY DEF Unlink, Retire, Set, clockVars, registryVars
<1>3. hand \in 1..Len(clock) /\ Len(clock) = Capacity /\ clock[hand] \in LinkedNodes
  BY <1>0, <1>2 DEF TypeOK, IInv, ClockInv, Held
<1>4. clock[hand] \in Allocated /\ clock[hand] \in Node /\ k \in Key
  BY <1>0, <1>3, LinkedIn, NodeIs
<1>5. RemoveEffect(clock[hand])
  <2>1. PICK v \in LinkedNodes : v = clock[hand]
    BY <1>3
  <2> QED BY <1>0, <1>2, <2>1, RemoveHeap
<1>6. contents' \in [Key -> Value \cup {None}]
  BY <1>0, <1>2 DEF TypeOK
<1>7. rd' \in [Reader -> Locals]
  BY <1>0, <1>2, <1>6, Observed
<1>8. retired' \subseteq [node : Node, epoch : 1..epoch']
  BY <1>0, <1>2, <1>4 DEF TypeOK
<1>9. TypeOK'
  BY <1>0, <1>2, <1>5, <1>6, <1>8 DEF TypeOK, RemoveEffect, HeapType
<1>10. writer' \in Writing /\ writer'.pc = "link"
  <2>1. writer \in [pc : {"sweep", "link"}, key : Key, swept : 0..Capacity]
    BY <1>0, <1>2, WritingIs DEF TypeInv
  <2> QED BY <1>2, <2>1 DEF Writing
<1>11. TypeInv'
  BY <1>0, <1>2, <1>7, <1>9, <1>10 DEF TypeInv
<1> QED BY <1>2, <1>3, <1>4, <1>5, <1>11

LEMMA LinkStep ==
  ASSUME IInv, Link
  PROVE  /\ TypeInv'
         /\ writer.pc = "link" /\ writer.key \in Key /\ writer'.pc = "advance"
         /\ hand \in 1..Len(clock) /\ Len(clock) = Capacity
         /\ contents' = [contents EXCEPT ![writer.key] = puts]
         /\ \E new : /\ HeadEffect(writer.key, puts, hand, new)
                     /\ clock' = [clock EXCEPT ![hand] = new]
<1>0. TypeInv /\ TypeOK /\ HeapType /\ HeapInv
  BY HeapTyped DEF IInv, TypeInv
<1>1. PICK new \in {n \in Node : node[n] = Deleted} :
         /\ LinkHead(new, writer.key, puts, hand)
         /\ clock' = [clock EXCEPT ![hand] = new]
  BY DEF Link
<1>2. writer.pc = "link" /\ writer \in [pc : {"sweep", "link"}, key : Key, swept : 0..Capacity]
  BY <1>0, WritingIs DEF Link, TypeInv
<1>3. /\ writer.key \in Key /\ puts \in Value /\ puts' = puts /\ writer' = [pc |-> "advance"]
      /\ hand \in 1..Capacity /\ Len(clock) = Capacity /\ hand' = Next1(hand)
      /\ contents' = [contents EXCEPT ![writer.key] = puts] /\ Observe(contents')
      /\ UNCHANGED <<retired, epoch, active, announced, slots, id>>
  <2>1. puts = epoch /\ Len(clock) = Capacity
    BY <1>0, <1>2 DEF TypeInv, IInv, ClockInv
  <2> QED BY <1>0, <1>1, <1>2, <2>1 DEF Link, LinkHead, Set, registryVars, TypeOK, Value
<1>4. HeadEffect(writer.key, puts, hand, new)
  <2>1. PICK v \in Value, i \in 1..Capacity, k \in Key : v = puts /\ i = hand /\ k = writer.key
    BY <1>3
  <2> QED BY <1>0, <1>1, <2>1, HeadHeap DEF LinkHead
<1>5. contents' \in [Key -> Value \cup {None}]
  BY <1>0, <1>3 DEF TypeOK
<1>6. rd' \in [Reader -> Locals]
  BY <1>0, <1>3, <1>5, Observed
<1>7. clock' \in Seq(Node) /\ Len(clock') = Len(clock)
  BY <1>0, <1>1, <1>3, SeqExcept DEF TypeOK
<1>8. hand' \in 1..Capacity
  BY <1>3 DEF Next1
<1>9. TypeOK'
  BY <1>0, <1>3, <1>4, <1>5, <1>7, <1>8 DEF TypeOK, HeadEffect, HeapType
<1>10. TypeInv'
  BY <1>0, <1>2, <1>3, <1>6, <1>9 DEF TypeInv, Writing
<1> QED BY <1>1, <1>2, <1>3, <1>4, <1>10

\* Steps that flip the mark of one node.
LEMMA MarkHeap ==
  ASSUME HeapType, HeapInv, NEW n \in Allocated, NEW flag \in BOOLEAN,
         node' = [node EXCEPT ![n].referenced = flag], bucket' = bucket
  PROVE  HeapType' /\ DeleteEffect({})
<1>1. n \in Node /\ node[n] \in Live
  BY NodeIs
<1>2. /\ node'[n] \in Live /\ node'[n].key = node[n].key /\ node'[n].value = node[n].value
      /\ node'[n].idx = node[n].idx /\ node'[n].next = node[n].next
      /\ \A m \in Node \ {n} : node'[m] = node[m]
  BY <1>1 DEF Live, HeapType
<1>3. HeapType'
  BY <1>1, <1>2 DEF HeapType
<1>4. Allocated' = Allocated
  <2>1. Deleted \notin Live
    BY DEF Deleted, Live
  <2> QED BY <1>1, <1>2, <2>1 DEF Allocated
<1>5. SameData(Allocated') /\ \A m \in Allocated' : node'[m].next = node[m].next
  BY <1>2, <1>4 DEF SameData, Allocated
<1> QED BY <1>3, <1>4, <1>5, DeleteHeap

LEMMA SweepStep ==
  ASSUME IInv, Sweep
  PROVE  /\ TypeInv' /\ DeleteEffect({})
         /\ writer.pc = "sweep" /\ writer'.pc = "sweep" /\ writer'.key = writer.key
<1>0. TypeInv /\ TypeOK /\ HeapType /\ HeapInv
  BY HeapTyped DEF IInv, TypeInv
<1>1. /\ writer.pc = "sweep" /\ writer \in [pc : {"sweep", "link"}, key : Key, swept : 0..Capacity]
      /\ writer.swept < Capacity /\ writer' = [writer EXCEPT !.swept = writer.swept + 1]
      /\ hand' = Next1(hand) /\ hand \in 1..Capacity
      /\ node' = [node EXCEPT ![clock[hand]].referenced = FALSE]
      /\ UNCHANGED <<bucket, contents, clock, retired, epoch, puts, active, announced, rd, slots, id>>
  BY <1>0, WritingIs DEF Sweep, Spare, TypeInv, TypeOK, readerVars, registryVars
<1>2. hand \in 1..Len(clock) /\ clock[hand] \in Allocated
  BY <1>0, <1>1, LinkedIn DEF IInv, ClockInv, Held
<1>3. HeapType' /\ DeleteEffect({})
  BY <1>0, <1>1, <1>2, MarkHeap
<1>4. writer' \in Writing /\ writer'.pc = "sweep" /\ writer'.key = writer.key
  BY <1>1 DEF Writing
<1>5. hand' \in 1..Capacity
  BY <1>1 DEF Next1
<1>6. TypeOK'
  BY <1>0, <1>1, <1>3, <1>5 DEF TypeOK, HeapType
<1> QED BY <1>0, <1>1, <1>3, <1>4, <1>6 DEF TypeInv

\* What is deleted is out of reach of everything that is not.
LEMMA DeleteStep ==
  ASSUME IInv, Delete
  PROVE  LET old == {t \in retired : t.epoch < writer.min}
         IN  /\ TypeInv' /\ DeleteEffect({t.node : t \in old})
             /\ retired' = retired \ old
             /\ writer.pc = "active" /\ writer.slot > MaxReaders /\ writer' = [pc |-> "idle"]
             /\ UNCHANGED <<bucket, contents, clock, hand, epoch, puts, active, announced, rd,
                            slots, id>>
<1> DEFINE old == {t \in retired : t.epoch < writer.min}
           D == {t.node : t \in old}
<1>0. TypeInv /\ TypeOK /\ HeapType /\ HeapInv
  BY HeapTyped DEF IInv, TypeInv
<1>1. /\ writer.pc = "active" /\ writer.slot > MaxReaders /\ writer' = [pc |-> "idle"]
      /\ node' = [n \in Node |-> IF n \in D THEN Deleted ELSE node[n]]
      /\ retired' = retired \ old
      /\ UNCHANGED <<bucket, contents, clock, hand, epoch, puts, active, announced, rd, slots, id>>
  BY DEF Delete, Old, clockVars, readerVars, registryVars
<1>2. D \cap LinkedNodes = {} /\ D \subseteq Allocated
  BY DEF IInv, RetiredInv
<1>3. ASSUME NEW n \in Allocated \ D PROVE node[n].next \notin D
  <2>1. CASE n \in LinkedNodes
    BY <1>0, <1>2, <2>1, LinkedIn, NullNode, NodeIs
  <2>2. CASE n \notin LinkedNodes
    <3>1. PICK t \in retired : t.node = n
      BY <1>3, <2>2 DEF IInv, RetiredInv
    <3>2. t \notin old
      BY <1>3, <3>1
    <3>3. CASE node[n].next \in LinkedNodes \cup {Null}
      BY <1>0, <1>2, <3>3, NullNode, NodeIs
    <3>4. CASE \E u \in retired : u.node = node[n].next /\ t.epoch <= u.epoch
      <4>1. PICK u \in retired : u.node = node[n].next /\ t.epoch <= u.epoch
        BY <3>4
      <4>2. t.epoch \in Int /\ u.epoch \in Int /\ writer.min \in Int
        BY <1>0, <1>1, <4>1, WritingIs DEF TypeOK, TypeInv
      <4>3. ASSUME node[n].next \in D PROVE FALSE
        <5>1. PICK w \in old : w.node = node[n].next
          BY <4>3
        <5>2. w = u
          BY <4>1, <5>1 DEF IInv, RetiredInv
        <5> QED BY <3>2, <4>1, <4>2, <5>1, <5>2
      <4> QED BY <4>3
    <3> QED BY <3>1, <3>3, <3>4 DEF IInv, RetiredInv
  <2> QED BY <2>1, <2>2
<1>4. HeapType' /\ Allocated' = Allocated \ D /\ \A n \in Allocated \ D : node'[n] = node[n]
  BY <1>0, <1>1 DEF HeapType, Allocated
<1>5. DeleteEffect(D)
  <2> HIDE DEF D
  <2> QED BY <1>0, <1>1, <1>2, <1>3, <1>4, DeleteHeap DEF SameData
<1>6. TypeOK'
  BY <1>0, <1>1, <1>4 DEF TypeOK, HeapType
<1>7. TypeInv'
  BY <1>0, <1>1, <1>6 DEF TypeInv, Writing
<1> QED BY <1>1, <1>5, <1>7

\* The steps that leave the heap alone.
LEMMA TypeFull ==
  ASSUME IInv, NEW k \in Key, PutFull(k)
  PROVE  TypeInv'
<1>1. TypeInv /\ TypeOK
  BY DEF IInv, TypeInv
<1>2. writer' \in Writing /\ writer'.pc = "sweep" /\ puts' = puts + 1 /\ puts < MaxPuts
      /\ writer.pc = "idle"
  BY <1>1 DEF PutFull, BeginPut, Writing
<1>3. UNCHANGED <<node, bucket, contents, clock, hand, retired, epoch, active, announced, rd, slots, id>>
  BY DEF PutFull, heapVars, clockVars, readerVars, registryVars
<1>4. TypeOK'
  BY <1>1, <1>2, <1>3 DEF TypeOK
<1> QED BY <1>1, <1>2, <1>3, <1>4 DEF TypeInv

LEMMA TypeReclaim ==
  ASSUME IInv, AdvanceEpoch \/ LoadActive \/ LoadAnnounced
  PROVE  /\ TypeInv'
         /\ UNCHANGED <<node, bucket, contents, clock, hand, retired, puts, active, announced, rd,
                        slots, id>>
<1>1. TypeInv /\ TypeOK
  BY DEF IInv, TypeInv
<1>2. UNCHANGED <<node, bucket, contents, clock, hand, retired, puts, active, announced, rd, slots, id>>
  BY DEF AdvanceEpoch, LoadActive, LoadAnnounced, heapVars, clockVars, readerVars,
     registryVars
<1>3. CASE AdvanceEpoch
  <2>1. /\ writer.pc = "advance" /\ epoch' = epoch + 1 /\ epoch = puts
        /\ writer' = [pc |-> "active", slot |-> 1, min |-> epoch']
    BY <1>1, <1>3 DEF AdvanceEpoch, TypeInv
  <2>2. writer' \in Writing /\ writer'.pc = "active"
    BY <1>1, <2>1 DEF Writing, TypeOK
  <2>3. /\ epoch' \in 1..(MaxPuts + 1) /\ announced' \in [Slot -> 0..epoch']
        /\ retired' \subseteq [node : Node, epoch : 1..epoch']
    <3>1. 0..epoch \subseteq 0..epoch' /\ 1..epoch \subseteq 1..epoch'
      BY <1>1, <2>1 DEF TypeOK
    <3> QED BY <1>1, <1>2, <2>1, <3>1 DEF TypeOK
  <2>4. TypeOK'
    BY <1>1, <1>2, <2>3 DEF TypeOK
  <2> QED BY <1>1, <1>2, <2>1, <2>2, <2>4 DEF TypeInv
<1>4. CASE LoadActive
  <2>1. /\ writer \in [pc : {"active", "epoch"}, slot : 1..(MaxReaders + 1), min : Int]
        /\ writer.slot <= MaxReaders /\ epoch' = epoch /\ writer.pc = "active"
        /\ writer' = IF active[writer.slot] THEN [writer EXCEPT !.pc = "epoch"]
                     ELSE [writer EXCEPT !.slot = writer.slot + 1]
    BY <1>1, <1>4, WritingIs DEF LoadActive, TypeInv
  <2>2. writer' \in Writing /\ writer'.pc \in {"active", "epoch"}
        /\ (writer'.pc = "epoch" => writer'.slot \in Slot)
    BY <2>1 DEF Writing, Slot
  <2>3. TypeOK'
    BY <1>1, <1>2, <2>1 DEF TypeOK
  <2> QED BY <1>1, <1>2, <2>1, <2>2, <2>3 DEF TypeInv
<1>5. CASE LoadAnnounced
  <2>1. /\ writer.pc = "epoch" /\ writer.slot \in Slot /\ epoch' = epoch
        /\ writer \in [pc : {"active", "epoch"}, slot : 1..(MaxReaders + 1), min : Int]
        /\ writer'.pc = "active" /\ writer'.slot = writer.slot + 1
        /\ \E m \in {announced[writer.slot], writer.min} :
             writer' = [pc |-> "active", slot |-> writer.slot + 1, min |-> m]
    BY <1>1, <1>5, WritingIs DEF LoadAnnounced, TypeInv
  <2>2. writer' \in Writing
    BY <1>1, <2>1 DEF Writing, Slot, TypeOK
  <2>3. TypeOK'
    BY <1>1, <1>2, <2>1 DEF TypeOK
  <2> QED BY <1>1, <1>2, <2>1, <2>2, <2>3 DEF TypeInv
<1> QED BY <1>2, <1>3, <1>4, <1>5
-----------------------------------------------------------------------------
(***************************************************************************)
(* The map, the clock array and the retired list.                          *)
(***************************************************************************)
StoreInv == MapInv /\ ClockInv /\ RetiredInv

LEMMA NoLoop ==
  ASSUME HeapType, HeapInv, NEW n \in Allocated
  PROVE  node[n].next # n
<1>1. PICK rank : Down(Allocated, NextOf, rank)
  BY DEF HeapInv
<1>2. n \in Node /\ NextOf[n] = node[n].next /\ rank[n] \in Nat
  BY <1>1, NodeIs DEF NextOf, Down
<1> QED BY <1>1, <1>2, NullNode DEF Down

\* A node that is unlinked points to a linked one, and only what was unlinked
\* before may point to it.
LEMMA RetireStore ==
  ASSUME TypeInv, HeapInv, RetiredInv, NEW v \in LinkedNodes,
         retired' = retired \cup {[node |-> v, epoch |-> epoch]},
         LinkedNodes \ {v} \subseteq LinkedNodes',
         Allocated' \ LinkedNodes' = (Allocated \ LinkedNodes) \cup {v},
         \A n \in (Allocated \ LinkedNodes) \cup {v} : node'[n].next = node[n].next
  PROVE  RetiredInv'
<1> DEFINE x == [node |-> v, epoch |-> epoch]
<1>1. x.node = v /\ x.epoch = epoch /\ retired' = retired \cup {x} /\ x \in retired'
  OBVIOUS
<1> HIDE DEF x
<1>2. /\ \A t \in retired : t.node \in Allocated \ LinkedNodes /\ t.epoch <= epoch
      /\ \A t \in retired : t.node # v
  BY DEF RetiredInv, TypeInv, TypeOK
<1>3. \A t, u \in retired' : t.node = u.node => t = u
  BY <1>1, <1>2 DEF RetiredInv
<1>4. \A t \in retired' : t.node \in Allocated' \ LinkedNodes'
  BY <1>1, <1>2
<1>5. \A n \in Allocated' \ LinkedNodes' : \E t \in retired' : t.node = n
  BY <1>1 DEF RetiredInv
<1>6. ASSUME NEW t \in retired'
      PROVE  LET m == node'[t.node].next
             IN  \/ m \in LinkedNodes' \cup {Null}
                 \/ \E u \in retired' : u.node = m /\ t.epoch <= u.epoch
  <2> DEFINE m == node[t.node].next
  <2>1. node'[t.node].next = m
    BY <1>1, <1>2, <1>6
  <2>2. CASE t = x
    <3>1. m \in LinkedNodes \cup {Null} /\ m # v
      BY <1>1, <2>2, HeapTyped, LinkedIn, NoLoop
    <3> QED BY <2>1, <3>1
  <2>3. CASE t \in retired
    <3>1. CASE m = v
      BY <1>1, <1>2, <2>1, <2>3, <3>1
    <3>2. CASE m # v
      <4>1. \/ m \in LinkedNodes \cup {Null}
            \/ \E u \in retired : u.node = m /\ t.epoch <= u.epoch
        BY <2>3 DEF RetiredInv
      <4> QED BY <1>1, <2>1, <3>2, <4>1
    <3> QED BY <3>1, <3>2
  <2> QED BY <1>1, <1>6, <2>2, <2>3
<1> QED BY <1>3, <1>4, <1>5, <1>6 DEF RetiredInv

\* Steps that neither link a node nor unlink one.
LEMMA StoreKept ==
  ASSUME IInv, DeleteEffect({}), UNCHANGED <<contents, clock, retired, Held>>,
         writer'.pc \in {"sweep", "link"} => Len(clock) = Capacity /\ contents[writer'.key] = None
  PROVE  StoreInv'
<1>1. /\ LinkedNodes' = LinkedNodes /\ Allocated' = Allocated /\ LinkedNodes \subseteq Allocated
      /\ \A n \in Allocated : /\ node'[n].key = node[n].key /\ node'[n].value = node[n].value
                              /\ node'[n].idx = node[n].idx /\ node'[n].next = node[n].next
  BY HeapTyped, LinkedIn DEF IInv, DeleteEffect, SameData
<1>2. MapInv'
  <2>1. /\ \A m, n \in LinkedNodes : node[m].key = node[n].key => m = n
        /\ \A n \in LinkedNodes : contents[node[n].key] = node[n].value
        /\ \A k \in Key : contents[k] # None => \E n \in LinkedNodes : node[n].key = k
    BY DEF IInv, MapInv
  <2>2. /\ \A m, n \in LinkedNodes : node'[m].key = node'[n].key => m = n
        /\ \A n \in LinkedNodes : contents[node'[n].key] = node'[n].value
    BY <1>1, <2>1
  <2>3. ASSUME NEW k \in Key, contents[k] # None PROVE \E n \in LinkedNodes : node'[n].key = k
    <3>1. PICK n \in LinkedNodes : node[n].key = k
      BY <2>1, <2>3
    <3> QED BY <1>1, <3>1
  <2> QED BY <1>1, <2>2, <2>3 DEF MapInv
<1>3. ClockInv'
  <2>1. /\ \A i \in Held : clock[i] \in LinkedNodes /\ node[clock[i]].idx = i
        /\ \A n \in LinkedNodes : node[n].idx \in Held /\ clock[node[n].idx] = n
    BY DEF IInv, ClockInv
  <2>2. /\ \A i \in Held : clock[i] \in LinkedNodes /\ node'[clock[i]].idx = i
        /\ \A n \in LinkedNodes : node'[n].idx \in Held /\ clock[node'[n].idx] = n
    BY <1>1, <2>1
  <2> QED BY <1>1, <2>2 DEF ClockInv
<1>4. RetiredInv'
  <2>1. \A t \in retired : node'[t.node].next = node[t.node].next
    BY <1>1 DEF IInv, RetiredInv
  <2> QED BY <1>1, <2>1 DEF IInv, RetiredInv
<1> QED BY <1>2, <1>3, <1>4 DEF StoreInv

LEMMA ReplaceStore ==
  ASSUME IInv, NEW k \in Key, PutReplace(k)
  PROVE  StoreInv'
<1>0. TypeInv /\ TypeOK /\ HeapType /\ HeapInv /\ RetiredInv
  BY HeapTyped DEF IInv, TypeInv
<1>1. PICK old, new : /\ ReplaceEffect(k, puts', old, new)
                      /\ clock' = [clock EXCEPT ![node[old].idx] = new]
                      /\ retired' = retired \cup {[node |-> old, epoch |-> epoch]}
  BY ReplaceStep
<1>2. /\ writer.pc = "idle" /\ puts' \in Value /\ puts' # None /\ writer' = [pc |-> "advance"]
      /\ contents' = [contents EXCEPT ![k] = puts']
  BY <1>0 DEF PutReplace, BeginPut, Set, TypeOK, Value, None
<1>3. /\ LinkedNodes \subseteq Allocated /\ old \in LinkedNodes /\ node[old].key = k
      /\ new \notin Allocated /\ LinkedNodes' = (LinkedNodes \ {old}) \cup {new}
      /\ Allocated' = Allocated \cup {new}
      /\ node'[new].key = k /\ node'[new].value = puts' /\ node'[new].idx = node[old].idx
      /\ \A n \in Allocated : /\ node'[n].key = node[n].key /\ node'[n].value = node[n].value
                              /\ node'[n].idx = node[n].idx
      /\ \A n \in LinkedNodes : node[n].key \in Key
  BY <1>0, <1>1, LinkedIn, NodeIs DEF ReplaceEffect, SameData
<1>4. \A n \in LinkedNodes : node[n].key = k <=> n = old
  BY <1>3 DEF IInv, MapInv
<1>5. contents'[k] = puts' /\ \A j \in Key \ {k} : contents'[j] = contents[j]
  BY <1>0, <1>2 DEF TypeOK
<1>6. MapInv'
  <2>1. \A m, n \in LinkedNodes' : node'[m].key = node'[n].key => m = n
    BY <1>3, <1>4 DEF IInv, MapInv
  <2>2. \A n \in LinkedNodes' : contents'[node'[n].key] = node'[n].value
    BY <1>3, <1>4, <1>5 DEF IInv, MapInv
  <2>3. ASSUME NEW j \in Key, contents'[j] # None PROVE \E n \in LinkedNodes' : node'[n].key = j
    <3>1. CASE j = k
      BY <1>3, <3>1
    <3>2. CASE j # k
      <4>1. PICK n \in LinkedNodes : node[n].key = j
        BY <1>5, <2>3, <3>2 DEF IInv, MapInv
      <4> QED BY <1>3, <1>4, <3>2, <4>1
    <3> QED BY <3>1, <3>2
  <2> QED BY <2>1, <2>2, <2>3 DEF MapInv
<1>7. ClockInv'
  <2>1. /\ clock \in Seq(Node) /\ node[old].idx \in 1..Len(clock) /\ Held = 1..Len(clock)
        /\ \A i \in Held : clock[i] \in LinkedNodes /\ node[clock[i]].idx = i
        /\ \A n \in LinkedNodes : node[n].idx \in Held /\ clock[node[n].idx] = n
    BY <1>0, <1>2, <1>3 DEF IInv, ClockInv, Held, TypeOK
  <2>2. /\ Len(clock') = Len(clock) /\ clock'[node[old].idx] = new
        /\ \A i \in Held : i # node[old].idx => clock'[i] = clock[i]
    BY <1>1, <2>1
  <2>3. Held' = Held
    BY <1>2, <2>1, <2>2 DEF Held
  <2>4. \A i \in Held : clock'[i] \in LinkedNodes' /\ node'[clock'[i]].idx = i
    BY <1>3, <2>1, <2>2
  <2>5. \A n \in LinkedNodes' : node'[n].idx \in Held /\ clock'[node'[n].idx] = n
    BY <1>3, <2>1, <2>2
  <2> QED BY <1>2, <2>3, <2>4, <2>5 DEF ClockInv
<1>8. RetiredInv'
  <2>1. Allocated' \ LinkedNodes' = (Allocated \ LinkedNodes) \cup {old}
    BY <1>3
  <2> QED BY <1>0, <1>1, <1>3, <2>1, RetireStore DEF ReplaceEffect
<1> QED BY <1>6, <1>7, <1>8 DEF StoreInv

\* A new node comes under a key that was not in the map.
LEMMA HeadStore ==
  ASSUME IInv, NEW k \in Key, NEW v \in Value, NEW i \in Nat, NEW new, HeadEffect(k, v, i, new),
         contents' = [contents EXCEPT ![k] = v], \A n \in LinkedNodes : node[n].key # k,
         i \notin Held, Held' = Held \cup {i}, clock'[i] = new, \A j \in Held : clock'[j] = clock[j],
         retired' = retired, writer'.pc = "advance"
  PROVE  StoreInv'
<1>0. TypeInv /\ TypeOK /\ HeapType /\ HeapInv
  BY HeapTyped DEF IInv, TypeInv
<1>3. /\ LinkedNodes \subseteq Allocated /\ new \notin Allocated
      /\ LinkedNodes' = LinkedNodes \cup {new} /\ Allocated' = Allocated \cup {new}
      /\ node'[new].key = k /\ node'[new].value = v /\ node'[new].idx = i
      /\ \A n \in Allocated : /\ node'[n].key = node[n].key /\ node'[n].value = node[n].value
                              /\ node'[n].idx = node[n].idx /\ node'[n].next = node[n].next
      /\ \A n \in LinkedNodes : node[n].key \in Key
  BY <1>0, LinkedIn, NodeIs DEF HeadEffect, SameData
<1>5. contents'[k] = v /\ \A j \in Key \ {k} : contents'[j] = contents[j]
  BY <1>0 DEF TypeOK
<1>6. MapInv'
  <2>1. \A m, n \in LinkedNodes' : node'[m].key = node'[n].key => m = n
    BY <1>3 DEF IInv, MapInv
  <2>2. \A n \in LinkedNodes' : contents'[node'[n].key] = node'[n].value
    BY <1>3, <1>5 DEF IInv, MapInv
  <2>3. ASSUME NEW j \in Key, contents'[j] # None PROVE \E n \in LinkedNodes' : node'[n].key = j
    <3>1. CASE j = k
      BY <1>3, <3>1
    <3>2. CASE j # k
      <4>1. PICK n \in LinkedNodes : node[n].key = j
        BY <1>5, <2>3, <3>2 DEF IInv, MapInv
      <4> QED BY <1>3, <4>1
    <3> QED BY <3>1, <3>2
  <2> QED BY <2>1, <2>2, <2>3 DEF MapInv
<1>7. ClockInv'
  <2>1. /\ \A j \in Held : clock[j] \in LinkedNodes /\ node[clock[j]].idx = j
        /\ \A n \in LinkedNodes : node[n].idx \in Held /\ clock[node[n].idx] = n
    BY DEF IInv, ClockInv
  <2>2. \A j \in Held' : clock'[j] \in LinkedNodes' /\ node'[clock'[j]].idx = j
    BY <1>3, <2>1
  <2>3. \A n \in LinkedNodes' : node'[n].idx \in Held' /\ clock'[node'[n].idx] = n
    BY <1>3, <2>1
  <2> QED BY <2>2, <2>3 DEF ClockInv
<1>8. RetiredInv'
  <2>1. Allocated' \ LinkedNodes' = Allocated \ LinkedNodes
    BY <1>3
  <2>2. \A t \in retired : node'[t.node].next = node[t.node].next
    BY <1>3 DEF IInv, RetiredInv
  <2> QED BY <1>3, <2>1, <2>2 DEF IInv, RetiredInv
<1> QED BY <1>6, <1>7, <1>8 DEF StoreInv

LEMMA InsertStore ==
  ASSUME IInv, NEW k \in Key, PutInsert(k)
  PROVE  StoreInv'
<1>0. TypeInv /\ TypeOK /\ HeapType /\ HeapInv
  BY HeapTyped DEF IInv, TypeInv
<1>1. PICK new : HeadEffect(k, puts', Len(clock) + 1, new) /\ clock' = Append(clock, new)
  BY InsertStep
<1>2. /\ writer.pc = "idle" /\ puts' \in Value /\ writer' = [pc |-> "advance"]
      /\ Holders(k) = {} /\ retired' = retired
      /\ contents' = [contents EXCEPT ![k] = puts']
  BY <1>0 DEF PutInsert, LinkHead, BeginPut, Set, TypeOK, Value
<1>3. \A n \in LinkedNodes : node[n].key # k
  BY <1>0, <1>2, LinkedIn DEF Holders
<1>4. /\ clock \in Seq(Node) /\ Len(clock) \in Nat /\ Held = 1..Len(clock)
      /\ Len(clock') = Len(clock) + 1 /\ clock'[Len(clock) + 1] = new
      /\ \A j \in Held : clock'[j] = clock[j]
  BY <1>0, <1>1, <1>2 DEF Held, TypeOK
<1>5. Held' = Held \cup {Len(clock) + 1} /\ Len(clock) + 1 \notin Held
  BY <1>2, <1>4 DEF Held
<1>6. PICK v \in Value, i \in Nat : v = puts' /\ i = Len(clock) + 1
  BY <1>2, <1>4
<1> QED BY <1>1, <1>2, <1>3, <1>4, <1>5, <1>6, HeadStore

LEMMA LinkStore ==
  ASSUME IInv, Link
  PROVE  StoreInv'
<1>0. TypeInv /\ TypeOK /\ HeapType /\ HeapInv
  BY HeapTyped DEF IInv, TypeInv
<1>1. /\ writer.pc = "link" /\ writer.key \in Key /\ writer'.pc = "advance"
      /\ hand \in 1..Len(clock) /\ contents' = [contents EXCEPT ![writer.key] = puts]
      /\ retired' = retired
  BY LinkStep DEF Link
<1>2. PICK new : HeadEffect(writer.key, puts, hand, new) /\ clock' = [clock EXCEPT ![hand] = new]
  BY LinkStep
<1>3. contents[writer.key] = None /\ puts \in Value
  BY <1>0, <1>1 DEF IInv, ClockInv, TypeInv, TypeOK, Value
<1>4. \A n \in LinkedNodes : node[n].key # writer.key
  <2>1. \A n \in LinkedNodes : contents[node[n].key] = node[n].value /\ node[n].value \in Value
    BY <1>0, LinkedIn, NodeIs DEF IInv, MapInv
  <2> QED BY <1>3, <2>1 DEF Value, None
<1>5. /\ clock \in Seq(Node) /\ Held = 1..Len(clock) \ {hand} /\ Len(clock') = Len(clock)
      /\ clock'[hand] = new /\ \A j \in Held : clock'[j] = clock[j]
  BY <1>0, <1>1, <1>2 DEF Held, TypeOK
<1>6. Held' = Held \cup {hand} /\ hand \notin Held
  BY <1>1, <1>5 DEF Held
<1>7. PICK k \in Key, v \in Value, i \in Nat : k = writer.key /\ v = puts /\ i = hand
  BY <1>1, <1>3
<1> QED BY <1>1, <1>2, <1>4, <1>5, <1>6, <1>7, HeadStore

LEMMA UnlinkStore ==
  ASSUME IInv, Unlink
  PROVE  StoreInv'
<1>0. TypeInv /\ TypeOK /\ HeapType /\ HeapInv /\ RetiredInv
  BY HeapTyped DEF IInv, TypeInv
<1>1. /\ writer' = [writer EXCEPT !.pc = "link"] /\ writer.pc = "sweep"
      /\ hand \in 1..Len(clock) /\ Len(clock) = Capacity
      /\ retired' = retired \cup {[node |-> clock[hand], epoch |-> epoch]}
      /\ clock' = clock /\ hand' = hand
  BY UnlinkStep DEF Unlink, clockVars
<1>2. PICK v \in LinkedNodes, k \in Key :
        /\ v = clock[hand] /\ k = node[v].key /\ RemoveEffect(v)
        /\ contents' = [contents EXCEPT ![k] = None]
  <2>1. clock[hand] \in LinkedNodes
    BY UnlinkStep DEF RemoveEffect
  <2>2. PICK v \in LinkedNodes, k \in Key : v = clock[hand] /\ k = node[clock[hand]].key
    BY <2>1, UnlinkStep
  <2> QED BY <2>2, UnlinkStep
<1>3. /\ LinkedNodes \subseteq Allocated /\ v \in LinkedNodes
      /\ LinkedNodes' = LinkedNodes \ {v} /\ Allocated' = Allocated
      /\ \A n \in Allocated : /\ node'[n].key = node[n].key /\ node'[n].value = node[n].value
                              /\ node'[n].idx = node[n].idx
      /\ \A n \in LinkedNodes : node[n].key \in Key
  BY <1>0, <1>2, LinkedIn, NodeIs DEF RemoveEffect, SameData
<1>4. \A n \in LinkedNodes : node[n].key = k <=> n = v
  BY <1>2, <1>3 DEF IInv, MapInv
<1>5. contents'[k] = None /\ \A j \in Key \ {k} : contents'[j] = contents[j]
  BY <1>0, <1>2 DEF TypeOK
<1>6. MapInv'
  <2>1. \A m, n \in LinkedNodes' : node'[m].key = node'[n].key => m = n
    BY <1>3 DEF IInv, MapInv
  <2>2. \A n \in LinkedNodes' : contents'[node'[n].key] = node'[n].value
    BY <1>3, <1>4, <1>5 DEF IInv, MapInv
  <2>3. ASSUME NEW j \in Key, contents'[j] # None PROVE \E n \in LinkedNodes' : node'[n].key = j
    <3>1. j # k
      BY <1>5, <2>3
    <3>2. PICK n \in LinkedNodes : node[n].key = j
      BY <1>5, <2>3, <3>1 DEF IInv, MapInv
    <3> QED BY <1>3, <1>4, <3>1, <3>2
  <2> QED BY <2>1, <2>2, <2>3 DEF MapInv
<1>7. ClockInv'
  <2>1. /\ Held = 1..Len(clock)
        /\ \A i \in Held : clock[i] \in LinkedNodes /\ node[clock[i]].idx = i
        /\ \A n \in LinkedNodes : node[n].idx \in Held /\ clock[node[n].idx] = n
    BY <1>1 DEF IInv, ClockInv, Held
  <2>2. writer \in [pc : {"sweep", "link"}, key : Key, swept : 0..Capacity]
    BY <1>0, <1>1, WritingIs DEF TypeInv
  <2>3. writer'.pc = "link" /\ writer'.key = writer.key /\ writer.key \in Key
    BY <1>1, <2>2
  <2>4. Held' = Held \ {hand}
    BY <1>1, <2>1, <2>3 DEF Held
  <2>5. \A i \in Held' : clock'[i] \in LinkedNodes' /\ node'[clock'[i]].idx = i
    BY <1>1, <1>2, <1>3, <2>1, <2>4
  <2>6. \A n \in LinkedNodes' : node'[n].idx \in Held' /\ clock'[node'[n].idx] = n
    BY <1>1, <1>2, <1>3, <2>1, <2>4
  <2>7. contents'[writer.key] = None
    BY <1>1, <1>5, <2>3 DEF IInv, ClockInv
  <2> QED BY <1>1, <2>3, <2>5, <2>6, <2>7 DEF ClockInv
<1>8. RetiredInv'
  <2>1. Allocated' \ LinkedNodes' = (Allocated \ LinkedNodes) \cup {v}
    BY <1>3
  <2> QED BY <1>0, <1>1, <1>2, <1>3, <2>1, RetireStore DEF RemoveEffect
<1> QED BY <1>6, <1>7, <1>8 DEF StoreInv

LEMMA DeleteStore ==
  ASSUME IInv, Delete
  PROVE  StoreInv'
<1> DEFINE old == {t \in retired : t.epoch < writer.min}
           D == {t.node : t \in old}
<1>0. TypeInv /\ TypeOK /\ HeapType /\ HeapInv
  BY HeapTyped DEF IInv, TypeInv
<1>1. /\ DeleteEffect(D) /\ retired' = retired \ old /\ writer.pc = "active"
      /\ writer' = [pc |-> "idle"] /\ UNCHANGED <<contents, clock, hand>>
  BY DeleteStep
<1>2. \A t \in retired : t.epoch \in Int /\ writer.min \in Int
  BY <1>0, <1>1, WritingIs DEF TypeOK, TypeInv
<1>3. \A t \in retired : t.node \in D <=> t \in old
  BY DEF IInv, RetiredInv
<1>4. \A t, u \in retired : t \notin old /\ t.epoch <= u.epoch => u \notin old
  BY <1>2
<1>5. \A t \in retired \ old : t \in retired /\ t.node \in Allocated \ LinkedNodes
  BY DEF IInv, RetiredInv
<1> HIDE DEF old, D
<1>6. /\ LinkedNodes' = LinkedNodes /\ Allocated' = Allocated \ D
      /\ LinkedNodes \subseteq Allocated /\ LinkedNodes \subseteq Allocated'
      /\ \A n \in Allocated' : /\ node'[n].key = node[n].key /\ node'[n].value = node[n].value
                               /\ node'[n].idx = node[n].idx /\ node'[n].next = node[n].next
  <2>1. LinkedNodes' = LinkedNodes /\ Allocated' = Allocated \ D /\ LinkedNodes \subseteq Allocated
    BY <1>0, <1>1, LinkedIn DEF DeleteEffect
  <2>2. LinkedNodes \cap D = {}
    BY DEF IInv, RetiredInv, D, old
  <2> QED BY <1>1, <2>1, <2>2 DEF DeleteEffect, SameData
<1>7. MapInv'
  <2>1. /\ \A m, n \in LinkedNodes : node'[m].key = node'[n].key => m = n
        /\ \A n \in LinkedNodes : contents[node'[n].key] = node'[n].value
    BY <1>6 DEF IInv, MapInv
  <2>2. ASSUME NEW k \in Key, contents[k] # None PROVE \E n \in LinkedNodes : node'[n].key = k
    <3>1. PICK n \in LinkedNodes : node[n].key = k
      BY <2>2 DEF IInv, MapInv
    <3> QED BY <1>6, <3>1
  <2> QED BY <1>1, <1>6, <2>1, <2>2 DEF MapInv
<1>8. ClockInv'
  <2>1. Held' = Held
    BY <1>1 DEF Held
  <2>2. /\ \A i \in Held : clock[i] \in LinkedNodes /\ node[clock[i]].idx = i
        /\ \A n \in LinkedNodes : node[n].idx \in Held /\ clock[node[n].idx] = n
    BY DEF IInv, ClockInv
  <2>3. /\ \A i \in Held : clock[i] \in LinkedNodes /\ node'[clock[i]].idx = i
        /\ \A n \in LinkedNodes : node'[n].idx \in Held /\ clock[node'[n].idx] = n
    BY <1>6, <2>2
  <2> QED BY <1>1, <1>6, <2>1, <2>3 DEF ClockInv
<1>9. RetiredInv'
  <2>1. \A t, u \in retired' : t.node = u.node => t = u
    BY <1>1, <1>5 DEF IInv, RetiredInv
  <2>2. \A t \in retired' : t.node \in Allocated' \ LinkedNodes'
    BY <1>1, <1>3, <1>5, <1>6
  <2>3. ASSUME NEW n \in Allocated' \ LinkedNodes' PROVE \E t \in retired' : t.node = n
    <3>1. PICK t \in retired : t.node = n
      BY <1>6 DEF IInv, RetiredInv
    <3> QED BY <1>1, <1>3, <1>6, <3>1
  <2>4. ASSUME NEW t \in retired'
        PROVE  LET m == node'[t.node].next
               IN  \/ m \in LinkedNodes' \cup {Null}
                   \/ \E u \in retired' : u.node = m /\ t.epoch <= u.epoch
    <3>1. t \in retired /\ t \notin old /\ node'[t.node].next = node[t.node].next
      BY <1>1, <1>6, <2>2
    <3>2. \/ node[t.node].next \in LinkedNodes \cup {Null}
          \/ \E u \in retired : u.node = node[t.node].next /\ t.epoch <= u.epoch
      BY <3>1 DEF IInv, RetiredInv
    <3> QED BY <1>1, <1>4, <1>6, <3>1, <3>2
  <2> QED BY <2>1, <2>2, <2>3, <2>4 DEF RetiredInv
<1> QED BY <1>7, <1>8, <1>9 DEF StoreInv
-----------------------------------------------------------------------------
(***************************************************************************)
(* Slots and epochs.                                                       *)
(***************************************************************************)
\* A call inside get has a slot, where the announced epoch is not ahead of time.
LEMMA SlotOf ==
  ASSUME IInv, NEW r \in Reader, rd[r].pc \in Inside
  PROVE  /\ id[r] \in Slot /\ active[id[r]] /\ announced[id[r]] \in 0..epoch /\ epoch \in Nat
         /\ \A q \in Reader : q # r => id[q] # id[r]
         /\ rd[r] \in Call /\ rd[r].key \in Key /\ rd[r].epoch \in Nat /\ rd[r].epoch <= epoch
         /\ Guard(r) \in Nat /\ announced[id[r]] <= Guard(r)
<1>1. TypeOK /\ rd[r] \in Locals
  BY DEF IInv, TypeInv
<1>2. id[r] \in Slot /\ active[id[r]] /\ \A q \in Reader : q # r => id[q] # id[r]
  BY <1>1 DEF IInv, RegistryInv, TypeOK
<1>3. announced[id[r]] \in 0..epoch /\ epoch \in Nat
  BY <1>1, <1>2 DEF TypeOK
<1>4. rd[r] \in Call /\ rd[r].key \in Key /\ rd[r].epoch \in Nat
  BY <1>1, LocalsIs
<1>5. rd[r].epoch <= epoch
  BY DEF IInv, EpochInv
<1>6. Guard(r) \in Nat /\ announced[id[r]] <= Guard(r)
  BY <1>3, <1>4 DEF Guard, IInv, EpochInv
<1> QED BY <1>2, <1>3, <1>4, <1>5, <1>6

\* The steps of put, during which the slots and the positions of the readers stay.
LEMMA PlacesStay ==
  ASSUME IInv, UNCHANGED <<active, announced, slots, id>>, epoch' \in Nat, epoch <= epoch',
         \A r \in Reader : /\ rd'[r].pc = rd[r].pc
                           /\ rd[r].pc \in Inside => rd'[r].epoch = rd[r].epoch,
         writer'.pc \in {"active", "epoch"} =>
           /\ writer'.min <= epoch'
           /\ \A r \in Reader : rd[r].pc \in Inside \ {"load"} /\ id[r] < writer'.slot =>
                writer'.min <= Guard(r)
  PROVE  RegistryInv' /\ EpochInv'
<1>1. RegistryInv'
  BY DEF IInv, RegistryInv
<1>2. \A r \in Reader : rd[r].pc \in Inside \ {"load"} => Guard(r)' = Guard(r)
  BY DEF Guard, Inside
<1>3. \A r \in Reader : rd'[r].pc \in Inside => rd'[r].epoch <= epoch'
  BY SlotOf
<1>4. \A r \in Reader : rd'[r].pc = "announce" => announced'[id'[r]] <= rd'[r].epoch
  BY DEF IInv, EpochInv, Inside
<1>5. EpochInv'
  BY <1>2, <1>3, <1>4 DEF EpochInv
<1> QED BY <1>1, <1>5

LEMMA EpochPut ==
  ASSUME IInv, TypeInv', put
  PROVE  RegistryInv' /\ EpochInv'
<1>0. TypeInv /\ TypeOK /\ epoch \in Nat /\ epoch' \in Nat
  <2>1. TypeInv /\ TypeOK /\ TypeOK'
    BY DEF IInv, TypeInv
  <2>2. epoch \in 1..(MaxPuts + 1) /\ epoch' \in 1..(MaxPuts + 1)
    BY <2>1 DEF TypeOK
  <2> QED BY <2>1, <2>2
<1>1. CASE \/ \E k \in Key : PutReplace(k) \/ PutInsert(k) \/ PutFull(k)
           \/ Sweep \/ Unlink \/ Link \/ Delete
  <2>1. /\ UNCHANGED <<epoch, active, announced, slots, id>>
        /\ writer'.pc \notin {"active", "epoch"}
        /\ rd' = rd \/ Observe(contents')
    <3>1. CASE \E k \in Key : PutReplace(k) \/ PutInsert(k) \/ PutFull(k)
      BY <3>1 DEF PutReplace, PutInsert, PutFull, LinkHead, Set, readerVars, registryVars
    <3>2. CASE Sweep \/ Unlink
      <4>1. writer \in [pc : {"sweep", "link"}, key : Key, swept : 0..Capacity]
        BY <1>0, <3>2, WritingIs DEF Sweep, Unlink, TypeInv
      <4> QED BY <3>2, <4>1 DEF Sweep, Unlink, Set, readerVars, registryVars
    <3>3. CASE Link \/ Delete
      BY <3>3 DEF Link, Delete, LinkHead, Set, readerVars, registryVars
    <3> QED BY <1>1, <3>1, <3>2, <3>3
  <2>2. \A r \in Reader : /\ rd'[r].pc = rd[r].pc
                          /\ rd[r].pc \in Inside => rd'[r].epoch = rd[r].epoch
    <3>1. CASE rd' = rd
      BY <3>1
    <3>2. CASE Observe(contents')
      <4>1. contents' \in [Key -> Value \cup {None}]
        BY DEF TypeInv, TypeOK
      <4> QED BY <1>0, <3>2, <4>1, Observed
    <3> QED BY <2>1, <3>1, <3>2
  <2> QED BY <1>0, <2>1, <2>2, PlacesStay
<1>2. CASE AdvanceEpoch
  <2>1. /\ UNCHANGED <<active, announced, slots, id, rd>> /\ epoch' = epoch + 1
        /\ writer'.slot = 1 /\ writer'.min = epoch'
    BY <1>2 DEF AdvanceEpoch, readerVars, registryVars
  <2>2. \A r \in Reader : rd[r].pc \in Inside => ~(id[r] < 1)
    BY SlotOf DEF Slot
  <2> QED BY <1>0, <2>1, <2>2, PlacesStay
<1>3. CASE LoadActive
  <2>1. /\ writer \in [pc : {"active", "epoch"}, slot : 1..(MaxReaders + 1), min : Int]
        /\ writer.pc = "active"
        /\ writer' = IF active[writer.slot] THEN [writer EXCEPT !.pc = "epoch"]
                     ELSE [writer EXCEPT !.slot = writer.slot + 1]
        /\ UNCHANGED <<active, announced, slots, id, rd, epoch>>
    BY <1>0, <1>3, WritingIs DEF LoadActive, TypeInv, readerVars, registryVars
  <2>2. /\ writer.min <= epoch
        /\ \A r \in Reader : rd[r].pc \in Inside \ {"load"} /\ id[r] < writer.slot =>
             writer.min <= Guard(r)
    BY <2>1 DEF IInv, EpochInv
  <2>3. writer'.min = writer.min
    BY <2>1
  <2>4. ASSUME NEW r \in Reader, rd[r].pc \in Inside, id[r] < writer'.slot PROVE id[r] < writer.slot
    <3>1. id[r] \in Slot /\ active[id[r]]
      BY <2>4, SlotOf
    <3>2. CASE active[writer.slot]
      BY <2>1, <2>4, <3>2
    <3>3. CASE ~active[writer.slot]
      <4>1. writer'.slot = writer.slot + 1 /\ id[r] # writer.slot
        BY <2>1, <3>1, <3>3
      <4> QED BY <2>1, <2>4, <3>1, <4>1 DEF Slot
    <3> QED BY <3>2, <3>3
  <2> QED BY <1>0, <2>1, <2>2, <2>3, <2>4, PlacesStay
<1>4. CASE LoadAnnounced
  <2>1. /\ writer \in [pc : {"active", "epoch"}, slot : 1..(MaxReaders + 1), min : Int]
        /\ writer.pc = "epoch" /\ writer.slot \in Slot
        /\ writer'.slot = writer.slot + 1
        /\ writer'.min = IF announced[writer.slot] < writer.min THEN announced[writer.slot]
                         ELSE writer.min
        /\ UNCHANGED <<active, announced, slots, id, rd, epoch>>
    BY <1>0, <1>4, WritingIs DEF LoadAnnounced, TypeInv, readerVars, registryVars
  <2>2. /\ writer.min <= epoch
        /\ \A r \in Reader : rd[r].pc \in Inside \ {"load"} /\ id[r] < writer.slot =>
             writer.min <= Guard(r)
    BY <2>1 DEF IInv, EpochInv
  <2>3. announced[writer.slot] \in Nat /\ writer.min \in Int
    BY <1>0, <2>1 DEF TypeOK
  <2>4. writer'.min <= writer.min /\ writer'.min <= announced[writer.slot] /\ writer'.min \in Int
    BY <2>1, <2>3
  <2>5. ASSUME NEW r \in Reader, rd[r].pc \in Inside \ {"load"}, id[r] < writer'.slot
        PROVE  writer'.min <= Guard(r)
    <3>1. id[r] \in Slot /\ Guard(r) \in Nat /\ announced[id[r]] <= Guard(r)
      BY <2>5, SlotOf
    <3>2. CASE id[r] = writer.slot
      BY <2>3, <2>4, <3>1, <3>2
    <3>3. CASE id[r] # writer.slot
      <4>1. id[r] < writer.slot
        BY <2>1, <2>5, <3>1, <3>3 DEF Slot
      <4> QED BY <2>2, <2>3, <2>4, <2>5, <3>1, <4>1
    <3> QED BY <3>2, <3>3
  <2>6. writer'.min <= epoch'
    BY <1>0, <2>1, <2>2, <2>3, <2>4
  <2> QED BY <1>0, <2>1, <2>5, <2>6, PlacesStay
<1> QED BY <1>1, <1>2, <1>3, <1>4 DEF put

\* A step of a reader is its own.
LEMMA ReaderMoves ==
  ASSUME TypeInv, NEW r \in Reader, get(r) \/ EndThread(r)
  PROVE  /\ \A q \in Reader \ {r} : rd'[q] = rd[q]
         /\ UNCHANGED <<bucket, contents, clock, hand, retired, epoch, writer, puts>>
<1>1. \E from, to : Move(r, from, to)
  <2>1. CASE \E from, to : Step(r, from, to)
    BY <2>1 DEF Step
  <2>2. CASE ChooseSlot(r)
    BY <2>2 DEF ChooseSlot, TakeSlot, Step
  <2>3. CASE EndThread(r)
    BY <2>3 DEF EndThread
  <2>4. CASE LoadSlots(r) \/ NoSlotLeft(r) \/ \E k \in Key : Activate(r, k)
    BY <2>1, <2>4 DEF LoadSlots, NoSlotLeft, Activate
  <2>5. CASE LoadEpoch(r) \/ Announce(r) \/ LoadBucket(r) \/ VisitFound(r)
    BY <2>1, <2>5 DEF LoadEpoch, Announce, LoadBucket, VisitFound
  <2>6. CASE VisitOther(r) \/ LoadNext(r) \/ Deactivate(r) \/ Return(r)
    BY <2>1, <2>6 DEF VisitOther, LoadNext, Deactivate, Return
  <2> QED BY <2>2, <2>3, <2>4, <2>5, <2>6 DEF get
<1>2. rd \in [Reader -> Locals]
  BY DEF TypeInv
<1> QED BY <1>1, <1>2 DEF Move, clockVars

\* The steps of a reader.
LEMMA EpochGet ==
  ASSUME IInv, TypeInv', NEW r \in Reader, get(r) \/ EndThread(r)
  PROVE  RegistryInv' /\ EpochInv'
<1>0. /\ TypeInv /\ TypeOK /\ rd \in [Reader -> Locals] /\ RegistryInv /\ EpochInv
      /\ \A q \in Reader \ {r} : rd'[q] = rd[q]
      /\ UNCHANGED <<epoch, writer>>
  BY ReaderMoves DEF IInv, TypeInv
\* The slots of the others stay, and so do their announcements.
<1>1. ASSUME RegistryInv',
             \A q \in Reader \ {r} :
               rd[q].pc \in Inside => id'[q] = id[q] /\ announced'[id[q]] = announced[id[q]],
             rd'[r].pc \in Inside =>
               /\ rd'[r].epoch <= epoch
               /\ rd'[r].pc = "announce" => announced'[id'[r]] <= rd'[r].epoch
               /\ rd'[r].pc # "load" /\ writer.pc \in {"active", "epoch"} /\ id'[r] < writer.slot =>
                    writer.min <= IF rd'[r].pc = "announce" THEN rd'[r].epoch ELSE announced'[id'[r]]
      PROVE  EpochInv'
  <2>2. \A q \in Reader : rd'[q].pc \in Inside => rd'[q].epoch <= epoch'
    BY <1>0, <1>1 DEF EpochInv
  <2>3. \A q \in Reader : rd'[q].pc = "announce" => announced'[id'[q]] <= rd'[q].epoch
    BY <1>0, <1>1 DEF EpochInv, Inside
  <2>4. ASSUME writer'.pc \in {"active", "epoch"},
               NEW q \in Reader, rd'[q].pc \in Inside \ {"load"}, id'[q] < writer'.slot
        PROVE  writer'.min <= Guard(q)'
    <3>1. CASE q = r
      BY <1>0, <1>1, <2>4, <3>1 DEF Guard
    <3>2. CASE q # r
      <4>1. rd'[q] = rd[q] /\ id'[q] = id[q] /\ announced'[id[q]] = announced[id[q]]
        BY <1>0, <1>1, <2>4, <3>2
      <4>2. writer.min <= Guard(q)
        BY <1>0, <1>1, <2>4, <4>1 DEF EpochInv
      <4> QED BY <1>0, <1>1, <4>1, <4>2 DEF Guard
    <3> QED BY <3>1, <3>2
  <2>5. writer'.pc \in {"active", "epoch"} => writer'.min <= epoch'
    BY <1>0, <1>1 DEF EpochInv
  <2> QED BY <2>2, <2>3, <2>4, <2>5 DEF EpochInv
\* The steps outside of a call.
<1>2. CASE LoadSlots(r) \/ ChooseSlot(r) \/ NoSlotLeft(r) \/ Return(r) \/ EndThread(r)
  <2>1. /\ rd'[r].pc \notin Inside
        /\ UNCHANGED <<active, announced>>
        /\ \/ UNCHANGED <<slots, id>>
           \/ /\ id[r] # NoSlot /\ slots' = slots \ {id[r]}
              /\ id' = [id EXCEPT ![r] = NoSlot]
           \/ \E free \in Slot \ slots : /\ slots' = slots \cup {free}
                                         /\ id' = [id EXCEPT ![r] = free]
    <3>1. CASE LoadSlots(r)
      BY <1>0, <3>1 DEF LoadSlots, Step, Move, registryVars, Inside
    <3>2. CASE ChooseSlot(r)
      <4>1. PICK free \in Slot \ rd[r].current : TakeSlot(r, free)
        BY <3>2 DEF ChooseSlot
      <4>2. CASE slots = rd[r].current
        BY <1>0, <3>2, <4>1, <4>2 DEF ChooseSlot, TakeSlot, Move, Inside
      <4>3. CASE slots # rd[r].current
        <5>1. [rd[r] EXCEPT !.current = slots].pc = "register"
          <6>1. rd[r] \in [pc : {"register"}, current : SUBSET Slot]
            BY <1>0, <3>2 DEF ChooseSlot, Locals, Call, Inside
          <6> QED BY <6>1
        <5>2. Step(r, "register", [rd[r] EXCEPT !.current = slots]) /\ UNCHANGED <<active, announced>>
          BY <3>2, <4>1, <4>3 DEF ChooseSlot, TakeSlot
        <5> QED BY <1>0, <5>1, <5>2 DEF Step, Move, registryVars, Inside
      <4> QED BY <4>2, <4>3
    <3>3. CASE NoSlotLeft(r) \/ Return(r)
      BY <1>0, <3>3 DEF NoSlotLeft, Return, Step, Move, registryVars, Inside
    <3>4. CASE EndThread(r)
      BY <1>0, <3>4 DEF EndThread, Move, Inside
    <3> QED BY <1>2, <3>1, <3>2, <3>3, <3>4
  <2>2. \A q \in Reader \ {r} : rd'[q] = rd[q] /\ id'[q] = id[q]
    BY <1>0, <2>1 DEF TypeOK
  <2>3. RegistryInv'
    <3>1. CASE UNCHANGED <<slots, id>>
      BY <1>0, <2>1, <2>2, <3>1 DEF RegistryInv
    <3>2. CASE id[r] # NoSlot /\ slots' = slots \ {id[r]} /\ id' = [id EXCEPT ![r] = NoSlot]
      <4>1. id'[r] = NoSlot
        BY <1>0, <3>2 DEF TypeOK
      <4> QED BY <1>0, <2>1, <2>2, <3>2, <4>1 DEF RegistryInv
    <3>3. CASE \E free \in Slot \ slots : slots' = slots \cup {free} /\ id' = [id EXCEPT ![r] = free]
      <4>1. PICK free \in Slot \ slots : slots' = slots \cup {free} /\ id'[r] = free
        BY <1>0, <3>3 DEF TypeOK
      <4>2. \A q \in Reader \ {r} : id'[q] # free
        <5>1. free # NoSlot
          BY <4>1 DEF Slot, NoSlot
        <5> QED BY <1>0, <2>2, <4>1, <5>1 DEF RegistryInv
      <4> QED BY <1>0, <2>1, <2>2, <4>1, <4>2 DEF RegistryInv
    <3> QED BY <2>1, <3>1, <3>2, <3>3
  <2>4. EpochInv'
    BY <1>1, <2>1, <2>2, <2>3
  <2> QED BY <2>3, <2>4
<1>3. ASSUME NEW k \in Key, Activate(r, k) PROVE RegistryInv' /\ EpochInv'
  <2>1. /\ rd'[r].pc = "load" /\ rd'[r].epoch = 0
        /\ UNCHANGED <<epoch, writer, announced, slots, id>>
        /\ id[r] # NoSlot /\ active' = [active EXCEPT ![id[r]] = TRUE]
    BY <1>0, <1>3 DEF Activate, Step, Move, registryVars
  <2>2. /\ id[r] \in Slot /\ epoch \in Nat
        /\ active'[id[r]] /\ \A i \in Slot : active[i] => active'[i]
        /\ \A q \in Reader \ {r} : rd'[q] = rd[q]
    BY <1>0, <2>1 DEF TypeOK
  <2>3. RegistryInv'
    BY <1>0, <2>1, <2>2 DEF RegistryInv, TypeOK
  <2>4. EpochInv'
    BY <1>1, <2>1, <2>2, <2>3
  <2> QED BY <2>3, <2>4
<1>4. CASE rd[r].pc \in Inside /\ get(r)
  <2>1. /\ id[r] \in Slot /\ active[id[r]] /\ announced[id[r]] \in 0..epoch /\ epoch \in Nat
        /\ \A q \in Reader : q # r => id[q] # id[r]
        /\ rd[r] \in Call /\ rd[r].epoch \in Nat /\ rd[r].epoch <= epoch /\ id[r] # NoSlot
    BY <1>0, <1>4, SlotOf DEF RegistryInv
  <2>2. ASSUME UNCHANGED <<slots, id>>,
               \A q \in Reader \ {r} : rd[q].pc \in Inside =>
                 announced'[id[q]] = announced[id[q]] /\ active'[id[q]] = active[id[q]],
               rd'[r].pc \in Inside =>
                 /\ active'[id[r]]
                 /\ rd'[r].epoch <= epoch
                 /\ rd'[r].pc = "announce" => announced'[id[r]] <= rd'[r].epoch
                 /\ rd'[r].pc # "load" /\ writer.pc \in {"active", "epoch"} /\ id[r] < writer.slot =>
                      writer.min <= IF rd'[r].pc = "announce" THEN rd'[r].epoch ELSE announced'[id[r]]
        PROVE  RegistryInv' /\ EpochInv'
    <3>1. \A q \in Reader \ {r} : rd'[q] = rd[q]
      BY <1>0, <2>2
    <3>2. RegistryInv'
      BY <1>0, <2>1, <2>2, <3>1 DEF RegistryInv
    <3>3. EpochInv'
      BY <1>1, <2>2, <3>2
    <3> QED BY <3>2, <3>3
  <2>3. rd' \in [Reader -> Locals]
    BY DEF TypeInv
  <2>4. CASE LoadEpoch(r)
    <3>1. rd'[r].pc = "announce" /\ rd'[r].epoch = epoch
      BY <1>0, <2>1, <2>4 DEF LoadEpoch, Step, Move, Call
    <3>3. UNCHANGED <<epoch, writer, slots, id, active, announced>>
      BY <2>4 DEF LoadEpoch, Step, Move, registryVars
    <3>4. writer.pc \in {"active", "epoch"} => writer.min <= epoch
      BY <1>0 DEF EpochInv
    <3> QED BY <2>1, <2>2, <3>1, <3>3, <3>4
  <2>5. CASE Announce(r)
    <3>1. rd'[r].pc = "bucket" /\ rd'[r].epoch = rd[r].epoch
      BY <1>0, <2>1, <2>5 DEF Announce, Step, Move, Call
    <3>3. UNCHANGED <<epoch, writer, slots, id, active>> /\ rd[r].pc = "announce"
      BY <2>5 DEF Announce, Step, Move, registryVars
    <3>4. /\ announced'[id[r]] = rd[r].epoch
          /\ \A q \in Reader \ {r} : rd[q].pc \in Inside => announced'[id[q]] = announced[id[q]]
      <4>1. announced' = [announced EXCEPT ![id[r]] = rd[r].epoch] /\ announced \in [Slot -> 0..epoch]
        BY <1>0, <2>5 DEF Announce, TypeOK
      <4> QED BY <2>1, <4>1, SlotOf
    <3>5. writer.pc \in {"active", "epoch"} /\ id[r] < writer.slot => writer.min <= rd[r].epoch
      BY <1>0, <1>4, <3>3 DEF EpochInv, Guard
    <3> QED BY <2>1, <2>2, <3>1, <3>3, <3>4, <3>5
  <2>6. CASE LoadBucket(r) \/ VisitFound(r) \/ VisitOther(r) \/ LoadNext(r)
    <3>1. rd'[r].pc \in {"visit", "next", "leave"} /\ rd'[r].epoch = rd[r].epoch
      <4>1. CASE LoadBucket(r)
        BY <1>0, <2>1, <4>1 DEF LoadBucket, Step, Move, Call
      <4>2. CASE VisitFound(r)
        BY <1>0, <2>1, <4>2 DEF VisitFound, Step, Move, Call
      <4>3. CASE VisitOther(r)
        BY <1>0, <2>1, <4>3 DEF VisitOther, Step, Move, Call
      <4>4. CASE LoadNext(r)
        BY <1>0, <2>1, <4>4 DEF LoadNext, Step, Move, Call
      <4> QED BY <2>6, <4>1, <4>2, <4>3, <4>4
    <3>3. UNCHANGED <<epoch, writer, slots, id, active, announced>> /\ rd[r].pc \in {"bucket", "visit", "next"}
      BY <2>6 DEF LoadBucket, VisitFound, VisitOther, LoadNext, Step, Move, registryVars
    <3>4. writer.pc \in {"active", "epoch"} /\ id[r] < writer.slot => writer.min <= announced[id[r]]
      BY <1>0, <1>4, <3>3 DEF EpochInv, Guard
    <3> QED BY <2>1, <2>2, <3>1, <3>3, <3>4
  <2>7. CASE Deactivate(r)
    <3>1. rd'[r].pc = "return" /\ rd'[r].pc \notin Inside
      BY <1>0, <2>1, <2>7 DEF Deactivate, Step, Move, Call, Inside
    <3>3. UNCHANGED <<epoch, writer, slots, id, announced>>
      BY <2>7 DEF Deactivate, Step, Move, registryVars
    <3>4. \A q \in Reader \ {r} : rd[q].pc \in Inside => active'[id[q]] = active[id[q]]
      <4>1. active' = [active EXCEPT ![id[r]] = FALSE] /\ active \in [Slot -> BOOLEAN]
        BY <1>0, <2>7 DEF Deactivate, TypeOK
      <4> QED BY <2>1, <4>1, SlotOf
    <3> QED BY <2>2, <3>1, <3>3, <3>4
  <2>8. \/ LoadEpoch(r) \/ Announce(r) \/ Deactivate(r)
        \/ LoadBucket(r) \/ VisitFound(r) \/ VisitOther(r) \/ LoadNext(r)
    BY <1>4 DEF get, LoadSlots, ChooseSlot, NoSlotLeft, Activate, Return, Step, Move, Inside
  <2> QED BY <2>4, <2>5, <2>6, <2>7, <2>8
<1>5. \/ LoadSlots(r) \/ ChooseSlot(r) \/ NoSlotLeft(r) \/ Return(r) \/ EndThread(r)
      \/ \E k \in Key : Activate(r, k)
      \/ rd[r].pc \in Inside /\ get(r)
  BY DEF get, LoadEpoch, Announce, LoadBucket, VisitFound, VisitOther, LoadNext,
     Deactivate, Step, Move, Inside
<1> QED BY <1>2, <1>3, <1>4, <1>5
-----------------------------------------------------------------------------
(***************************************************************************)
(* Readers.                                                                *)
(***************************************************************************)
\* What a step of another leaves of a call of get under way.
Onlooker(r) ==
  /\ rd'[r].pc = rd[r].pc
  /\ rd[r].pc \in Inside \cup {"return"} =>
       /\ rd'[r].key = rd[r].key /\ rd'[r].at = rd[r].at /\ rd'[r].result = rd[r].result
       /\ rd[r].seen \subseteq rd'[r].seen
       /\ contents'[rd[r].key] \in rd'[r].seen
  /\ rd[r].pc \in Inside => id'[r] = id[r] /\ announced'[id[r]] = announced[id[r]]

\* A node stays safe when it stays linked, or is retired now with a value that the
\* call may answer.
LEMMA SafeKept ==
  ASSUME NEW r \in Reader, NEW n \in Allocated, Safe(r, n),
         node'[n].key = node[n].key, node'[n].value = node[n].value,
         rd'[r].key = rd[r].key, rd[r].seen \subseteq rd'[r].seen,
         announced'[id'[r]] = announced[id[r]],
         n \in LinkedNodes =>
           \/ n \in LinkedNodes'
           \/ \E t \in retired' : /\ t.node = n /\ announced[id[r]] <= t.epoch
                                  /\ node[n].key = rd[r].key => node[n].value \in rd'[r].seen,
         \A t \in retired : t.node = n /\ announced[id[r]] <= t.epoch => t \in retired'
  PROVE  Safe(r, n)'
<1>1. CASE n \in LinkedNodes
  BY <1>1 DEF Safe
<1>2. CASE n \notin LinkedNodes
  <2>1. PICK t \in retired : /\ t.node = n /\ announced[id[r]] <= t.epoch
                             /\ node[n].key = rd[r].key => node[n].value \in rd[r].seen
    BY <1>2 DEF Safe
  <2> QED BY <2>1 DEF Safe
<1> QED BY <1>1, <1>2

\* A call that looks on while the walk that it has before it is kept.
LEMMA OnlookerKept ==
  ASSUME IInv, NEW r \in Reader, Onlooker(r),
         ASSUME NEW p \in Allocated, rd[r].pc \in {"visit", "next", "leave"}, rd[r].at = p
         PROVE  /\ p \in Allocated' /\ node'[p].key = node[p].key
                /\ \A n \in Chain(p)' : Safe(r, n)',
         ASSUME NEW p \in Allocated \cup {Null}, rd[r].pc \in {"visit", "next"}, rd[r].at = p,
                NEW n \in Chain(p), node[n].key = rd[r].key
         PROVE  None \in rd'[r].seen \/ \E m \in Chain(p)' : node'[m].key = rd[r].key
  PROVE  ReaderInv(r)'
<1>1. ReaderInv(r)
  BY DEF IInv
<1>2. CASE rd[r].pc \notin {"visit", "next", "leave"}
  BY <1>1, <1>2 DEF ReaderInv, Onlooker, Inside
<1>3. CASE rd[r].pc \in {"visit", "next", "leave"}
  <2>1. PICK p \in Allocated \cup {Null} : p = rd[r].at
    BY <1>1, <1>3 DEF ReaderInv
  <2>2. rd'[r].at = p /\ rd'[r].key = rd[r].key /\ rd'[r].pc = rd[r].pc /\ Chain(rd[r].at)' = Chain(p)'
    BY <1>3, <2>1, ChainNext DEF Onlooker, Inside
  <2>3. ASSUME p # Null
        PROVE  /\ p \in Allocated'
               /\ Hash[node'[p].key] = Hash[rd[r].key] /\ node'[p].key = node[p].key
               /\ \A n \in Chain(p)' : Safe(r, n)'
    BY <1>1, <1>3, <2>1, <2>3 DEF ReaderInv
  <2>4. ASSUME rd[r].pc \in {"visit", "next"}
        PROVE  None \in rd'[r].seen \/ \E m \in Chain(p)' : node'[m].key = rd[r].key
    <3>1. CASE None \in rd[r].seen
      BY <2>4, <3>1 DEF Onlooker, Inside
    <3>2. CASE None \notin rd[r].seen
      <4>1. PICK n \in Chain(p) : node[n].key = rd[r].key
        BY <1>1, <2>1, <2>4, <3>2 DEF ReaderInv
      <4> QED BY <2>1, <2>4, <4>1
    <3> QED BY <3>1, <3>2
  <2>5. /\ contents'[rd'[r].key] \in rd'[r].seen
        /\ rd[r].pc = "leave" => rd'[r].result \in rd'[r].seen
        /\ rd[r].pc \in {"visit", "next"} => rd'[r].result = None
        /\ rd[r].pc = "next" => p # Null /\ node[p].key # rd[r].key
    BY <1>1, <1>3, <2>1 DEF ReaderInv, Onlooker, Inside
  <2> QED BY <1>3, <2>2, <2>3, <2>4, <2>5 DEF ReaderInv
<1> QED BY <1>2, <1>3

\* Steps that neither link a node nor unlink or delete one.
LEMMA OnlookerStays ==
  ASSUME IInv, NEW r \in Reader, Onlooker(r), DeleteEffect({}), retired' = retired
  PROVE  ReaderInv(r)'
<1>0. HeapType /\ HeapInv /\ ReaderInv(r)
  BY HeapTyped DEF IInv
<1>1. /\ LinkedNodes' = LinkedNodes /\ Allocated' = Allocated
      /\ \A n \in Allocated : node'[n].key = node[n].key /\ node'[n].value = node[n].value
      /\ \A p \in Allocated \cup {Null} : Chain(p)' = Chain(p) /\ Chain(p) \subseteq Allocated
  BY <1>0, ChainIn DEF DeleteEffect, SameData
<1>2. ASSUME NEW p \in Allocated, rd[r].pc \in {"visit", "next", "leave"}, rd[r].at = p
      PROVE  /\ p \in Allocated' /\ node'[p].key = node[p].key
             /\ \A n \in Chain(p)' : Safe(r, n)'
  <2>1. \A n \in Chain(p) : Safe(r, n)
    BY <1>0, <1>2, NullNode, NodeIs DEF ReaderInv
  <2>2. /\ rd'[r].key = rd[r].key /\ rd[r].seen \subseteq rd'[r].seen
        /\ announced'[id'[r]] = announced[id[r]]
    BY <1>2 DEF Onlooker, Inside
  <2> QED BY <1>1, <1>2, <2>1, <2>2, SafeKept
<1>3. ASSUME NEW p \in Allocated \cup {Null}, rd[r].pc \in {"visit", "next"}, rd[r].at = p,
             NEW n \in Chain(p), node[n].key = rd[r].key
      PROVE  None \in rd'[r].seen \/ \E m \in Chain(p)' : node'[m].key = rd[r].key
  BY <1>1, <1>3
<1> QED BY <1>2, <1>3, OnlookerKept

LEMMA OnlookerHead ==
  ASSUME IInv, NEW r \in Reader, Onlooker(r), NEW k, NEW v, NEW i, NEW new,
         HeadEffect(k, v, i, new), retired' = retired
  PROVE  ReaderInv(r)'
<1>0. HeapType /\ HeapInv /\ ReaderInv(r)
  BY HeapTyped DEF IInv
<1>1. /\ LinkedNodes \subseteq LinkedNodes' /\ Allocated \subseteq Allocated'
      /\ \A n \in Allocated : node'[n].key = node[n].key /\ node'[n].value = node[n].value
      /\ \A p \in Allocated \cup {Null} : Chain(p)' = Chain(p) /\ Chain(p) \subseteq Allocated
  BY <1>0, ChainIn DEF HeadEffect, SameData
<1>2. ASSUME NEW p \in Allocated, rd[r].pc \in {"visit", "next", "leave"}, rd[r].at = p
      PROVE  /\ p \in Allocated' /\ node'[p].key = node[p].key
             /\ \A n \in Chain(p)' : Safe(r, n)'
  <2>1. \A n \in Chain(p) : Safe(r, n)
    BY <1>0, <1>2, NullNode, NodeIs DEF ReaderInv
  <2>2. /\ rd'[r].key = rd[r].key /\ rd[r].seen \subseteq rd'[r].seen
        /\ announced'[id'[r]] = announced[id[r]]
    BY <1>2 DEF Onlooker, Inside
  <2> QED BY <1>1, <1>2, <2>1, <2>2, SafeKept
<1>3. ASSUME NEW p \in Allocated \cup {Null}, rd[r].pc \in {"visit", "next"}, rd[r].at = p,
             NEW n \in Chain(p), node[n].key = rd[r].key
      PROVE  None \in rd'[r].seen \/ \E m \in Chain(p)' : node'[m].key = rd[r].key
  BY <1>1, <1>3
<1> QED BY <1>2, <1>3, OnlookerKept

\* A node that is retired in this epoch, with the value that the map had.
LEMMA OnlookerRetire ==
  ASSUME IInv, NEW r \in Reader, Onlooker(r), NEW old \in LinkedNodes,
         rd[r].pc \in {"visit", "next", "leave"},
         LinkedNodes \ {old} \subseteq LinkedNodes', Allocated \subseteq Allocated',
         SameData(Allocated),
         retired' = retired \cup {[node |-> old, epoch |-> epoch]},
         NEW p \in Allocated, rd[r].at = p, Chain(p)' \subseteq Chain(p) \cup LinkedNodes'
  PROVE  /\ p \in Allocated' /\ node'[p].key = node[p].key
         /\ \A n \in Chain(p)' : Safe(r, n)'
<1>0. HeapType /\ HeapInv /\ ReaderInv(r)
  BY HeapTyped DEF IInv
<1>1. \A n \in Chain(p) : Safe(r, n) /\ n \in Allocated
  BY <1>0, NullNode, NodeIs, ChainIn DEF ReaderInv
<1>2. /\ rd'[r].key = rd[r].key /\ rd[r].seen \subseteq rd'[r].seen
      /\ announced'[id'[r]] = announced[id[r]]
  BY DEF Onlooker, Inside
<1>3. announced[id[r]] <= epoch
  BY SlotOf DEF Inside
<1>4. node[old].key = rd[r].key => node[old].value \in rd[r].seen
  BY <1>0 DEF ReaderInv, IInv, MapInv, Inside
<1>5. ASSUME NEW n \in Chain(p)', n \notin LinkedNodes' PROVE Safe(r, n)'
  <2>1. n \in Allocated /\ Safe(r, n) /\ node'[n].key = node[n].key /\ node'[n].value = node[n].value
    BY <1>1, <1>5 DEF SameData
  <2>2. PICK t \in retired' : t.node = old /\ t.epoch = epoch
    <3> DEFINE x == [node |-> old, epoch |-> epoch]
    <3>1. x \in retired' /\ x.node = old /\ x.epoch = epoch
      OBVIOUS
    <3> HIDE DEF x
    <3> QED BY <3>1
  <2>3. n \in LinkedNodes => n = old
    BY <1>5
  <2> QED BY <1>2, <1>3, <1>4, <2>1, <2>2, <2>3, SafeKept
<1>6. \A n \in LinkedNodes' : Safe(r, n)'
  BY DEF Safe
<1> QED BY <1>5, <1>6 DEF SameData

LEMMA OnlookerReplace ==
  ASSUME IInv, NEW r \in Reader, Onlooker(r), NEW k, NEW v, NEW old, NEW new,
         ReplaceEffect(k, v, old, new),
         retired' = retired \cup {[node |-> old, epoch |-> epoch]}
  PROVE  ReaderInv(r)'
<1>0. HeapType /\ HeapInv /\ ReaderInv(r)
  BY HeapTyped DEF IInv
<1>1. /\ LinkedNodes' = (LinkedNodes \ {old}) \cup {new} /\ Allocated \subseteq Allocated'
      /\ old \in LinkedNodes /\ SameData(Allocated) /\ node[old].key = k /\ node'[new].key = k
      /\ old \in Allocated
      /\ \A p \in Allocated \cup {Null} :
           /\ Chain(p) \ {old} \subseteq Chain(p)'
           /\ old \in Chain(p) => Chain(p)' \cap {old, new} # {}
           /\ Chain(p)' \subseteq Chain(p) \cup {new} /\ Chain(p) \subseteq Allocated
  BY <1>0, ChainIn, LinkedIn DEF ReplaceEffect
<1>2. ASSUME NEW p \in Allocated, rd[r].pc \in {"visit", "next", "leave"}, rd[r].at = p
      PROVE  /\ p \in Allocated' /\ node'[p].key = node[p].key
             /\ \A n \in Chain(p)' : Safe(r, n)'
  BY <1>1, <1>2, OnlookerRetire
<1>3. ASSUME NEW p \in Allocated \cup {Null}, rd[r].pc \in {"visit", "next"}, rd[r].at = p,
             NEW n \in Chain(p), node[n].key = rd[r].key
      PROVE  None \in rd'[r].seen \/ \E m \in Chain(p)' : node'[m].key = rd[r].key
  <2>1. CASE n = old
    <3>1. node'[old].key = k
      BY <1>1 DEF SameData
    <3> QED BY <1>1, <1>3, <2>1, <3>1
  <2>2. CASE n # old
    BY <1>1, <1>3, <2>2 DEF SameData
  <2> QED BY <2>1, <2>2
<1> QED BY <1>2, <1>3, OnlookerKept

LEMMA OnlookerUnlink ==
  ASSUME IInv, NEW r \in Reader, Onlooker(r), NEW v, RemoveEffect(v),
         contents' = [contents EXCEPT ![node[v].key] = None],
         retired' = retired \cup {[node |-> v, epoch |-> epoch]}
  PROVE  ReaderInv(r)'
<1>0. HeapType /\ HeapInv /\ ReaderInv(r) /\ TypeOK
  BY HeapTyped DEF IInv, TypeInv
<1>1. /\ LinkedNodes' = LinkedNodes \ {v} /\ Allocated' = Allocated
      /\ v \in LinkedNodes /\ SameData(Allocated) /\ v \in Allocated /\ node[v].key \in Key
      /\ \A p \in Allocated \cup {Null} :
           Chain(p) \ {v} \subseteq Chain(p)' /\ Chain(p)' \subseteq Chain(p) /\ Chain(p) \subseteq Allocated
  BY <1>0, ChainIn, LinkedIn, NodeIs DEF RemoveEffect
<1>2. ASSUME NEW p \in Allocated, rd[r].pc \in {"visit", "next", "leave"}, rd[r].at = p
      PROVE  /\ p \in Allocated' /\ node'[p].key = node[p].key
             /\ \A n \in Chain(p)' : Safe(r, n)'
  BY <1>1, <1>2, OnlookerRetire
<1>3. ASSUME NEW p \in Allocated \cup {Null}, rd[r].pc \in {"visit", "next"}, rd[r].at = p,
             NEW n \in Chain(p), node[n].key = rd[r].key
      PROVE  None \in rd'[r].seen \/ \E m \in Chain(p)' : node'[m].key = rd[r].key
  <2>1. CASE n = v
    <3>1. contents'[rd[r].key] = None
      BY <1>0, <1>1, <1>3, <2>1 DEF TypeOK
    <3> QED BY <1>3, <3>1 DEF Onlooker, Inside
  <2>2. CASE n # v
    BY <1>1, <1>3, <2>2 DEF SameData
  <2> QED BY <2>1, <2>2
<1> QED BY <1>2, <1>3, OnlookerKept

\* What is deleted was retired before the epoch that the call has announced.
LEMMA OnlookerDelete ==
  ASSUME IInv, NEW r \in Reader, Onlooker(r), Delete
  PROVE  ReaderInv(r)'
<1> DEFINE old == {t \in retired : t.epoch < writer.min}
           D == {t.node : t \in old}
<1>0. HeapType /\ HeapInv /\ ReaderInv(r) /\ TypeInv /\ TypeOK
  BY HeapTyped DEF IInv, TypeInv
<1>1. /\ DeleteEffect(D) /\ retired' = retired \ old
      /\ writer.pc = "active" /\ writer.slot > MaxReaders
  BY DeleteStep
<1>2. ASSUME rd[r].pc \in {"visit", "next", "leave"}, NEW t \in retired, announced[id[r]] <= t.epoch
      PROVE  t \notin old
  <2>1. id[r] \in Slot /\ announced[id[r]] \in 0..epoch
    BY <1>2, SlotOf DEF Inside
  <2>2. writer \in [pc : {"active", "epoch"}, slot : 1..(MaxReaders + 1), min : Int]
    BY <1>0, <1>1, WritingIs DEF TypeInv
  <2>3. id[r] < writer.slot
    BY <1>1, <2>1, <2>2 DEF Slot
  <2>4. writer.min <= announced[id[r]]
    BY <1>1, <1>2, <2>3 DEF IInv, EpochInv, Guard, Inside
  <2>5. t.epoch \in Int /\ writer.min \in Int
    BY <1>0, <2>2 DEF TypeOK
  <2> QED BY <1>2, <2>1, <2>4, <2>5
<1>3. \A t \in retired : t.node \in D => t \in old
  BY DEF IInv, RetiredInv
<1>4. D \cap LinkedNodes = {}
  BY DEF IInv, RetiredInv
<1> HIDE DEF old, D
<1>5. /\ LinkedNodes' = LinkedNodes /\ Allocated' = Allocated \ D
      /\ \A n \in Allocated' : node'[n].key = node[n].key /\ node'[n].value = node[n].value
      /\ \A p \in Allocated' \cup {Null} : Chain(p)' = Chain(p)
      /\ \A p \in Allocated \cup {Null} : Chain(p) \subseteq Allocated /\ p \in Chain(p) \cup {Null}
  BY <1>0, <1>1, ChainIn DEF DeleteEffect, SameData
<1>6. ASSUME NEW p \in Allocated, rd[r].pc \in {"visit", "next", "leave"}, rd[r].at = p,
             NEW n \in Chain(p)
      PROVE  Safe(r, n) /\ n \in Allocated'
  <2>1. Safe(r, n)
    BY <1>0, <1>6, NullNode, NodeIs DEF ReaderInv
  <2>2. CASE n \in LinkedNodes
    BY <1>4, <1>5, <1>6, <2>1, <2>2
  <2>3. CASE n \notin LinkedNodes
    <3>1. PICK t \in retired : t.node = n /\ announced[id[r]] <= t.epoch
      BY <2>1, <2>3 DEF Safe
    <3>2. n \notin D
      BY <1>2, <1>3, <1>6, <3>1
    <3> QED BY <1>5, <1>6, <2>1, <3>2
  <2> QED BY <2>2, <2>3
<1>7. ASSUME NEW p \in Allocated, rd[r].pc \in {"visit", "next", "leave"}, rd[r].at = p
      PROVE  p \in Allocated' /\ Chain(p)' = Chain(p)
  <2>1. p \in Chain(p)
    BY <1>0, <1>5, NullNode, NodeIs
  <2> QED BY <1>5, <1>6, <1>7, <2>1
<1>8. ASSUME NEW p \in Allocated, rd[r].pc \in {"visit", "next", "leave"}, rd[r].at = p
      PROVE  /\ p \in Allocated' /\ node'[p].key = node[p].key
             /\ \A n \in Chain(p)' : Safe(r, n)'
  <2>1. /\ rd'[r].key = rd[r].key /\ rd[r].seen \subseteq rd'[r].seen
        /\ announced'[id'[r]] = announced[id[r]]
    BY <1>8 DEF Onlooker, Inside
  <2>2. ASSUME NEW n \in Chain(p) PROVE Safe(r, n)'
    <3>1. Safe(r, n) /\ n \in Allocated' /\ n \in Allocated
      BY <1>5, <1>6, <1>8, <2>2
    <3>2. \A t \in retired : t.node = n /\ announced[id[r]] <= t.epoch => t \in retired'
      BY <1>1, <1>2, <1>8
    <3> QED BY <1>5, <2>1, <3>1, <3>2, SafeKept
  <2> QED BY <1>5, <1>7, <1>8, <2>2
<1>9. ASSUME NEW p \in Allocated \cup {Null}, rd[r].pc \in {"visit", "next"}, rd[r].at = p,
             NEW n \in Chain(p), node[n].key = rd[r].key
      PROVE  None \in rd'[r].seen \/ \E m \in Chain(p)' : node'[m].key = rd[r].key
  <2>1. CASE p = Null
    BY <1>0, <1>9, <2>1, ChainIn
  <2>2. CASE p # Null
    <3>1. n \in Allocated' /\ Chain(p)' = Chain(p)
      BY <1>6, <1>7, <1>9, <2>2
    <3> QED BY <1>5, <1>9, <3>1
  <2> QED BY <2>1, <2>2
<1> QED BY <1>8, <1>9, OnlookerKept

\* The steps of put.
LEMMA ReadersPut ==
  ASSUME IInv, TypeInv', put, NEW r \in Reader
  PROVE  ReaderInv(r)'
<1>0. TypeInv /\ HeapType /\ HeapInv /\ contents' \in [Key -> Value \cup {None}] /\ ReaderInv(r)
  BY HeapTyped DEF IInv, TypeInv, TypeOK
<1>1. ASSUME Observe(contents'), UNCHANGED <<announced, id>> PROVE Onlooker(r)
  BY <1>0, <1>1, Observed DEF Onlooker
<1>2. ASSUME UNCHANGED <<contents, rd, announced, id>> PROVE Onlooker(r)
  BY <1>0, <1>2 DEF Onlooker, ReaderInv
<1>3. ASSUME NEW k \in Key, PutReplace(k) PROVE ReaderInv(r)'
  <2>1. Onlooker(r)
    BY <1>1, <1>3 DEF PutReplace, Set, registryVars
  <2>2. PICK old, new : /\ ReplaceEffect(k, puts', old, new)
                        /\ retired' = retired \cup {[node |-> old, epoch |-> epoch]}
    BY <1>3, ReplaceStep
  <2>3. PICK v : v = puts'
    OBVIOUS
  <2> QED BY <2>1, <2>2, <2>3, OnlookerReplace
<1>4. ASSUME NEW k \in Key, PutInsert(k) PROVE ReaderInv(r)'
  <2>1. Onlooker(r) /\ retired' = retired
    BY <1>1, <1>4 DEF PutInsert, LinkHead, Set, registryVars
  <2>2. PICK new : HeadEffect(k, puts', Len(clock) + 1, new)
    BY <1>4, InsertStep
  <2>3. PICK v, i : v = puts' /\ i = Len(clock) + 1
    OBVIOUS
  <2> QED BY <2>1, <2>2, <2>3, OnlookerHead
<1>5. ASSUME NEW k \in Key, PutFull(k) PROVE ReaderInv(r)'
  <2>1. UNCHANGED <<node, bucket, retired, contents, rd, announced, id>>
    BY <1>5 DEF PutFull, heapVars, readerVars, registryVars
  <2> QED BY <1>0, <1>2, <2>1, HeapStays, OnlookerStays
<1>6. CASE Sweep
  <2>1. UNCHANGED <<retired, contents, rd, announced, id>>
    BY <1>6 DEF Sweep, readerVars, registryVars
  <2> QED BY <1>2, <1>6, <2>1, SweepStep, OnlookerStays
<1>7. CASE Unlink
  <2>1. Onlooker(r)
    BY <1>1, <1>7 DEF Unlink, Set, registryVars
  <2>2. PICK v : v = clock[hand]
    OBVIOUS
  <2>3. /\ RemoveEffect(v) /\ contents' = [contents EXCEPT ![node[v].key] = None]
        /\ retired' = retired \cup {[node |-> v, epoch |-> epoch]}
    BY <1>7, <2>2, UnlinkStep
  <2> QED BY <2>1, <2>3, OnlookerUnlink
<1>8. CASE Link
  <2>1. Onlooker(r) /\ retired' = retired
    BY <1>1, <1>8 DEF Link, LinkHead, Set, registryVars
  <2>2. PICK new : HeadEffect(writer.key, puts, hand, new)
    BY <1>8, LinkStep
  <2>3. PICK k, v, i : k = writer.key /\ v = puts /\ i = hand
    OBVIOUS
  <2> QED BY <2>1, <2>2, <2>3, OnlookerHead
<1>9. CASE AdvanceEpoch \/ LoadActive \/ LoadAnnounced
  <2>1. UNCHANGED <<node, bucket, retired, contents, rd, announced, id>>
    BY <1>9, TypeReclaim
  <2> QED BY <1>0, <1>2, <2>1, HeapStays, OnlookerStays
<1>10. CASE Delete
  <2>1. UNCHANGED <<contents, rd, announced, id>>
    BY <1>10, DeleteStep
  <2> QED BY <1>2, <1>10, <2>1, OnlookerDelete
<1> QED BY <1>3, <1>4, <1>5, <1>6, <1>7, <1>8, <1>9, <1>10 DEF put

\* A step of a reader changes nothing in the heap but a mark.
LEMMA GetHeap ==
  ASSUME IInv, NEW r \in Reader, get(r) \/ EndThread(r)
  PROVE  DeleteEffect({})
<1>0. TypeInv /\ HeapType /\ HeapInv /\ ReaderInv(r) /\ bucket' = bucket
  BY HeapTyped, ReaderMoves DEF IInv
<1>1. CASE VisitFound(r)
  <2>1. PICK n \in Allocated : n = rd[r].at
    BY <1>0, <1>1 DEF VisitFound, Found, ReaderInv
  <2>2. node' = [node EXCEPT ![n].referenced = TRUE]
    BY <1>1, <2>1 DEF VisitFound
  <2> QED BY <1>0, <2>2, MarkHeap
<1>2. CASE ~VisitFound(r)
  <2>1. UNCHANGED <<node, bucket>>
    BY <1>0, <1>2 DEF get, LoadSlots, ChooseSlot, NoSlotLeft, EndThread, Activate,
       LoadEpoch, Announce,
                      LoadBucket, VisitOther, LoadNext, Deactivate, Return
  <2> QED BY <1>0, <2>1, HeapStays
<1> QED BY <1>1, <1>2

\* The steps of the reader itself.
LEMMA ReadersGet ==
  ASSUME IInv, TypeInv', NEW r \in Reader, get(r) \/ EndThread(r), NEW q \in Reader
  PROVE  ReaderInv(q)'
<1>0. /\ TypeInv /\ TypeOK /\ HeapType /\ HeapInv /\ ReaderInv(r) /\ ReaderInv(q)
      /\ rd \in [Reader -> Locals] /\ rd' \in [Reader -> Locals]
      /\ MapInv
      /\ \A s \in Reader \ {r} : rd'[s] = rd[s]
      /\ UNCHANGED <<bucket, contents, retired>>
      /\ DeleteEffect({})
  BY HeapTyped, ReaderMoves, GetHeap DEF IInv, TypeInv
<1>1. CASE q # r
  <2>1. rd[q].pc \in Inside => id'[q] = id[q] /\ announced'[id[q]] = announced[id[q]]
    <3> SUFFICES ASSUME rd[q].pc \in Inside PROVE id'[q] = id[q] /\ announced'[id[q]] = announced[id[q]]
      OBVIOUS
    <3>1. id[q] \in Slot /\ id[r] # id[q] /\ id \in [Reader -> Slot \cup {NoSlot}]
          /\ announced \in [Slot -> 0..epoch]
      BY <1>0, <1>1, SlotOf DEF TypeOK
    <3>2. id' = id \/ \E i : id' = [id EXCEPT ![r] = i]
      BY DEF get, LoadSlots, ChooseSlot, TakeSlot, NoSlotLeft, EndThread, Activate,
         LoadEpoch, Announce,
             LoadBucket, VisitFound, VisitOther, LoadNext, Deactivate, Return, Step, registryVars
    <3>3. announced' = announced \/ \E e : announced' = [announced EXCEPT ![id[r]] = e]
      BY DEF get, LoadSlots, ChooseSlot, NoSlotLeft, EndThread, Activate, LoadEpoch,
         Announce,
             LoadBucket, VisitFound, VisitOther, LoadNext, Deactivate, Return
    <3> QED BY <1>1, <3>1, <3>2, <3>3
  <2>2. Onlooker(q)
    BY <1>0, <1>1, <2>1 DEF Onlooker, ReaderInv
  <2> QED BY <1>0, <2>2, OnlookerStays
<1>2. CASE q = r
  <2> SUFFICES ReaderInv(r)'
    BY <1>2
  <2>1. CASE LoadSlots(r) \/ ChooseSlot(r) \/ NoSlotLeft(r) \/ Return(r) \/ EndThread(r)
    <3>1. rd'[r].pc \in {"idle", "register"}
      <4>1. CASE LoadSlots(r) \/ NoSlotLeft(r) \/ Return(r) \/ EndThread(r)
        BY <1>0, <4>1 DEF LoadSlots, NoSlotLeft, Return, EndThread, Step, Move
      <4>2. CASE ChooseSlot(r)
        <5>1. PICK free \in Slot \ rd[r].current : TakeSlot(r, free)
          BY <4>2 DEF ChooseSlot
        <5>2. rd[r] \in [pc : {"register"}, current : SUBSET Slot]
          BY <1>0, <4>2 DEF ChooseSlot, Locals, Call, Inside
        <5> QED BY <1>0, <5>1, <5>2 DEF TakeSlot, Step, Move
      <4> QED BY <2>1, <4>1, <4>2
    <3> QED BY <3>1 DEF ReaderInv, Inside
  <2>2. ASSUME NEW k \in Key, Activate(r, k) PROVE ReaderInv(r)'
    <3>1. /\ rd'[r].pc = "load" /\ rd'[r].key = k /\ rd'[r].at = Null /\ rd'[r].result = None
          /\ rd'[r].seen = {contents[k]}
      BY <1>0, <2>2 DEF Activate, Step, Move
    <3> QED BY <1>0, <3>1 DEF ReaderInv
  <2>3. CASE rd[r].pc \in Inside /\ get(r)
    <3>0. /\ rd[r] \in Call /\ rd[r].key \in Key /\ rd[r].seen \subseteq Value \cup {None}
          /\ contents[rd[r].key] \in rd[r].seen
      BY <1>0, <2>3, LocalsIs DEF ReaderInv
    <3>1. CASE LoadEpoch(r)
      <4>1. /\ rd[r].pc = "load" /\ rd'[r].pc = "announce" /\ rd'[r].key = rd[r].key
            /\ rd'[r].at = rd[r].at /\ rd'[r].result = rd[r].result /\ rd'[r].seen = rd[r].seen
        BY <1>0, <3>0, <3>1 DEF LoadEpoch, Step, Move, Call
      <4> QED BY <1>0, <3>0, <4>1 DEF ReaderInv, Inside
    <3>2. CASE Announce(r)
      <4>1. /\ rd[r].pc = "announce" /\ rd'[r].pc = "bucket" /\ rd'[r].key = rd[r].key
            /\ rd'[r].at = rd[r].at /\ rd'[r].result = rd[r].result /\ rd'[r].seen = rd[r].seen
        BY <1>0, <3>0, <3>2 DEF Announce, Step, Move, Call
      <4> QED BY <1>0, <3>0, <4>1 DEF ReaderInv, Inside
    <3>3. CASE Deactivate(r)
      <4>1. /\ rd[r].pc = "leave" /\ rd'[r].pc = "return" /\ rd'[r].key = rd[r].key
            /\ rd'[r].at = Null /\ rd'[r].result = rd[r].result /\ rd'[r].seen = rd[r].seen
        BY <1>0, <3>0, <3>3 DEF Deactivate, Step, Move, Call
      <4> QED BY <1>0, <3>0, <4>1 DEF ReaderInv, Inside
    \* The steps along the chain.
    <3>4. /\ LinkedNodes' = LinkedNodes /\ Allocated' = Allocated /\ Allocated \subseteq Node
          /\ \A n \in Allocated : node'[n].key = node[n].key /\ node'[n].value = node[n].value
          /\ \A p \in Allocated \cup {Null} : Chain(p)' = Chain(p) /\ Chain(p) \subseteq Allocated
      BY <1>0, ChainIn, NodeIs DEF DeleteEffect, SameData
    <3>5. ASSUME NEW p \in Allocated \cup {Null},
                 rd'[r].at = p, rd'[r].key = rd[r].key, rd'[r].seen = rd[r].seen,
                 UNCHANGED <<announced, id>>,
                 rd'[r].pc \in {"visit", "next", "leave"},
                 p # Null => Hash[node[p].key] = Hash[rd[r].key] /\ \A n \in Chain(p) : Safe(r, n),
                 IF rd'[r].pc = "leave" THEN rd'[r].result \in rd[r].seen
                 ELSE /\ rd'[r].result = None
                      /\ None \in rd[r].seen \/ \E n \in Chain(p) : node[n].key = rd[r].key,
                 rd'[r].pc = "next" => p # Null /\ node[p].key # rd[r].key
          PROVE  ReaderInv(r)'
      <4>1. Chain(rd[r].at)' = Chain(p)
        <5>1. Chain(rd[r].at)' = Chain(p)'
          BY <3>5, ChainNext
        <5> QED BY <3>4, <5>1
      <4>2. p # Null => \A n \in Chain(p) : Safe(r, n)'
        BY <1>0, <3>4, <3>5, SafeKept
      <4>3. \A n \in Chain(p) : node'[n].key = node[n].key
        BY <3>4
      <4> QED BY <1>0, <3>0, <3>4, <3>5, <4>1, <4>2, <4>3 DEF ReaderInv, Inside
    <3>6. CASE LoadBucket(r)
      <4>1. /\ rd[r].pc = "bucket" /\ rd'[r].pc = "visit" /\ rd'[r].key = rd[r].key
            /\ rd'[r].at = bucket[Hash[rd[r].key]] /\ rd'[r].result = rd[r].result
            /\ rd'[r].seen = rd[r].seen /\ UNCHANGED <<announced, id>>
        BY <1>0, <3>0, <3>6 DEF LoadBucket, Step, Move, Call, registryVars
      <4>2. PICK b \in Bucket : b = Hash[rd[r].key]
        BY <3>0
      <4>3. PICK p \in Allocated \cup {Null} : p = bucket[b] /\ (p # Null => Hash[node[p].key] = b)
        BY <1>0 DEF HeapInv
      <4>4. Chain(p) = Linked(b) /\ \A n \in Linked(b) : n \in LinkedNodes
        BY <1>0, <4>3, LinkedIn DEF Linked
      <4>5. contents[rd[r].key] # None => \E n \in Chain(p) : node[n].key = rd[r].key
        BY <1>0, <3>0, <4>2, <4>4, LinkedIn DEF MapInv
      <4>6. None \in rd[r].seen \/ \E n \in Chain(p) : node[n].key = rd[r].key
        BY <3>0, <4>5
      <4>7. rd[r].result = None
        BY <1>0, <4>1 DEF ReaderInv
      <4> QED BY <3>5, <4>1, <4>2, <4>3, <4>4, <4>6, <4>7 DEF Safe
    \* The walk has come to a node.
    <3>7. ASSUME rd[r].pc \in {"visit", "next"}, rd[r].at # Null
          PROVE  /\ rd[r].at \in Allocated /\ Hash[node[rd[r].at].key] = Hash[rd[r].key]
                 /\ Chain(rd[r].at) = {rd[r].at} \cup Chain(node[rd[r].at].next)
                 /\ \A n \in Chain(rd[r].at) : Safe(r, n)
      BY <1>0, <3>7, ChainIn DEF ReaderInv
    <3>8. CASE VisitFound(r)
      <4>1. /\ rd[r].pc = "visit" /\ rd'[r].pc = "leave" /\ rd'[r].key = rd[r].key
            /\ rd'[r].at = rd[r].at /\ rd'[r].result = node[rd[r].at].value
            /\ rd'[r].seen = rd[r].seen /\ UNCHANGED <<announced, id>>
            /\ rd[r].at # Null /\ node[rd[r].at].key = rd[r].key
        BY <1>0, <3>0, <3>8 DEF VisitFound, Found, Step, Move, Call, registryVars
      <4>2. PICK p \in Allocated : p = rd[r].at
        BY <3>7, <4>1
      <4>3. Safe(r, p)
        BY <3>7, <4>1, <4>2
      <4>4. node[p].value \in rd[r].seen
        <5>1. CASE p \in LinkedNodes
          BY <1>0, <3>0, <4>1, <4>2, <5>1 DEF MapInv
        <5>2. CASE p \notin LinkedNodes
          BY <4>1, <4>2, <4>3, <5>2 DEF Safe
        <5> QED BY <5>1, <5>2
      <4> QED BY <3>5, <3>7, <4>1, <4>2, <4>4
    <3>9. CASE VisitOther(r) /\ rd[r].at # Null
      <4>1. /\ rd[r].pc = "visit" /\ rd'[r].pc = "next" /\ rd'[r].key = rd[r].key
            /\ rd'[r].at = rd[r].at /\ rd'[r].result = rd[r].result
            /\ rd'[r].seen = rd[r].seen /\ UNCHANGED <<announced, id>>
            /\ node[rd[r].at].key # rd[r].key
        BY <1>0, <3>0, <3>9 DEF VisitOther, Found, Step, Move, Call, registryVars
      <4>2. PICK p \in Allocated : p = rd[r].at
        BY <3>7, <3>9, <4>1
      <4>3. /\ rd[r].result = None
            /\ None \in rd[r].seen \/ \E n \in Chain(p) : node[n].key = rd[r].key
        BY <1>0, <4>1, <4>2 DEF ReaderInv
      <4> QED BY <3>5, <3>7, <3>9, <4>1, <4>2, <4>3
    <3>10. CASE VisitOther(r) /\ rd[r].at = Null
      <4>1. /\ rd[r].pc = "visit" /\ rd'[r].pc = "leave" /\ rd'[r].key = rd[r].key
            /\ rd'[r].at = Null /\ rd'[r].result = rd[r].result
            /\ rd'[r].seen = rd[r].seen /\ UNCHANGED <<announced, id>>
        BY <1>0, <3>0, <3>10 DEF VisitOther, Found, Step, Move, Call, registryVars
      <4>2. Chain(Null) = {}
        BY <1>0, ChainIn
      <4>3. rd[r].result = None /\ None \in rd[r].seen
        BY <1>0, <3>10, <4>1, <4>2 DEF ReaderInv
      <4> QED BY <3>5, <4>1, <4>3
    <3>11. CASE LoadNext(r)
      <4>1. /\ rd[r].pc = "next" /\ rd'[r].pc = "visit" /\ rd'[r].key = rd[r].key
            /\ rd'[r].at = node[rd[r].at].next /\ rd'[r].result = rd[r].result
            /\ rd'[r].seen = rd[r].seen /\ UNCHANGED <<announced, id>>
        BY <1>0, <3>0, <3>11 DEF LoadNext, Step, Move, Call, registryVars
      <4>2. PICK m \in Allocated : m = rd[r].at /\ node[m].key # rd[r].key
        BY <1>0, <3>7, <4>1 DEF ReaderInv
      <4>3. PICK p \in Allocated \cup {Null} : p = node[m].next
        <5>1. NextOf[m] \in Allocated \cup {Null} /\ NextOf[m] = node[m].next
          BY <1>0, <3>4 DEF HeapInv, Shut, NextOf
        <5> QED BY <5>1
      <4>4. Chain(m) = {m} \cup Chain(p) /\ \A n \in Chain(m) : Safe(r, n)
        BY <1>0, <3>4, <3>7, <4>1, <4>2, <4>3, NullNode
      <4>5. p # Null => Hash[node[p].key] = Hash[rd[r].key]
        BY <1>0, <3>4, <3>7, <4>1, <4>2, <4>3, NullNode DEF HeapInv
      <4>6. /\ rd[r].result = None
            /\ None \in rd[r].seen \/ \E n \in Chain(p) : node[n].key = rd[r].key
        BY <1>0, <4>1, <4>2, <4>4 DEF ReaderInv
      <4> QED BY <3>5, <4>1, <4>2, <4>3, <4>4, <4>5, <4>6
    <3>12. \/ LoadEpoch(r) \/ Announce(r) \/ Deactivate(r)
           \/ LoadBucket(r) \/ VisitFound(r) \/ VisitOther(r) \/ LoadNext(r)
      BY <2>3 DEF get, LoadSlots, ChooseSlot, NoSlotLeft, Activate, Return, Step, Move,
         Inside
    <3> QED BY <3>1, <3>2, <3>3, <3>6, <3>8, <3>9, <3>10, <3>11, <3>12
  <2>4. \/ LoadSlots(r) \/ ChooseSlot(r) \/ NoSlotLeft(r) \/ Return(r) \/ EndThread(r)
        \/ \E k \in Key : Activate(r, k)
        \/ rd[r].pc \in Inside /\ get(r)
    BY DEF get, LoadEpoch, Announce, LoadBucket, VisitFound, VisitOther, LoadNext,
       Deactivate, Step, Move, Inside
  <2> QED BY <2>1, <2>2, <2>3, <2>4
<1> QED BY <1>1, <1>2

-----------------------------------------------------------------------------
(***************************************************************************)
(* The theorems.                                                           *)
(***************************************************************************)
LEMMA Initially == Init => IInv
<1> SUFFICES ASSUME Init PROVE IInv
  OBVIOUS
<1> USE DEF Init
<1>1. \A p \in {Null} : Chain(p) = {}
  BY ChainIs, ReachNull
<1>2. /\ \A b \in Bucket : Linked(b) = {}
      /\ LinkedNodes = {} /\ Allocated = {} /\ HeapType
  <2>1. \A b \in Bucket : Linked(b) = {}
    BY <1>1 DEF Linked
  <2>2. Allocated = {}
    BY DEF Allocated
  <2> QED BY <2>1, <2>2 DEF LinkedNodes, HeapType, Pointer
<1>3. TypeInv
  <2>1. TypeOK
    BY <1>2 DEF TypeOK, HeapType, NoSlot, None, Slot
  <2>2. rd \in [Reader -> Locals] /\ writer \in Writing
    BY DEF Locals, Writing
  <2> QED BY <2>1, <2>2 DEF TypeInv
<1>4. HeapInv
  <2> DEFINE rank == [n \in Node |-> 0]
  <2>1. Down(Allocated, NextOf, rank)
    BY <1>2 DEF Down
  <2> HIDE DEF rank
  <2> QED BY <1>2, <2>1 DEF HeapInv, Shut
<1>5. MapInv /\ ClockInv /\ RetiredInv
  <2>1. Held = {} /\ writer.pc = "idle"
    BY DEF Held
  <2> QED BY <1>2, <2>1 DEF MapInv, ClockInv, RetiredInv
<1>6. RegistryInv /\ EpochInv /\ \A r \in Reader : ReaderInv(r)
  BY DEF RegistryInv, EpochInv, ReaderInv, Inside
<1> QED BY <1>3, <1>4, <1>5, <1>6 DEF IInv

LEMMA Stutter == IInv /\ UNCHANGED vars => IInv'
<1> SUFFICES ASSUME IInv, UNCHANGED vars PROVE IInv'
  OBVIOUS
<1>1. /\ UNCHANGED <<node, bucket, contents, clock, hand, retired, epoch, slots, id>>
      /\ UNCHANGED <<active, announced, writer, rd, puts>>
  BY DEF vars, heapVars, clockVars, readerVars, registryVars
<1>2. HeapType /\ HeapInv /\ ClockInv
  BY HeapTyped DEF IInv
<1>3. TypeInv'
  BY <1>1 DEF IInv, TypeInv, TypeOK
<1>4. DeleteEffect({}) /\ HeapInv'
  BY <1>1, <1>2, HeapStays DEF DeleteEffect
<1>5. StoreInv'
  BY <1>1, <1>2, <1>4, StoreKept DEF Held, ClockInv
<1>6. RegistryInv' /\ EpochInv'
  BY <1>1 DEF IInv, RegistryInv, EpochInv, Guard
<1>7. ASSUME NEW r \in Reader PROVE ReaderInv(r)'
  <2>1. Onlooker(r)
    BY <1>1 DEF IInv, ReaderInv, Onlooker
  <2> QED BY <1>1, <1>4, <2>1, OnlookerStays
<1> QED BY <1>3, <1>4, <1>5, <1>6, <1>7 DEF IInv, StoreInv

LEMMA Inductive == IInv /\ [Next]_vars => IInv'
<1> SUFFICES ASSUME IInv, [Next]_vars PROVE IInv'
  OBVIOUS
<1>0. HeapType /\ HeapInv /\ TypeInv /\ ClockInv
  BY HeapTyped DEF IInv
<1>1. CASE put
  <2>1. TypeInv' /\ HeapInv' /\ StoreInv'
    <3>1. ASSUME NEW k \in Key, PutReplace(k) PROVE TypeInv' /\ HeapInv' /\ StoreInv'
      BY <3>1, ReplaceStep, ReplaceStore DEF ReplaceEffect
    <3>2. ASSUME NEW k \in Key, PutInsert(k) PROVE TypeInv' /\ HeapInv' /\ StoreInv'
      BY <3>2, InsertStep, InsertStore DEF HeadEffect
    <3>3. ASSUME NEW k \in Key, PutFull(k) PROVE TypeInv' /\ HeapInv' /\ StoreInv'
      <4>1. /\ UNCHANGED <<node, bucket, contents, clock, hand, retired>> /\ writer.pc = "idle"
            /\ writer'.pc = "sweep" /\ writer'.key = k /\ Holders(k) = {} /\ Len(clock) = Capacity
        BY <3>3 DEF PutFull, BeginPut, heapVars, clockVars
      <4>2. DeleteEffect({}) /\ HeapInv'
        BY <1>0, <4>1, HeapStays DEF DeleteEffect
      <4>3. contents[k] = None
        BY <1>0, <4>1, LinkedIn DEF IInv, MapInv, Holders
      <4> QED BY <3>3, <4>1, <4>2, <4>3, TypeFull, StoreKept DEF Held
    <3>4. CASE Sweep
      <4>1. UNCHANGED <<contents, clock, retired>>
        BY <3>4 DEF Sweep
      <4>2. Held' = Held
        BY <3>4, <4>1, SweepStep DEF Held
      <4> QED BY <1>0, <3>4, <4>1, <4>2, SweepStep, StoreKept DEF DeleteEffect, ClockInv
    <3>5. CASE Unlink
      BY <3>5, UnlinkStep, UnlinkStore DEF RemoveEffect
    <3>6. CASE Link
      BY <3>6, LinkStep, LinkStore DEF HeadEffect
    <3>7. CASE AdvanceEpoch \/ LoadActive \/ LoadAnnounced
      <4>1. TypeInv' /\ UNCHANGED <<node, bucket, contents, clock, hand, retired>>
        BY <3>7, TypeReclaim
      <4>2. DeleteEffect({}) /\ HeapInv'
        BY <1>0, <4>1, HeapStays DEF DeleteEffect
      <4>3. writer.pc \notin {"sweep", "link"} /\ writer'.pc \in {"active", "epoch"}
        <5>1. CASE AdvanceEpoch \/ LoadAnnounced
          BY <5>1 DEF AdvanceEpoch, LoadAnnounced
        <5>2. CASE LoadActive
          <6>1. writer \in [pc : {"active", "epoch"}, slot : 1..(MaxReaders + 1), min : Int]
            BY <1>0, <5>2, WritingIs DEF LoadActive, TypeInv
          <6> QED BY <5>2, <6>1 DEF LoadActive
        <5> QED BY <3>7, <5>1, <5>2
      <4>4. Held' = Held
        BY <4>1, <4>3 DEF Held
      <4> QED BY <4>1, <4>2, <4>3, <4>4, StoreKept
    <3>8. CASE Delete
      BY <3>8, DeleteStep, DeleteStore DEF DeleteEffect
    <3> QED BY <1>1, <3>1, <3>2, <3>3, <3>4, <3>5, <3>6, <3>7, <3>8 DEF put
  <2> QED BY <1>1, <2>1, EpochPut, ReadersPut DEF IInv, StoreInv
<1>2. ASSUME NEW r \in Reader, get(r) \/ EndThread(r) PROVE IInv'
  <2>1. TypeInv'
    BY <1>2, TypeGet
  <2>2. DeleteEffect({}) /\ HeapInv'
    BY <1>2, GetHeap DEF DeleteEffect
  <2>3. UNCHANGED <<contents, clock, hand, retired, writer>>
    BY <1>0, <1>2, ReaderMoves
  <2>4. StoreInv'
    BY <1>0, <2>2, <2>3, StoreKept DEF Held, ClockInv
  <2> QED BY <1>2, <2>1, <2>2, <2>4, EpochGet, ReadersGet DEF IInv, StoreInv
<1> QED BY <1>1, <1>2, Stutter DEF Next

\* The inductive invariant holds in every reachable state.
THEOREM MapInvariant == Spec => []IInv
BY Initially, Inductive, PTL DEF Spec

\* Every variable of the map, of put and of get has its type: the clock array is no
\* longer than the capacity and no announced epoch is ahead of global_epoch_.
THEOREM MapTypes == Spec => []TypeOK
<1>1. IInv => TypeOK
  BY DEF IInv, TypeInv
<1> QED BY <1>1, MapInvariant, PTL

\* reclaim_memory deletes no node on which a get under way stands.
THEOREM NothingDeletedUnderAReader == Spec => []NoUseAfterFree
<1>1. IInv => NoUseAfterFree
  BY DEF IInv, ReaderInv, NoUseAfterFree, Allocated
<1> QED BY <1>1, MapInvariant, PTL

\* What get returns is what the map held for the key at some moment of the call.
THEOREM GetIsLinearizable == Spec => []GetLinearizable
<1>1. IInv => GetLinearizable
  BY DEF IInv, ReaderInv, GetLinearizable
<1> QED BY <1>1, MapInvariant, PTL

\* The chains hold each present key once, the clock array holds the linked nodes at
\* their own indices, and the retired list holds every other node once.
THEOREM ChainsHoldTheMap == Spec => []ChainsAreTheMap
<1>1. ASSUME IInv PROVE ChainsAreTheMap
  <2>0. HeapType /\ HeapInv /\ MapInv /\ ClockInv /\ RetiredInv /\ TypeOK
    BY <1>1, HeapTyped DEF IInv, TypeInv
  <2>1. ASSUME NEW k \in Key
        PROVE  /\ {node[n].value : n \in Holders(k)} = {contents[k]} \ {None}
               /\ Cardinality(Holders(k)) <= 1
    <3>1. \A n \in Holders(k) : n \in LinkedNodes /\ node[n].key = k /\ node[n].value = contents[k]
      BY <2>0, LinkedIn DEF Holders, MapInv
    <3>2. \A n \in Holders(k) : node[n].value \in Value
      BY <2>0, <3>1, LinkedIn, NodeIs
    <3>3. \A n \in LinkedNodes : node[n].key = k => n \in Holders(k)
      BY <2>0, LinkedIn DEF Holders
    <3>4. CASE contents[k] = None
      <4>1. Holders(k) = {}
        BY <3>1, <3>2, <3>4 DEF Value, None
      <4> QED BY <3>4, <4>1, FS_EmptySet
    <3>5. CASE contents[k] # None
      <4>1. PICK n \in LinkedNodes : node[n].key = k
        BY <2>0, <3>5 DEF MapInv
      <4>2. Holders(k) = {n}
        BY <2>0, <3>1, <3>3, <4>1 DEF MapInv
      <4>3. Cardinality(Holders(k)) = 1
        BY <4>2, FS_Singleton
      <4>4. {node[m].value : m \in Holders(k)} = {contents[k]}
        BY <3>1, <4>2
      <4> QED BY <3>5, <4>3, <4>4
    <3> QED BY <3>4, <3>5
  <2>2. ASSUME writer.pc # "link"
        PROVE  /\ LinkedNodes = {clock[i] : i \in 1..Len(clock)}
               /\ \A i \in 1..Len(clock) : node[clock[i]].idx = i
    BY <2>0, <2>2 DEF ClockInv, Held
  <2>3. ASSUME NEW n \in Node, node[n] # Deleted
        PROVE  Cardinality({t \in retired : t.node = n}) = IF n \in LinkedNodes THEN 0 ELSE 1
    <3>1. n \in Allocated
      BY <2>3 DEF Allocated
    <3>2. CASE n \in LinkedNodes
      <4>1. {t \in retired : t.node = n} = {}
        BY <2>0, <3>2 DEF RetiredInv
      <4> QED BY <3>2, <4>1, FS_EmptySet
    <3>3. CASE n \notin LinkedNodes
      <4>1. PICK t \in retired : t.node = n
        BY <2>0, <3>1, <3>3 DEF RetiredInv
      <4>2. {u \in retired : u.node = n} = {t}
        BY <2>0, <4>1 DEF RetiredInv
      <4>3. Cardinality({u \in retired : u.node = n}) = 1
        BY <4>2, FS_Singleton
      <4> QED BY <3>3, <4>3
    <3> QED BY <3>2, <3>3
  <2> QED BY <2>1, <2>2, <2>3 DEF ChainsAreTheMap, LinkedNodes
<1> QED BY <1>1, MapInvariant, PTL

=============================================================================
