------------------------ MODULE QueuedMessagesProofs ------------------------
(***************************************************************************)
(* Proofs about QueuedMessages: its invariants, and that it implements     *)
(* MessageQueue, for any number of rows, clients and texts.                *)
(***************************************************************************)
EXTENDS QueuedMessages, FiniteSetTheorems, WellFoundedInduction, TLAPS

(* A nonempty set of naturals has a least element.                         *)
LEMMA LeastNatural ==
  ASSUME NEW T \in SUBSET Nat, T # {}
  PROVE  \E x \in T : \A y \in T : x <= y
<1> DEFINE W == {1..x : x \in T}
<1>1. W \subseteq FiniteSubsetsOf(Nat) /\ W # {}
  <2>1. \A x \in T : IsFiniteSet(1..x)
    BY FS_Interval
  <2>2. \A x \in T : 1..x \in SUBSET Nat
    OBVIOUS
  <2>. QED  BY <2>1, <2>2, Zenon DEF FiniteSubsetsOf
<1>2. PICK w \in W : \A v \in W : ~(<<v, w>> \in StrictSubsetOrdering(Nat))
  BY <1>1, FS_StrictSubsetOrderingWellFounded, WFMin, Zenon
<1>3. PICK x \in T : w = 1..x
  OBVIOUS
<1>4. ASSUME NEW y \in T PROVE x <= y
  <2>1. ~(<<1..y, 1..x>> \in StrictSubsetOrdering(Nat))
    BY <1>2, <1>3
  <2>2. ~(1..y \subseteq 1..x /\ 1..y # 1..x)
    BY <2>1 DEF StrictSubsetOrdering
  <2>3. y < x => 1..y \subseteq 1..x /\ x \in 1..x /\ x \notin 1..y
    OBVIOUS
  <2>. QED  BY <2>2, <2>3
<1>. QED  BY <1>4

IInv == TypeOK /\ Inv

(* The column values of an id without a row have the columns' types.       *)
LEMMA DefaultsTyped == NoClient \in Clients /\ NoContent \in Contents
  BY SomeClientAndContent DEF NoClient, NoContent

(* A reorder numbers each pending row with a natural number, strictly      *)
(* above every row that comes before it in the new order.                  *)
LEMMA RanksOrdered ==
  ASSUME TypeOK, PendingPositionsDistinct,
         NEW ids \in Seq(Ids),
         NEW a \in Pending, NEW b \in Pending
  PROVE  LET Rank(m) == Cardinality({n \in Pending : ReorderedBefore(ids, n, m)})
         IN  /\ Rank(a) \in Nat
             /\ ReorderedBefore(ids, a, b) => Rank(a) < Rank(b)
             /\ a # b => ReorderedBefore(ids, a, b) \/ ReorderedBefore(ids, b, a)
             /\ ~(ReorderedBefore(ids, a, b) /\ ReorderedBefore(ids, b, a))
<1> DEFINE Below(m) == {n \in Pending : ReorderedBefore(ids, n, m)}
           First(m) == \A j \in DOMAIN ids : ids[j] # m
<1> USE DEF Pending, TypeOK
<1>0. DOMAIN ids = 1..Len(ids) /\ Len(ids) \in Nat
  OBVIOUS
<1>1. IsFiniteSet(Pending)
  BY IdsFinite, FS_Subset
<1>2. \A m \in Pending : IsFiniteSet(Below(m)) /\ Cardinality(Below(m)) \in Nat
  BY <1>1, FS_Subset, FS_CardinalityType
<1>3. ASSUME NEW c \in Pending, NEW d \in Pending
      PROVE  ~(ReorderedBefore(ids, c, d) /\ ReorderedBefore(ids, d, c))
  BY <1>0 DEF ReorderedBefore, OccursFirst
<1>4. ASSUME NEW c \in Pending, NEW d \in Pending, NEW e \in Pending,
             ReorderedBefore(ids, c, d), ReorderedBefore(ids, d, e)
      PROVE  ReorderedBefore(ids, c, e)
  <2>1. c # e
    BY <1>3, <1>4
  <2>2. CASE OccursFirst(ids, c, d) /\ OccursFirst(ids, d, e)
    <3>1. PICK i \in DOMAIN ids : ids[i] = c /\ \A j \in 1..i : ids[j] # d
      BY <2>2 DEF OccursFirst
    <3>2. PICK k \in DOMAIN ids : ids[k] = d /\ \A j \in 1..k : ids[j] # e
      BY <2>2 DEF OccursFirst
    <3>3. i < k
      BY <1>0, <3>1, <3>2
    <3>. QED  BY <1>0, <2>1, <3>1, <3>2, <3>3 DEF ReorderedBefore, OccursFirst
  <2>3. CASE OccursFirst(ids, c, d) /\ ~OccursFirst(ids, d, e)
    <3>1. First(e)
      BY <1>4, <2>3 DEF ReorderedBefore
    <3>2. PICK i \in DOMAIN ids : ids[i] = c
      BY <2>3 DEF OccursFirst
    <3>. QED  BY <1>0, <2>1, <3>1, <3>2 DEF ReorderedBefore, OccursFirst
  <2>4. CASE ~OccursFirst(ids, c, d)
    <3>1. First(c) /\ First(d) /\ position[c] < position[d]
      BY <1>4, <2>4 DEF ReorderedBefore
    <3>2. ~OccursFirst(ids, d, e)
      BY <3>1 DEF OccursFirst
    <3>3. First(e) /\ position[d] < position[e]
      BY <1>4, <3>2 DEF ReorderedBefore
    <3>. QED  BY <2>1, <3>1, <3>3 DEF ReorderedBefore
  <2>. QED  BY <2>2, <2>3, <2>4
<1>5. ASSUME NEW c \in Pending, NEW d \in Pending, c # d
      PROVE  ReorderedBefore(ids, c, d) \/ ReorderedBefore(ids, d, c)
  <2>1. CASE \E i \in DOMAIN ids : ids[i] \in {c, d}
    <3> DEFINE T == {i \in DOMAIN ids : ids[i] \in {c, d}}
    <3>1. PICK i \in T : \A j \in T : i <= j
      <4>1. T \in SUBSET Nat /\ T # {}
        BY <1>0, <2>1
      <4> HIDE DEF T
      <4>. QED  BY <4>1, LeastNatural
    <3>2. i \in DOMAIN ids /\ \A j \in 1..i : j # i => ids[j] \notin {c, d}
      BY <1>0, <3>1
    <3>3. \A x \in {c, d}, y \in {c, d} :
             ids[i] = x /\ y # x => \A j \in 1..i : ids[j] # y
      BY <1>0, <3>2
    <3>4. ids[i] = c \/ ids[i] = d
      BY <3>1
    <3>5. CASE ids[i] = c
      BY <1>5, <3>2, <3>3, <3>5 DEF ReorderedBefore, OccursFirst
    <3>6. CASE ids[i] = d
      BY <1>5, <3>2, <3>3, <3>6 DEF ReorderedBefore, OccursFirst
    <3>. QED  BY <3>4, <3>5, <3>6
  <2>2. CASE \A i \in DOMAIN ids : ids[i] \notin {c, d}
    BY <1>5, <2>2 DEF ReorderedBefore, PendingPositionsDistinct
  <2>. QED  BY <2>1, <2>2
<1>6. ASSUME ReorderedBefore(ids, a, b)
      PROVE  Cardinality(Below(a)) < Cardinality(Below(b))
  <2>1. Below(a) \subseteq Below(b)
    BY <1>4, <1>6
  <2>2. a \in Below(b) /\ a \notin Below(a)
    BY <1>6 DEF ReorderedBefore
  <2>3. IsFiniteSet(Below(b)) /\ Below(a) # Below(b)
    BY <1>2, <2>2
  <2>4. /\ Cardinality(Below(a)) <= Cardinality(Below(b))
        /\ Cardinality(Below(a)) # Cardinality(Below(b))
    <3> HIDE DEF Below
    <3>. QED  BY <2>1, <2>3, FS_Subset
  <2>5. Cardinality(Below(a)) \in Nat /\ Cardinality(Below(b)) \in Nat
    BY <1>2
  <2> HIDE DEF Below
  <2>. QED  BY <2>4, <2>5
<1>. QED  BY <1>2, <1>3, <1>5, <1>6
-----------------------------------------------------------------------------

(* Every operation on the table keeps the columns typed.                   *)
LEMMA TypeStep == TypeOK /\ [Next]_vars => TypeOK'
<1> SUFFICES ASSUME TypeOK, [Next]_vars PROVE TypeOK'
  OBVIOUS
<1> USE DEF TypeOK, Statuses
<1>1. ASSUME NEW m \in Ids, NEW c \in Clients, NEW text \in Contents,
             Enqueue(m, c, text)
      PROVE  TypeOK'
  <2>1. PICK p \in NextPositions : position' = [position EXCEPT ![m] = p]
    BY <1>1 DEF Enqueue
  <2>2. p \in Int
    BY DEF NextPositions, Present
  <2>. QED  BY <1>1, <2>1, <2>2 DEF Enqueue
<1>2. ASSUME NEW m \in Ids, Claim(m) PROVE TypeOK'
  BY <1>2 DEF Claim
<1>3. ASSUME NEW m \in Ids, Delete(m) PROVE TypeOK'
  BY <1>3, DefaultsTyped DEF Delete
<1>4. ASSUME NEW m \in Ids, Promote(m) PROVE TypeOK'
  BY <1>4 DEF Promote, IsFirstPending, Pending
<1>5. ASSUME NEW m \in Ids, NEW text \in Contents, Edit(m, text) PROVE TypeOK'
  BY <1>5 DEF Edit
<1>6. ASSUME NEW ids \in Orders, Reorder(ids) PROVE TypeOK'
  <2>1. \A m \in Pending :
           Cardinality({n \in Pending : ReorderedBefore(ids, n, m)}) \in Int
    <3>1. IsFiniteSet(Pending)
      BY IdsFinite, FS_Subset DEF Pending
    <3>. QED  BY <3>1, FS_Subset, FS_CardinalityType
  <2>. QED  BY <1>6, <2>1 DEF Reorder
<1>7. CASE UNCHANGED vars
  BY <1>7 DEF vars
<1>. QED  BY <1>1, <1>2, <1>3, <1>4, <1>5, <1>6, <1>7 DEF Next

(* The type invariant holds of every reachable state.                      *)
THEOREM TypeCorrect == Spec => []TypeOK
<1>1. Init => TypeOK
  BY DefaultsTyped DEF Init, TypeOK, Statuses
<1>. QED  BY <1>1, TypeStep, PTL DEF Spec

(* Every operation keeps the three invariants of the table.                *)
LEMMA InvStep == IInv /\ [Next]_vars => Inv'
<1> SUFFICES ASSUME TypeOK, Inv, [Next]_vars PROVE Inv'
  BY DEF IInv
<1> USE DEF TypeOK, Inv, PendingPositionsDistinct, AtMostOneDispatching,
            OneRowPerClient, Pending, Dispatching, Present, Statuses
<1>1. ASSUME NEW m \in Ids, NEW c \in Clients, NEW text \in Contents,
             Enqueue(m, c, text)
      PROVE  Inv'
  <2>1. PICK p \in NextPositions : position' = [position EXCEPT ![m] = p]
    BY <1>1 DEF Enqueue
  <2>2. p \in Int /\ \A n \in Present : position[n] < p
    BY DEF NextPositions
  <2>3. PendingPositionsDistinct'
    BY <1>1, <2>1, <2>2 DEF Enqueue
  <2>4. AtMostOneDispatching' /\ OneRowPerClient'
    BY <1>1 DEF Enqueue
  <2>. QED  BY <2>3, <2>4
<1>2. ASSUME NEW m \in Ids, Claim(m) PROVE Inv'
  BY <1>2 DEF Claim, IsFirstPending
<1>3. ASSUME NEW m \in Ids, Delete(m) PROVE Inv'
  BY <1>3 DEF Delete
<1>4. ASSUME NEW m \in Ids, Promote(m) PROVE Inv'
  <2>1. PICK f \in Pending : /\ IsFirstPending(f)
                             /\ position' = [position EXCEPT ![m] = position[f] - 1]
    BY <1>4 DEF Promote
  <2>2. \A n \in Pending : position[f] - 1 < position[n]
    BY <2>1 DEF IsFirstPending
  <2>3. PendingPositionsDistinct'
    BY <1>4, <2>1, <2>2 DEF Promote
  <2>. QED  BY <1>4, <2>3 DEF Promote
<1>5. ASSUME NEW m \in Ids, NEW text \in Contents, Edit(m, text) PROVE Inv'
  BY <1>5 DEF Edit
<1>6. ASSUME NEW ids \in Orders, Reorder(ids) PROVE Inv'
  <2>1. ids \in Seq(Ids)
    BY OrdersAreLists
  <2>2. PendingPositionsDistinct'
    <3> SUFFICES ASSUME NEW a \in Pending, NEW b \in Pending, a # b
                 PROVE  position'[a] # position'[b]
      BY <1>6 DEF Reorder
    <3> DEFINE Rank(m) == Cardinality({n \in Pending : ReorderedBefore(ids, n, m)})
    <3>1. position'[a] = Rank(a) /\ position'[b] = Rank(b)
      BY <1>6 DEF Reorder
    <3>2. Rank(a) \in Nat /\ Rank(b) \in Nat /\ (Rank(a) < Rank(b) \/ Rank(b) < Rank(a))
      BY <2>1, RanksOrdered
    <3> HIDE DEF Rank
    <3>. QED  BY <3>1, <3>2
  <2>. QED  BY <1>6, <2>2 DEF Reorder
<1>7. CASE UNCHANGED vars
  BY <1>7 DEF vars
<1>. QED  BY <1>1, <1>2, <1>3, <1>4, <1>5, <1>6, <1>7 DEF Next

LEMMA Invariance == Spec => []IInv
<1>1. Init => IInv
  BY DefaultsTyped DEF Init, IInv, TypeOK, Inv, PendingPositionsDistinct,
     AtMostOneDispatching, OneRowPerClient, Pending, Dispatching, Present, Statuses
<1>2. IInv /\ [Next]_vars => IInv'
  BY TypeStep, InvStep DEF IInv
<1>. QED  BY <1>1, <1>2, PTL DEF Spec

(* Whatever the history of sends, promotions, reorders and deletions, two  *)
(* pending rows never share a position.                                    *)
THEOREM PositionsDistinct == Spec => []PendingPositionsDistinct
<1>1. IInv => PendingPositionsDistinct
  BY DEF IInv, Inv
<1>. QED  BY <1>1, Invariance, PTL

(* The claim never puts a second row in flight.                            *)
THEOREM OneDispatching == Spec => []AtMostOneDispatching
<1>1. IInv => AtMostOneDispatching
  BY DEF IInv, Inv
<1>. QED  BY <1>1, Invariance, PTL
-----------------------------------------------------------------------------
(* The refinement. Ordered is the relation `before' is mapped to.          *)

Ordered == {p \in Pending \X Pending : position[p[1]] < position[p[2]]}

(* A step of the table is a step of the list of MessageQueue, or none.     *)
LEMMA RefinementStep ==
  IInv /\ IInv' /\ [Next]_vars => [Queue!Next]_(Queue!queueVars)
<1> SUFFICES ASSUME IInv, IInv', [Next]_vars
             PROVE  Queue!Next \/ UNCHANGED Queue!queueVars
  OBVIOUS
<1> USE DEF Pending, Dispatching, Present, TypeOK, Statuses
<1>0. /\ TypeOK /\ PendingPositionsDistinct /\ AtMostOneDispatching
      /\ TypeOK' /\ PendingPositionsDistinct'
  BY DEF IInv, Inv
<1>1. ASSUME NEW m \in Ids, NEW c \in Clients, NEW text \in Contents,
             Enqueue(m, c, text)
      PROVE  Queue!Enqueue(m)
  <2>1. PICK p \in NextPositions : position' = [position EXCEPT ![m] = p]
    BY <1>1 DEF Enqueue
  <2>2. p \in Int /\ \A n \in Pending : position[n] < p
    BY <1>0 DEF NextPositions
  <2>3. Pending' = Pending \cup {m} /\ Dispatching' = Dispatching /\ m \notin Present
    BY <1>0, <1>1 DEF Enqueue
  <2>4. Ordered' = Ordered \cup (Pending \X {m})
    BY <1>0, <2>1, <2>2, <2>3 DEF Ordered
  <2>. QED  BY <2>3, <2>4 DEF Queue!Enqueue, Ordered
<1>2. ASSUME NEW m \in Ids, Claim(m) PROVE Queue!Claim(m)
  <2>1. Dispatching = {} /\ Dispatching' = {m} /\ Pending' = Pending \ {m}
    BY <1>0, <1>2 DEF Claim, IsFirstPending
  <2>2. \A n \in Pending \ {m} : <<m, n>> \in Ordered
    BY <1>0, <1>2 DEF Claim, IsFirstPending, Ordered, PendingPositionsDistinct
  <2>3. Ordered' = {p \in Ordered : p[1] # m /\ p[2] # m}
    BY <1>0, <1>2, <2>1 DEF Claim, Ordered
  <2>4. m \in Pending
    BY <1>2 DEF Claim, IsFirstPending
  <2>. QED  BY <2>1, <2>2, <2>3, <2>4 DEF Queue!Claim, Queue!IsHead, Ordered
<1>3. ASSUME NEW m \in Ids, Delete(m) PROVE Queue!Remove(m)
  <2>1. Pending' = Pending \ {m} /\ Dispatching' = Dispatching \ {m}
    BY <1>0, <1>3 DEF Delete
  <2>2. Ordered' = {p \in Ordered : p[1] # m /\ p[2] # m}
    BY <1>0, <1>3, <2>1 DEF Delete, Ordered
  <2>3. m \in Pending \cup Dispatching
    BY <1>3 DEF Delete
  <2>. QED  BY <2>1, <2>2, <2>3 DEF Queue!Remove, Ordered
<1>4. ASSUME NEW m \in Ids, Promote(m) PROVE Queue!Promote(m)
  <2>1. PICK f \in Pending : /\ IsFirstPending(f)
                             /\ position' = [position EXCEPT ![m] = position[f] - 1]
    BY <1>4 DEF Promote
  <2>2. \A n \in Pending : position[f] - 1 < position[n]
    BY <1>0, <2>1 DEF IsFirstPending
  <2>3. Pending' = Pending /\ Dispatching' = Dispatching /\ m \in Pending
    BY <1>4 DEF Promote
  <2>4. Ordered' = {p \in Ordered : p[2] # m} \cup ({m} \X (Pending \ {m}))
    BY <1>0, <2>1, <2>2, <2>3 DEF Ordered
  <2>. QED  BY <2>3, <2>4 DEF Queue!Promote, Ordered
<1>5. ASSUME NEW m \in Ids, NEW text \in Contents, Edit(m, text)
      PROVE  UNCHANGED Queue!queueVars
  BY <1>5 DEF Edit, Queue!queueVars
<1>6. ASSUME NEW ids \in Orders, Reorder(ids) PROVE Queue!Reorder(ids)
  <2>1. Pending' = Pending /\ Dispatching' = Dispatching
    BY <1>6 DEF Reorder
  <2>2. ASSUME NEW a \in Pending, NEW b \in Pending
        PROVE  position'[a] < position'[b] <=> ReorderedBefore(ids, a, b)
    <3> DEFINE Rank(m) == Cardinality({n \in Pending : ReorderedBefore(ids, n, m)})
    <3>1. position'[a] = Rank(a) /\ position'[b] = Rank(b)
      BY <1>6 DEF Reorder
    <3>2. /\ Rank(a) \in Nat /\ Rank(b) \in Nat
          /\ ReorderedBefore(ids, a, b) => Rank(a) < Rank(b)
          /\ ReorderedBefore(ids, b, a) => Rank(b) < Rank(a)
          /\ a # b => ReorderedBefore(ids, a, b) \/ ReorderedBefore(ids, b, a)
      BY <1>0, OrdersAreLists, RanksOrdered
    <3>3. a = b => ~ReorderedBefore(ids, a, b)
      BY DEF ReorderedBefore
    <3> HIDE DEF Rank
    <3>. QED  BY <3>1, <3>2, <3>3
  <2>3. \A a \in Pending, b \in Pending :
           ReorderedBefore(ids, a, b) <=> Queue!AsRequested(ids, a, b, <<a, b>> \in Ordered)
    BY DEF ReorderedBefore, OccursFirst, Queue!AsRequested, Queue!Precedes,
           Queue!Listed, Ordered
  <2>4. Ordered' = {p \in Pending \X Pending :
                      Queue!AsRequested(ids, p[1], p[2], p \in Ordered)}
    BY <2>1, <2>2, <2>3 DEF Ordered
  <2>. QED  BY <2>1, <2>4 DEF Queue!Reorder, Ordered
<1>7. CASE UNCHANGED vars
  BY <1>7 DEF vars, Queue!queueVars
<1>. QED  BY <1>1, <1>2, <1>3, <1>4, <1>5, <1>6, <1>7 DEF Next, Queue!Next

(* The positions of the table implement the list of MessageQueue: sends    *)
(* append, send-now moves to the front, a reorder gives the order asked    *)
(* for and the claim takes the head.                                       *)
THEOREM Refinement == Spec => ImplementsQueue
<1>1. Init => Queue!Init
  BY DEF Init, Queue!Init, Pending, Dispatching
<1>2. IInv /\ IInv' /\ [Next]_vars => [Queue!Next]_(Queue!queueVars)
  BY RefinementStep
<1>. QED  BY <1>1, <1>2, Invariance, PTL DEF Spec, ImplementsQueue, Queue!Spec
=============================================================================
