----------------------- MODULE TranscriptStoreProofs -----------------------
(* Proofs about TranscriptStore, for any number of tasks and bounds.       *)
EXTENDS TranscriptStore, FiniteSetTheorems, WellFoundedInduction, TLAPS

(* A nonempty set of naturals has a least element.                         *)
LEMMA LeastNatural ==
  ASSUME NEW T \in SUBSET Nat, T # {}
  PROVE  \E x \in T : \A y \in T : x <= y
<1> DEFINE W == {1..x : x \in T}
<1>1. W \subseteq FiniteSubsetsOf(Nat) /\ W # {}
  <2>1. \A x \in T : IsFiniteSet(1..x)
    BY FS_Interval
  <2>2. \A x \in T : 1..x \in SUBSET Nat
    OBVIOUS
  <2>. QED  BY <2>1, <2>2, Zenon DEF FiniteSubsetsOf
<1>2. PICK w \in W : \A v \in W : ~(<<v, w>> \in StrictSubsetOrdering(Nat))
  BY <1>1, FS_StrictSubsetOrderingWellFounded, WFMin, Zenon
<1>3. PICK x \in T : w = 1..x
  OBVIOUS
<1>4. ASSUME NEW y \in T PROVE x <= y
  <2>1. ~(<<1..y, 1..x>> \in StrictSubsetOrdering(Nat))
    BY <1>2, <1>3
  <2>2. ~(1..y \subseteq 1..x /\ 1..y # 1..x)
    BY <2>1 DEF StrictSubsetOrdering
  <2>3. y < x => 1..y \subseteq 1..x /\ x \in 1..x /\ x \notin 1..y
    OBVIOUS
  <2>. QED  BY <2>2, <2>3
<1>. QED  BY <1>4

(* A nonempty set of naturals with an upper bound has a greatest element.  *)
LEMMA GreatestNatural ==
  ASSUME NEW T \in SUBSET Nat, T # {}, NEW n \in Nat, \A y \in T : y <= n
  PROVE  \E x \in T : \A y \in T : y <= x
<1> DEFINE U == {m \in Nat : \A y \in T : y <= m}
<1>1. PICK x \in U : \A y \in U : x <= y
  <2>1. U \in SUBSET Nat /\ n \in U
    OBVIOUS
  <2>. HIDE DEF U
  <2>. QED  BY <2>1, LeastNatural
<1>2. x \in T
  <2>1. SUFFICES ASSUME x \notin T PROVE FALSE
    OBVIOUS
  <2>2. \A y \in T : y < x
    BY <1>1, <2>1
  <2>3. x # 0 /\ x - 1 \in Nat
    <3>1. PICK y \in T : y < x
      BY <2>2
    <3>2. x \in Nat /\ y \in Nat
      BY <1>1
    <3>. QED  BY <3>1, <3>2
  <2>4. x - 1 \in U
    BY <1>1, <2>2, <2>3
  <2>. QED  BY <1>1, <2>3, <2>4
<1>. QED  BY <1>1, <1>2

(* A function on 1..n is a sequence.                                       *)
LEMMA IsSequence ==
  ASSUME NEW S, NEW n \in Nat, NEW f \in [1..n -> S]
  PROVE  f \in Seq(S) /\ Len(f) = n
OBVIOUS

LEMMA OfSequence ==
  ASSUME NEW S, NEW s \in Seq(S)
  PROVE  s \in [1..Len(s) -> S] /\ Len(s) \in Nat /\ DOMAIN s = 1..Len(s)
OBVIOUS

LEMMA BelowType ==
  ASSUME NEW s \in Seq(Bodies), NEW n \in Nat \ {0}
  PROVE  Below(s, n) \in Seq(Bodies)
<1> DEFINE k == IF n - 1 <= Len(s) THEN n - 1 ELSE Len(s)
<1>1. k \in Nat /\ {j \in DOMAIN s : j < n} = 1..k
  BY OfSequence
<1>2. Below(s, n) \in [1..k -> Bodies]
  <2>1. \A i \in 1..k : s[i] \in Bodies
    BY OfSequence
  <2>. QED  BY <1>1, <2>1 DEF Below
<1>. QED  BY <1>1, <1>2, IsSequence

LEMMA AppendType ==
  ASSUME NEW s \in Seq(Bodies), NEW b \in Bodies
  PROVE  /\ Append(s, b) \in Seq(Bodies) /\ Len(Append(s, b)) = Len(s) + 1
         /\ Append(s, b)[Len(s) + 1] = b
OBVIOUS

LEMMA OverwrittenType ==
  ASSUME NEW s \in Seq(Bodies), NEW new \in Overwritten(s)
  PROVE  new \in Seq(Bodies)
<1>1. PICK b \in Bodies, i \in 1..Len(s) : new = [s EXCEPT ![i] = b]
  BY DEF Overwritten
<1>2. new \in [1..Len(s) -> Bodies]
  BY <1>1, OfSequence
<1>. QED  BY <1>2, IsSequence, OfSequence

LEMMA CompactedType ==
  ASSUME NEW s \in Seq(Bodies), NEW new \in Compacted(s)
  PROVE  new \in Seq(Bodies)
<1>1. PICK b \in Bodies, n \in 1..Len(s) : new = Summarised(s, b, n)
  BY DEF Compacted
<1>3. new = <<b>> \o SubSeq(s, n + 1, Len(s))
  BY <1>1 DEF Summarised
<1>4. <<b>> \in Seq(Bodies) /\ SubSeq(s, n + 1, Len(s)) \in Seq(Bodies)
  OBVIOUS
<1>. QED  BY <1>3, <1>4

-----------------------------------------------------------------------------
(* Load *)

(* The interval of the first n positions.                                  *)
LEMMA FirstPositions ==
  ASSUME NEW n \in Nat
  PROVE  IsFiniteSet(1..n) /\ Cardinality(1..n) = n
<1>1. 1 \in Int /\ n \in Int
  OBVIOUS
<1>2. IsFiniteSet(1..n) /\ Cardinality(1..n) = IF 1 > n THEN 0 ELSE n - 1 + 1
  BY <1>1, FS_Interval, Zenon
<1>. QED  BY <1>2

LEMMA PositionsFinite ==
  ASSUME NEW n \in Nat, NEW D \in SUBSET (1..n)
  PROVE  IsFiniteSet(D) /\ Cardinality(D) \in Nat
BY FirstPositions, FS_Subset, FS_CardinalityType, Zenon

RankOf(D, i) == Cardinality({j \in D : j <= i})

(* Every rank up to the number of elements is the rank of an element.      *)
LEMMA RanksAreTaken ==
  ASSUME NEW n \in Nat, NEW D \in SUBSET (1..n), NEW k \in 1..Cardinality(D)
  PROVE  \E i \in D : RankOf(D, i) = k
<1>0. D \subseteq Nat
  OBVIOUS
<1>1. IsFiniteSet(D) /\ Cardinality(D) \in Nat
  BY PositionsFinite
<1>2. \A i \in Nat : IsFiniteSet({j \in D : j <= i}) /\ IsFiniteSet({j \in D : j < i})
  BY <1>1, FS_Subset
<1> DEFINE Missing == {m \in 1..Cardinality(D) : \A i \in D : RankOf(D, i) # m}
<1>3. SUFFICES ASSUME k \in Missing PROVE FALSE
  OBVIOUS
<1>4. PICK m \in Missing : \A y \in Missing : y <= m
  <2>1. Missing \in SUBSET Nat /\ \A y \in Missing : y <= Cardinality(D)
    BY <1>1
  <2>. HIDE DEF Missing
  <2>. QED  BY <1>1, <1>3, <2>1, GreatestNatural
<1>5. D # {}
  <2>1. D = {} => Cardinality(D) = 0
    BY FS_EmptySet
  <2>. QED  BY <1>1, <2>1
<1>6. PICK top \in D : \A y \in D : y <= top
  <2>1. D \in SUBSET Nat /\ \A y \in D : y <= n
    OBVIOUS
  <2>. QED  BY <1>5, <2>1, GreatestNatural
<1>7. RankOf(D, top) = Cardinality(D)
  <2>1. {j \in D : j <= top} = D
    BY <1>6
  <2>. QED  BY <2>1 DEF RankOf
<1>8. m + 1 \in 1..Cardinality(D) /\ m + 1 \notin Missing
  BY <1>1, <1>4, <1>6, <1>7
<1>9. PICK i \in D : RankOf(D, i) = m + 1
  BY <1>8
<1> DEFINE Less == {j \in D : j < i}
<1>10. Cardinality(Less) = m
  <2>0. \A j \in D : j <= i <=> (j < i \/ j = i)
    BY <1>0
  <2>1. {j \in D : j <= i} = Less \cup {i}
    BY <2>0, Zenon
  <2>4. i \notin Less
    BY <1>0
  <2>2. IsFiniteSet(Less) /\ Cardinality(Less) \in Nat
    <3>1. Less \in SUBSET (1..n)
      OBVIOUS
    <3>. QED  BY <3>1, PositionsFinite, Zenon
  <2>3. Cardinality(Less \cup {i}) = Cardinality(Less) + 1
    BY <2>2, <2>4, FS_AddElement
  <2>. QED  BY <1>4, <1>8, <1>9, <2>1, <2>2, <2>3 DEF RankOf
<1>11. Less # {}
  <2>1. Less = {} => Cardinality(Less) = 0
    BY FS_EmptySet
  <2>. QED  BY <1>10, <2>1
<1>12. PICK prev \in Less : \A y \in Less : y <= prev
  <2>1. Less \in SUBSET Nat
    BY <1>0
  <2>2. \A y \in Less : y <= n
    OBVIOUS
  <2>. HIDE DEF Less
  <2>. QED  BY <1>11, <2>1, <2>2, GreatestNatural
<1>13. {j \in D : j <= prev} = Less
  <2>1. \A j \in D : j <= prev <=> j < i
    BY <1>0, <1>12
  <2>. QED  BY <2>1
<1>14. RankOf(D, prev) = m
  BY <1>10, <1>13 DEF RankOf
<1>. QED  BY <1>4, <1>12, <1>14

(* What get_session returns is a transcript, whatever rows there are.      *)
LEMMA LoadType ==
  ASSUME NEW n \in Nat, NEW D \in SUBSET (1..n), NEW r \in [D -> Bodies]
  PROVE  Load(r) \in Seq(Bodies)
<1>1. DOMAIN r = D /\ Cardinality(D) \in Nat
  BY PositionsFinite
<1>2. ASSUME NEW k \in 1..Cardinality(D)
      PROVE  r[CHOOSE i \in D : Cardinality({j \in D : j <= i}) = k] \in Bodies
  <2>1. \E i \in D : Cardinality({j \in D : j <= i}) = k
    BY RanksAreTaken DEF RankOf
  <2>. QED  BY <2>1
<1>3. Load(r) \in [1..Cardinality(D) -> Bodies]
  BY <1>1, <1>2 DEF Load
<1>. QED  BY <1>1, <1>3, IsSequence

(* Without holes it is what the rows say.                                  *)
LEMMA LoadTranscript ==
  ASSUME NEW s \in Seq(Bodies)
  PROVE  Load(s) = s
<1>1. s \in [1..Len(s) -> Bodies] /\ DOMAIN s = 1..Len(s) /\ Len(s) \in Nat
  BY OfSequence
<1>2. Cardinality(1..Len(s)) = Len(s)
  BY <1>1, FirstPositions
<1>3. ASSUME NEW k \in 1..Len(s)
      PROVE  (CHOOSE i \in 1..Len(s) : Cardinality({j \in 1..Len(s) : j <= i}) = k) = k
  <2>1. \A i \in 1..Len(s) : {j \in 1..Len(s) : j <= i} = 1..i
    BY <1>1
  <2>2. \A i \in 1..Len(s) : Cardinality(1..i) = i
    BY <1>1, FirstPositions
  <2>. QED  BY <2>1, <2>2
<1>4. Load(s) = [k \in 1..Len(s) |-> s[k]]
  BY <1>1, <1>2, <1>3 DEF Load
<1>. QED  BY <1>1, <1>4

-----------------------------------------------------------------------------
(* Divergence: both transcripts agree before it, and it is at most one     *)
(* past the end of each.                                                   *)
LEMMA DivergenceAgrees ==
  ASSUME NEW c \in Seq(Bodies), NEW s \in Seq(Bodies)
  PROVE  LET d == Divergence(c, s) IN
           /\ d \in Nat \ {0} /\ d <= Len(c) + 1 /\ d <= Len(s) + 1
           /\ \A i \in 1..(d - 1) : c[i] = s[i]
<1> DEFINE both == {i \in DOMAIN c : i \in DOMAIN s}
           differ == {i \in both : c[i] # s[i]}
           k == IF Len(c) <= Len(s) THEN Len(c) ELSE Len(s)
<1>1. k \in Nat /\ both = 1..k
  BY OfSequence
<1>2. CASE differ # {}
  <2>1. PICK d \in differ : \A j \in differ : d <= j
    <3>1. differ \in SUBSET Nat
      BY <1>1
    <3>. HIDE DEF differ
    <3>. QED  BY <1>2, <3>1, LeastNatural
  <2>2. Divergence(c, s) \in differ /\ \A j \in differ : Divergence(c, s) <= j
    BY <1>2, <2>1 DEF Divergence
  <2>. QED  BY <1>1, <2>2
<1>3. CASE differ = {}
  <2>1. Cardinality(both) = k
    <3>. HIDE DEF both, k
    <3>. QED  BY <1>1, FirstPositions
  <2>2. Divergence(c, s) = k + 1
    BY <1>3, <2>1 DEF Divergence
  <2>3. \A i \in 1..k : c[i] = s[i]
    BY <1>1, <1>3
  <2>. QED  BY <1>1, <2>2, <2>3
<1>. QED  BY <1>2, <1>3

-----------------------------------------------------------------------------
(* The inductive invariant *)

(* Positions are positive, and there are finitely many rows.               *)
Types == TypeOK /\ \E n \in Nat : DOMAIN rows \subseteq 1..n

Loaded(t) == thread[t].pc \in LoadedPcs

(* What a thread's kind says of where it is and of what it holds.          *)
Form(t) ==
  /\ thread[t].kind \in Holders /\ ~At(t, "lock") => lock = t
  /\ At(t, "end") => thread[t].kind = "turn"
  /\ At(t, "edit") => thread[t].kind \in Holders
  /\ thread[t].kind = "post" /\ Loaded(t) => Len(thread[t].copy) > 0
  /\ thread[t].kind = "status" /\ Loaded(t) => ~thread[t].running
  /\ thread[t].old => Loaded(t) /\ thread[t].kind \in Visitors
  /\ thread[t].kind = "turn" => active
  /\ thread[t].kind = "none" => At(t, "idle")

OneTurn == \A t, u \in Threads : thread[t].kind = "turn" /\ thread[u].kind = "turn" => t = u

Forms == OneTurn /\ \A t \in Threads : Form(t)

(* While writes do not overlap there is one at a time, the rows have no    *)
(* hole, and a saver knows from the cache which of its messages are there. *)
OneSaver == \A t, u \in Threads : Saving(t) /\ Saving(u) => t = u

KnowsRows(t) ==
  /\ thread[t].pc \in {"length", "write"} =>
       thread[t].from = IF cache = None THEN 1 ELSE Divergence(cache, thread[t].copy)
  /\ At(t, "write") =>
       thread[t].length = IF cache = None THEN None ELSE Len(cache)
  /\ At(t, "record") => rows = thread[t].copy
  /\ At(t, "cutCache") /\ cache # None => rows = Below(cache, thread[t].from)

CacheCurrent ==
  cache # None /\ (\A t \in Threads : thread[t].pc \notin {"record", "cutCache"})
    => rows = cache

Cached ==
  ~overlapped =>
    OneSaver /\ rows \in Seq(Bodies) /\ CacheCurrent /\ \A t \in Threads : KnowsRows(t)

(* A task without the lock whose copy is not old adds nothing to the rows, *)
(* or one message.                                                         *)
Fresh(t) ==
  thread[t].pc \in {"diverge", "length", "write"} /\ thread[t].kind \in Visitors
      /\ ~thread[t].old =>
    IF thread[t].kind = "post" THEN \E b \in Bodies : thread[t].copy = Append(rows, b)
                               ELSE thread[t].copy = rows

Traced ==
  ~overlapped => /\ ~undone => rows = kept
                 /\ \A t \in Threads : Fresh(t)

(* The reset of the status is still to come.                               *)
WillReset(t) ==
  /\ thread[t].kind = "status"
  /\ \/ thread[t].pc \in {"read", "diverge", "length", "write"}
     \/ At(t, "readRows") /\ thread[t].running

Owned ==
  running => \/ active \/ revived \/ used["fault"] + used["crash"] > 0
             \/ \E t \in Threads : WillReset(t)

-----------------------------------------------------------------------------
(* Steps on the types *)

(* What can happen to the threads keeps their records' types.              *)
LEMMA BecomeType ==
  ASSUME thread \in [Threads -> ThreadRecords], NEW t \in Threads,
         NEW m \in ThreadRecords, Become(t, m)
  PROVE  thread' \in [Threads -> ThreadRecords]
BY DEF Become

LEMMA IdleType == Idle \in ThreadRecords
<1>1. <<>> \in Seq(Bodies)
  OBVIOUS
<1>. QED  BY <1>1 DEF Idle, ThreadRecords, Pcs

LEMMA WroteType ==
  ASSUME thread \in [Threads -> ThreadRecords], NEW t \in Threads,
         NEW m \in ThreadRecords, Wrote(t, m)
  PROVE  thread' \in [Threads -> ThreadRecords]
<1>1. \A u \in Threads : [thread[u] EXCEPT !.old = TRUE] \in ThreadRecords
  BY DEF ThreadRecords
<1>. QED  BY <1>1 DEF Wrote

LEMMA GotoType ==
  ASSUME thread \in [Threads -> ThreadRecords], NEW t \in Threads,
         NEW p \in Pcs, Goto(t, p)
  PROVE  thread' \in [Threads -> ThreadRecords]
<1>1. [thread[t] EXCEPT !.pc = p] \in ThreadRecords
  BY DEF ThreadRecords
<1>. QED  BY <1>1, BecomeType DEF Goto

LEMMA LeaveType ==
  ASSUME thread \in [Threads -> ThreadRecords], lock \in Threads \cup {None},
         NEW t \in Threads, Leave(t)
  PROVE  thread' \in [Threads -> ThreadRecords] /\ lock' \in Threads \cup {None}
BY IdleType, BecomeType DEF Leave

LEMMA ArriveType ==
  ASSUME thread \in [Threads -> ThreadRecords], NEW m \in ThreadRecords, Arrive(m)
  PROVE  thread' \in [Threads -> ThreadRecords]
BY BecomeType DEF Arrive

LEMMA CountType ==
  ASSUME used \in [{"turn", "edit", "visit", "cut", "fault", "crash"} -> Nat],
         NEW e \in {"turn", "edit", "visit", "cut", "fault", "crash"}, NEW limit,
         Count(e, limit)
  PROVE  /\ used' \in [{"turn", "edit", "visit", "cut", "fault", "crash"} -> Nat]
         /\ used'[e] = used[e] + 1
         /\ \A d \in {"turn", "edit", "visit", "cut", "fault", "crash"} : used'[d] >= used[d]
BY DEF Count

LEMMA SavedType ==
  ASSUME thread \in [Threads -> ThreadRecords], lock \in Threads \cup {None},
         NEW t \in Threads, Saved(t)
  PROVE  thread' \in [Threads -> ThreadRecords] /\ lock' \in Threads \cup {None}
<1>1. CASE thread[t].kind \in Holders
  <2> DEFINE m == [thread[t] EXCEPT
              !.pc = IF thread[t].kind = "turn" /\ ~thread[t].running THEN "end" ELSE "edit",
              !.first = FALSE, !.from = 1, !.length = None]
  <2>1. m \in ThreadRecords
    <3>1. thread[t] \in ThreadRecords
      OBVIOUS
    <3>2. ASSUME NEW p \in Pcs, NEW r \in ThreadRecords
          PROVE  [r EXCEPT !.pc = p, !.first = FALSE, !.from = 1, !.length = None]
                   \in ThreadRecords
      <4>1. [r EXCEPT !.pc = p, !.first = FALSE] \in ThreadRecords
        BY DEF ThreadRecords
      <4>2. 1 \in Nat \ {0} /\ None \in Nat \cup {None}
        OBVIOUS
      <4>3. \A q \in ThreadRecords, x \in Nat \ {0}, y \in Nat \cup {None} :
              [q EXCEPT !.from = x, !.length = y] \in ThreadRecords
        BY DEF ThreadRecords
      <4>. QED  BY <4>1, <4>2, <4>3
    <3>3. "end" \in Pcs /\ "edit" \in Pcs
      BY DEF Pcs, LoadedPcs
    <3>. QED  BY <3>2, <3>3
  <2>2. Become(t, m) /\ lock' = lock
    BY <1>1 DEF Saved
  <2>. QED  BY <2>1, <2>2, BecomeType
<1>2. CASE thread[t].kind \notin Holders
  BY <1>2, LeaveType DEF Saved
<1>. QED  BY <1>1, <1>2

LEMMA FailedType ==
  ASSUME thread \in [Threads -> ThreadRecords], lock \in Threads \cup {None},
         NEW t \in Threads, Failed(t)
  PROVE  thread' \in [Threads -> ThreadRecords] /\ lock' \in Threads \cup {None}
<1>1. "end" \in Pcs
  BY DEF Pcs
<1>2. Saved(t) \/ (Goto(t, "end") /\ UNCHANGED lock) \/ Leave(t)
  BY Zenon DEF Failed
<1>. QED  BY <1>1, <1>2, SavedType, GotoType, LeaveType

(* What a save writes has no row beyond the old rows and the copy.         *)
LEMMA RewrittenType ==
  ASSUME Types, NEW t \in Threads
  PROVE  /\ Rewritten(t) \in [DOMAIN Rewritten(t) -> Bodies]
         /\ \E n \in Nat : DOMAIN Rewritten(t) \subseteq 1..n
<1> DEFINE s == thread[t].copy
           from == thread[t].from
           deletes == thread[t].length = None \/ thread[t].length >= from
           D == {j \in DOMAIN rows : j < from \/ ~deletes} \cup (from..Len(s))
<1>1. s \in Seq(Bodies) /\ from \in Nat \ {0}
  BY DEF Types, TypeOK, ThreadRecords
<1>2. Len(s) \in Nat /\ \A i \in 1..Len(s) : s[i] \in Bodies
  BY <1>1, OfSequence
<1>3. PICK n \in Nat : DOMAIN rows \subseteq 1..n
  BY DEF Types
<1>4. D \subseteq 1..(n + Len(s)) /\ n + Len(s) \in Nat
  <2>1. \A i \in DOMAIN rows : i \in 1..(n + Len(s))
    BY <1>2, <1>3
  <2>2. \A i \in from..Len(s) : i \in 1..(n + Len(s))
    BY <1>1, <1>2, <1>3
  <2>. HIDE DEF deletes
  <2>. QED  BY <1>2, <1>3, <2>1, <2>2
<1>5. Rewritten(t) = [i \in D |-> IF i \in from..Len(s) THEN s[i] ELSE rows[i]]
  BY DEF Rewritten
<1>6. \A i \in D : (IF i \in from..Len(s) THEN s[i] ELSE rows[i]) \in Bodies
  <2>1. rows \in [DOMAIN rows -> Bodies]
    BY DEF Types, TypeOK
  <2>2. ASSUME NEW i \in D PROVE (IF i \in from..Len(s) THEN s[i] ELSE rows[i]) \in Bodies
    <3>1. CASE i \in from..Len(s)
      <4>1. i \in 1..Len(s)
        BY <1>1, <1>2, <3>1
      <4>. QED  BY <1>2, <3>1, <4>1
    <3>2. CASE i \notin from..Len(s)
      <4>1. i \in DOMAIN rows
        BY <3>2
      <4>. QED  BY <2>1, <3>2, <4>1
    <3>. QED  BY <3>1, <3>2
  <2>. QED  BY <2>2
<1>7. DOMAIN Rewritten(t) = D
  <2>. HIDE DEF D
  <2>. QED  BY <1>5
<1>8. Rewritten(t) \in [D -> Bodies]
  <2>. HIDE DEF D
  <2>. QED  BY <1>5, <1>6
<1>. QED  BY <1>4, <1>7, <1>8

(* Rows below a position. *)
LEMMA BelowRows ==
  ASSUME NEW n \in Nat, NEW D \in SUBSET (1..n), NEW r \in [D -> Bodies], NEW k
  PROVE  /\ Below(r, k) \in [DOMAIN Below(r, k) -> Bodies]
         /\ DOMAIN Below(r, k) \subseteq 1..n
BY DEF Below

LEMMA FirstCopiesType ==
  ASSUME NEW s \in Seq(Bodies), NEW kind, NEW c \in FirstCopies(kind, s)
  PROVE  /\ c \in Seq(Bodies)
         /\ kind = "post" => Len(c) > 0 /\ \E b \in Bodies : c = Append(s, b)
         /\ kind \notin {"turn", "post"} => c = s
<1>1. CASE kind \in {"turn", "post"}
  <2>1. PICK b \in Bodies : c = Append(s, b)
    BY <1>1 DEF FirstCopies, Appended
  <2>2. Len(s) \in Nat
    OBVIOUS
  <2>. QED  BY <1>1, <2>1, <2>2, AppendType
<1>2. CASE kind \notin {"turn", "post"}
  BY <1>2 DEF FirstCopies
<1>. QED  BY <1>1, <1>2

LEMMA EditedType ==
  ASSUME NEW s \in Seq(Bodies),
         NEW new \in Overwritten(s) \cup Compacted(s) \cup Appended(s)
  PROVE  new \in Seq(Bodies)
<1>1. new \in Appended(s) => new \in Seq(Bodies)
  BY AppendType DEF Appended
<1>. QED  BY <1>1, OverwrittenType, CompactedType

(* What get_session loads from the table. *)
LEMMA LoadedRows ==
  ASSUME Types
  PROVE  Load(rows) \in Seq(Bodies)
<1>1. PICK n \in Nat : DOMAIN rows \subseteq 1..n
  BY DEF Types
<1>. QED  BY <1>1, LoadType DEF Types, TypeOK

LEMMA CutRowsType ==
  ASSUME Types, NEW k
  PROVE  /\ Below(rows, k) \in [DOMAIN Below(rows, k) -> Bodies]
         /\ \E n \in Nat : DOMAIN Below(rows, k) \subseteq 1..n
<1>1. PICK n \in Nat : DOMAIN rows \subseteq 1..n
  BY DEF Types
<1>. QED  BY <1>1, BelowRows DEF Types, TypeOK

LEMMA TypesStep ==
  ASSUME Types, Forms, [Next]_vars
  PROVE  Types'
<1>. USE DEF Types, TypeOK, stored, memory, history
<1>1. CASE StartTurn
  <2>1. [Idle EXCEPT !.pc = "lock", !.kind = "turn", !.first = TRUE] \in ThreadRecords
    BY IdleType DEF Idle, ThreadRecords, Pcs, Holders
  <2>. QED  BY <1>1, <2>1, ArriveType, CountType DEF StartTurn
<1>2. CASE StartCompact
  <2>1. [Idle EXCEPT !.pc = "lock", !.kind = "compact"] \in ThreadRecords
    BY IdleType DEF Idle, ThreadRecords, Pcs, Holders
  <2>. QED  BY <1>2, <2>1, ArriveType, CountType DEF StartCompact
<1>3. ASSUME NEW n \in Cuts, StartTruncate(n) PROVE Types'
  <2>1. [Idle EXCEPT !.pc = "lock", !.kind = "truncate", !.from = n] \in ThreadRecords
    BY IdleType, CutsArePositions DEF Idle, ThreadRecords, Pcs, Holders
  <2>. QED  BY <1>3, <2>1, ArriveType, CountType DEF StartTruncate
<1>4. ASSUME NEW kind \in {"field", "post"}, StartVisit(kind) PROVE Types'
  <2>1. [Idle EXCEPT !.pc = "read", !.kind = kind] \in ThreadRecords
    BY IdleType DEF Idle, ThreadRecords, Pcs, Visitors
  <2>. QED  BY <1>4, <2>1, ArriveType, CountType DEF StartVisit
<1>5. CASE Crash
  <2>1. thread' \in [Threads -> ThreadRecords]
    BY <1>5, IdleType DEF Crash
  <2>2. overlapped' \in BOOLEAN
    BY <1>5 DEF Crash
  <2>3. kept' \in Seq(Bodies)
    BY <1>5, LoadedRows DEF Crash
  <2>4. used' \in [{"turn", "edit", "visit", "cut", "fault", "crash"} -> Nat]
    BY <1>5, CountType DEF Crash
  <2>. QED  BY <1>5, <2>1, <2>2, <2>3, <2>4 DEF Crash
<1>6. ASSUME NEW t \in Threads,
             TakeLock(t) \/ Read(t) \/ Save(t) \/ Truncate(t) \/ Work(t)
      PROVE  Types'
  <2>0. thread[t] \in ThreadRecords /\ thread[t].copy \in Seq(Bodies)
          /\ thread[t].from \in Nat \ {0}
    BY DEF ThreadRecords
  <2>1. CASE TakeLock(t)
    <3>1. (IF thread[t].kind = "truncate" THEN "cut" ELSE "read") \in Pcs
      BY DEF Pcs
    <3>. QED  BY <2>1, <3>1, GotoType DEF TakeLock
  <2>2. CASE ReadSession(t)
    <3>1. [thread[t] EXCEPT !.pc = "readRows", !.running = running] \in ThreadRecords
      BY <2>0 DEF ThreadRecords, Pcs
    <3>. QED  BY <2>2, <3>1, BecomeType DEF ReadSession
  <2>3. CASE ReadRows(t)
    <3>1. PICK s \in FirstCopies(thread[t].kind, Load(rows)) :
            Become(t, [thread[t] EXCEPT !.copy = s,
               !.pc = IF thread[t].kind = "compact" THEN "edit" ELSE "diverge",
               !.running = thread[t].kind = "turn" \/ (@ /\ thread[t].kind # "status")])
      BY <2>3 DEF ReadRows
    <3>2. s \in Seq(Bodies)
      BY LoadedRows, FirstCopiesType
    <3>3. \A p \in Pcs, b \in BOOLEAN :
            [thread[t] EXCEPT !.copy = s, !.pc = p, !.running = b] \in ThreadRecords
      BY <2>0, <3>2 DEF ThreadRecords
    <3>4. "edit" \in Pcs /\ "diverge" \in Pcs
      BY DEF Pcs, LoadedPcs
    <3>5. thread[t].running \in BOOLEAN
      BY <2>0 DEF ThreadRecords
    <3>6. \E m \in ThreadRecords : Become(t, m)
      BY <3>1, <3>3, <3>4, <3>5
    <3>. QED  BY <2>3, <3>6, BecomeType DEF ReadRows
  <2>4. CASE ReadsNothingToDo(t)
    BY <2>4, LeaveType DEF ReadsNothingToDo
  <2>5. CASE ReadFails(t)
    BY <2>5, LeaveType, CountType DEF ReadFails, Fault
  <2>6. CASE Diverges(t)
    <3>1. (IF cache = None THEN 1 ELSE Divergence(cache, thread[t].copy)) \in Nat \ {0}
      BY <2>0, DivergenceAgrees
    <3>2. \A f \in Nat \ {0} :
            [thread[t] EXCEPT !.pc = "length", !.from = f] \in ThreadRecords
      BY <2>0 DEF ThreadRecords, Pcs, LoadedPcs
    <3>. QED  BY <2>6, <3>1, <3>2, BecomeType DEF Diverges
  <2>7. CASE ReadsLength(t)
    <3>1. (IF cache = None THEN None ELSE Len(cache)) \in Nat \cup {None}
      BY OfSequence
    <3>2. \A f \in Nat \cup {None} :
            [thread[t] EXCEPT !.pc = "write", !.length = f] \in ThreadRecords
      BY <2>0 DEF ThreadRecords, Pcs, LoadedPcs
    <3>. QED  BY <2>7, <3>1, <3>2, BecomeType DEF ReadsLength
  <2>8. CASE Writes(t)
    <3>1. [thread[t] EXCEPT !.pc = "record"] \in ThreadRecords
      BY <2>0 DEF ThreadRecords, Pcs, LoadedPcs
    <3>2. thread' \in [Threads -> ThreadRecords]
      BY <2>8, <3>1, WroteType DEF Writes
    <3>3. kept' \in Seq(Bodies)
      <4>1. thread[t].kind = "post" => Len(thread[t].copy) > 0
        BY <2>8 DEF Writes, At, Forms, Form, Loaded, LoadedPcs
      <4>2. thread[t].kind = "post" =>
              Append(kept, thread[t].copy[Len(thread[t].copy)]) \in Seq(Bodies)
        <5>1. ASSUME thread[t].kind = "post"
              PROVE  thread[t].copy[Len(thread[t].copy)] \in Bodies
          BY <2>0, <4>1, <5>1, OfSequence
        <5>. QED  BY <5>1, AppendType
      <4>. QED  BY <2>0, <2>8, <4>2 DEF Writes, Holders
    <3>4. undone' \in BOOLEAN /\ revived' \in BOOLEAN /\ running' \in BOOLEAN
      <4>1. thread[t].running \in BOOLEAN /\ thread[t].old \in BOOLEAN
        BY <2>0 DEF ThreadRecords
      <4>. QED  BY <2>8, <4>1 DEF Writes
    <3>5. rows' = Rewritten(t)
      BY <2>8 DEF Writes
    <3>6. rows' \in [DOMAIN rows' -> Bodies] /\ \E n \in Nat : DOMAIN rows' \subseteq 1..n
      BY <3>5, RewrittenType
    <3>7. UNCHANGED <<memory, overlapped, used>>
      BY <2>8 DEF Writes
    <3>. QED  BY <3>2, <3>3, <3>4, <3>6, <3>7
  <2>9. CASE Records(t)
    BY <2>0, <2>9, SavedType DEF Records
  <2>10. CASE WriteFails(t)
    BY <2>10, FailedType, CountType DEF WriteFails, Fault
  <2>11. CASE CutsRows(t)
    <3>1. [thread[t] EXCEPT !.pc = "cutCache"] \in ThreadRecords
      BY <2>0 DEF ThreadRecords, Pcs
    <3>2. thread' \in [Threads -> ThreadRecords]
      BY <2>11, <3>1, WroteType DEF CutsRows
    <3>3. kept' \in Seq(Bodies)
      BY <2>0, <2>11, BelowType DEF CutsRows
    <3>4. rows' = Below(rows, thread[t].from) /\ overlapped' \in BOOLEAN
      BY <2>11 DEF CutsRows
    <3>. QED  BY <2>11, <3>2, <3>3, <3>4, CutRowsType DEF CutsRows
  <2>12. CASE CutsCache(t)
    <3>1. cache' \in Seq(Bodies) \cup {None}
      BY <2>0, <2>12, BelowType DEF CutsCache
    <3>. QED  BY <2>12, <3>1, LeaveType DEF CutsCache
  <2>13. CASE CutFails(t)
    BY <2>13, LeaveType, CountType DEF CutFails, Fault
  <2>14. CASE Edits(t)
    <3>1. PICK new \in Overwritten(thread[t].copy) \cup Compacted(thread[t].copy)
                          \cup Appended(thread[t].copy) :
            Become(t, [thread[t] EXCEPT !.copy = new])
      BY <2>14 DEF Edits
    <3>2. new \in Seq(Bodies)
      BY <2>0, EditedType
    <3>3. [thread[t] EXCEPT !.copy = new] \in ThreadRecords
      BY <2>0, <3>2 DEF ThreadRecords
    <3>. QED  BY <2>14, <3>1, <3>3, BecomeType, CountType DEF Edits
  <2>15. CASE Saves(t)
    <3>1. "diverge" \in Pcs
      BY DEF Pcs, LoadedPcs
    <3>. QED  BY <2>15, <3>1, GotoType DEF Saves
  <2>16. CASE CompactionEnds(t)
    BY <2>16, LeaveType DEF CompactionEnds
  <2>17. CASE TurnCompletes(t)
    <3>1. [thread[t] EXCEPT !.pc = "diverge", !.running = FALSE] \in ThreadRecords
      BY <2>0 DEF ThreadRecords, Pcs, LoadedPcs
    <3>. QED  BY <2>17, <3>1, BecomeType DEF TurnCompletes
  <2>18. CASE TurnAborts(t)
    <3>1. "end" \in Pcs
      BY DEF Pcs
    <3>. QED  BY <2>18, <3>1, GotoType DEF TurnAborts
  <2>19. CASE TurnEnds(t)
    <3>1. [Idle EXCEPT !.pc = "read", !.kind = "status"] \in ThreadRecords
      BY IdleType DEF Idle, ThreadRecords, Pcs, Visitors
    <3>. QED  BY <2>19, <3>1, BecomeType DEF TurnEnds
  <2>. QED
    BY <1>6, <2>1, <2>2, <2>3, <2>4, <2>5, <2>6, <2>7, <2>8, <2>9, <2>10, <2>11, <2>12,
       <2>13, <2>14, <2>15, <2>16, <2>17, <2>18, <2>19 DEF Read, Save, Truncate, Work
<1>7. CASE UNCHANGED vars
  BY <1>7 DEF vars
<1>. QED  BY <1>1, <1>2, <1>3, <1>4, <1>5, <1>6, <1>7 DEF Next

-----------------------------------------------------------------------------
(* Steps on the forms *)

(* A step of t leaves the other threads alone, or tells those without the  *)
(* lock that their copy is old.                                            *)
Others(t) ==
  \A u \in Threads \ {t} :
    \/ thread'[u] = thread[u]
    \/ /\ thread'[u] = [thread[u] EXCEPT !.old = TRUE]
       /\ Loaded(u) /\ thread[u].kind \in Visitors

LEMMA BecomeOthers ==
  ASSUME thread \in [Threads -> ThreadRecords], NEW t \in Threads, NEW m, Become(t, m)
  PROVE  thread'[t] = m /\ Others(t) /\ \A u \in Threads \ {t} : thread'[u] = thread[u]
BY DEF Become, Others

LEMMA WroteOthers ==
  ASSUME Types, Forms, NEW t \in Threads, NEW m, Wrote(t, m),
         thread[t].pc \in {"write", "cut"}
  PROVE  thread'[t] = m /\ Others(t)
<1>1. thread'[t] = m
  BY DEF Wrote
<1>2. ASSUME NEW u \in Threads \ {t}, Outdates(t, u)
      PROVE  Loaded(u) /\ thread[u].kind \in Visitors
  <2>1. Loaded(u) /\ ~At(u, "lock") /\ ~At(t, "lock") /\ ~At(u, "idle")
    BY <1>2 DEF Outdates, Loaded, LoadedPcs, At
  <2>2. ~(thread[t].kind \in Holders /\ thread[u].kind \in Holders)
    BY <2>1 DEF Forms, Form
  <2>3. thread[u].kind \in {"none"} \cup Holders \cup Visitors
    BY DEF Types, TypeOK, ThreadRecords
  <2>4. thread[u].kind # "none"
    BY <2>1 DEF Forms, Form
  <2>. QED  BY <1>2, <2>1, <2>2, <2>3, <2>4 DEF Outdates
<1>3. Others(t)
  BY <1>2 DEF Others, Wrote
<1>. QED  BY <1>1, <1>3

LEMMA FormsBy ==
  ASSUME Types, Forms, NEW t \in Threads, Others(t), Form(t)',
         lock' = lock \/ lock \in {None, t},
         (active => active') \/ thread[t].kind = "turn",
         thread'[t].kind = "turn" => thread[t].kind = "turn" \/ ~active
  PROVE  Forms'
<1>1. ASSUME NEW u \in Threads \ {t}
      PROVE  /\ thread'[u].kind = thread[u].kind /\ thread'[u].pc = thread[u].pc
             /\ thread'[u].copy = thread[u].copy /\ thread'[u].running = thread[u].running
             /\ thread'[u].old => thread[u].old \/ (Loaded(u) /\ thread[u].kind \in Visitors)
  <2>1. CASE thread'[u] = thread[u]
    BY <2>1
  <2>2. CASE thread'[u] = [thread[u] EXCEPT !.old = TRUE]
             /\ Loaded(u) /\ thread[u].kind \in Visitors
    <3>1. thread[u] \in ThreadRecords
      BY DEF Types, TypeOK
    <3>. QED  BY <2>2, <3>1 DEF ThreadRecords
  <2>. QED  BY <2>1, <2>2 DEF Others
<1>2. \A u \in Threads \ {t} : thread[u].kind = "turn" => active' /\ thread'[t].kind # "turn"
  BY DEF Forms, Form, OneTurn
<1>3. OneTurn'
  BY <1>1, <1>2 DEF OneTurn, Forms
<1>4. ASSUME NEW u \in Threads \ {t} PROVE Form(u)'
  <2>1. Form(u)
    BY DEF Forms
  <2>2. u # None
    BY NoneIsNothing
  <2>. QED  BY <1>1, <1>2, <1>4, <2>1, <2>2 DEF Form, At, Loaded
<1>. QED  BY <1>3, <1>4 DEF Forms

LEMMA IdleForm ==
  ASSUME NEW t \in Threads, thread'[t] = Idle
  PROVE  Form(t)' /\ thread'[t].kind = "none"
BY DEF Idle, Form, At, Loaded, LoadedPcs, Holders, Visitors

LEMMA LeaveForms ==
  ASSUME Types, Forms, NEW t \in Threads, Leave(t),
         (active => active') \/ thread[t].kind = "turn"
  PROVE  Forms'
<1>1. thread'[t] = Idle /\ Others(t)
  BY BecomeOthers DEF Leave, Types, TypeOK
<1>2. lock' = lock \/ lock \in {None, t}
  BY DEF Leave
<1>3. Form(t)' /\ thread'[t].kind = "none"
  BY <1>1, IdleForm
<1>. QED  BY <1>1, <1>2, <1>3, FormsBy

(* A thread with the lock, at a new place.                                 *)
LEMMA SavedForms ==
  ASSUME Types, Forms, NEW t \in Threads, Saved(t), UNCHANGED active, Saving(t)
  PROVE  Forms'
<1>1. CASE thread[t].kind \in Holders
  <2>0. thread[t] \in ThreadRecords
    BY DEF Types, TypeOK
  <2> DEFINE p == IF thread[t].kind = "turn" /\ ~thread[t].running THEN "end" ELSE "edit"
             m == [thread[t] EXCEPT !.pc = p, !.first = FALSE, !.from = 1, !.length = None]
  <2>1. Become(t, m) /\ lock' = lock
    BY <1>1 DEF Saved
  <2>2. thread'[t] = m /\ Others(t)
    BY <2>1, BecomeOthers DEF Types, TypeOK
  <2>3. /\ m.kind = thread[t].kind /\ m.pc = p /\ m.old = thread[t].old
        /\ m.copy = thread[t].copy /\ m.running = thread[t].running
    BY <2>0 DEF ThreadRecords
  <2>4. Form(t) /\ ~At(t, "lock")
    BY DEF Forms, Saving, SavingPcs, At
  <2>5. thread[t].kind \notin Visitors /\ thread[t].kind \notin {"none", "post", "status"}
    BY <1>1 DEF Holders, Visitors
  <2>6. Form(t)'
    BY <1>1, <2>1, <2>2, <2>3, <2>4, <2>5 DEF Form, At, Loaded
  <2>. QED  BY <2>1, <2>2, <2>3, <2>6, FormsBy
<1>2. CASE thread[t].kind \notin Holders
  BY <1>2, LeaveForms DEF Saved
<1>. QED  BY <1>1, <1>2

(* A thread that goes on from one place to another.                        *)
LEMMA GoesOnForms ==
  ASSUME Types, Forms, NEW t \in Threads, NEW m \in ThreadRecords,
         thread'[t] = m, Others(t), UNCHANGED <<lock, active>>,
         ~At(t, "lock"), ~At(t, "idle"),
         m.kind = thread[t].kind, m.old = thread[t].old,
         m.pc \in LoadedPcs \cup {"end", "readRows", "cutCache"},
         m.pc \notin LoadedPcs => ~m.old,
         m.pc = "end" => m.kind = "turn",
         m.pc = "edit" => m.kind \in Holders,
         m.pc \in LoadedPcs /\ m.kind = "post" => Len(m.copy) > 0,
         m.pc \in LoadedPcs /\ m.kind = "status" => ~m.running
  PROVE  Forms'
<1>1. Form(t)
  BY DEF Forms
<1>2. Form(t)'
  BY <1>1 DEF Form, At, Loaded
<1>. QED  BY <1>2, FormsBy

LEMMA FormsStep ==
  ASSUME Types, Forms, [Next]_vars
  PROVE  Forms'
<1>. USE DEF memory
<1>a. thread \in [Threads -> ThreadRecords]
  BY DEF Types, TypeOK
<1>1. CASE StartTurn
  <2>1. PICK t \in Threads :
          Become(t, [Idle EXCEPT !.pc = "lock", !.kind = "turn", !.first = TRUE])
    BY <1>1 DEF StartTurn, Arrive
  <2>2. thread'[t] = [Idle EXCEPT !.pc = "lock", !.kind = "turn", !.first = TRUE] /\ Others(t)
    BY <1>a, <2>1, BecomeOthers
  <2>3. thread'[t].pc = "lock" /\ thread'[t].kind = "turn" /\ ~thread'[t].old
    BY <2>2 DEF Idle
  <2>4. Form(t)'
    BY <1>1, <2>3 DEF StartTurn, Form, At, Loaded, LoadedPcs
  <2>. QED  BY <1>1, <2>2, <2>4, FormsBy DEF StartTurn
<1>2. CASE StartCompact
  <2>1. PICK t \in Threads : Become(t, [Idle EXCEPT !.pc = "lock", !.kind = "compact"])
    BY <1>2 DEF StartCompact, Arrive
  <2>2. thread'[t] = [Idle EXCEPT !.pc = "lock", !.kind = "compact"] /\ Others(t)
    BY <1>a, <2>1, BecomeOthers
  <2>3. thread'[t].pc = "lock" /\ thread'[t].kind = "compact" /\ ~thread'[t].old
    BY <2>2 DEF Idle
  <2>4. Form(t)'
    BY <1>2, <2>3 DEF StartCompact, Form, At, Loaded, LoadedPcs
  <2>. QED  BY <1>2, <2>2, <2>3, <2>4, FormsBy DEF StartCompact
<1>3. ASSUME NEW n \in Cuts, StartTruncate(n) PROVE Forms'
  <2>1. PICK t \in Threads :
          Become(t, [Idle EXCEPT !.pc = "lock", !.kind = "truncate", !.from = n])
    BY <1>3 DEF StartTruncate, Arrive
  <2>2. thread'[t] = [Idle EXCEPT !.pc = "lock", !.kind = "truncate", !.from = n] /\ Others(t)
    BY <1>a, <2>1, BecomeOthers
  <2>3. thread'[t].pc = "lock" /\ thread'[t].kind = "truncate" /\ ~thread'[t].old
    BY <2>2 DEF Idle
  <2>4. Form(t)'
    BY <1>3, <2>3 DEF StartTruncate, Form, At, Loaded, LoadedPcs
  <2>. QED  BY <1>3, <2>2, <2>3, <2>4, FormsBy DEF StartTruncate
<1>4. ASSUME NEW kind \in {"field", "post"}, StartVisit(kind) PROVE Forms'
  <2>1. PICK t \in Threads : Become(t, [Idle EXCEPT !.pc = "read", !.kind = kind])
    BY <1>4 DEF StartVisit, Arrive
  <2>2. thread'[t] = [Idle EXCEPT !.pc = "read", !.kind = kind] /\ Others(t)
    BY <1>a, <2>1, BecomeOthers
  <2>3. thread'[t].pc = "read" /\ thread'[t].kind = kind /\ ~thread'[t].old
    BY <2>2 DEF Idle
  <2>4. Form(t)'
    BY <1>4, <2>3 DEF StartVisit, Form, At, Loaded, LoadedPcs, Holders
  <2>. QED  BY <1>4, <2>2, <2>3, <2>4, FormsBy DEF StartVisit
<1>5. CASE Crash
  <2>1. \A t \in Threads : thread'[t] = Idle
    BY <1>5 DEF Crash
  <2>2. \A t \in Threads : Form(t)' /\ thread'[t].kind = "none"
    BY <2>1, IdleForm
  <2>. QED  BY <2>2 DEF Forms, OneTurn
<1>6. ASSUME NEW t \in Threads,
             TakeLock(t) \/ Read(t) \/ Save(t) \/ Truncate(t) \/ Work(t)
      PROVE  Forms'
  <2>0. thread[t] \in ThreadRecords /\ thread[t].copy \in Seq(Bodies) /\ Form(t)
    BY <1>a DEF ThreadRecords, Forms
  <2> DEFINE Here == thread[t]
  <2>1. CASE TakeLock(t)
    <3> DEFINE p == IF thread[t].kind = "truncate" THEN "cut" ELSE "read"
    <3>1. thread'[t] = [Here EXCEPT !.pc = p] /\ Others(t)
      BY <1>a, <2>1, BecomeOthers DEF TakeLock, Goto
    <3>2. thread'[t].pc \in {"cut", "read"} /\ thread'[t].kind = Here.kind
            /\ thread'[t].old = Here.old
      BY <2>0, <3>1 DEF ThreadRecords
    <3>3. lock = None /\ lock' = t /\ active' = active /\ At(t, "lock")
      BY <2>1 DEF TakeLock
    <3>4. Form(t)'
      BY <2>0, <3>2, <3>3 DEF Form, At, Loaded, LoadedPcs
    <3>. QED  BY <3>1, <3>2, <3>3, <3>4, FormsBy
  <2>2. CASE ReadSession(t)
    <3> DEFINE m == [Here EXCEPT !.pc = "readRows", !.running = running]
    <3>1. m.kind = Here.kind /\ m.old = Here.old /\ m.pc = "readRows" /\ m \in ThreadRecords
      BY <2>0 DEF ThreadRecords, Pcs, Types, TypeOK
    <3>2. At(t, "read") /\ Become(t, m) /\ UNCHANGED <<lock, active>>
      BY <2>2 DEF ReadSession
    <3>3. ~m.old
      BY <2>0, <3>1, <3>2 DEF Form, At, Loaded, LoadedPcs
    <3>. HIDE DEF m
    <3>. QED  BY <1>a, <3>1, <3>2, <3>3, BecomeOthers, GoesOnForms DEF At, LoadedPcs
  <2>3. CASE ReadRows(t)
    <3>1. PICK s \in FirstCopies(thread[t].kind, Load(rows)) :
            Become(t, [thread[t] EXCEPT !.copy = s,
               !.pc = IF thread[t].kind = "compact" THEN "edit" ELSE "diverge",
               !.running = thread[t].kind = "turn" \/ (@ /\ thread[t].kind # "status")])
      BY <2>3 DEF ReadRows
    <3> DEFINE p == IF Here.kind = "compact" THEN "edit" ELSE "diverge"
               r == Here.kind = "turn" \/ (Here.running /\ Here.kind # "status")
               m == [Here EXCEPT !.copy = s, !.pc = p, !.running = r]
    <3>2. s \in Seq(Bodies) /\ (Here.kind = "post" => Len(s) > 0)
      BY LoadedRows, FirstCopiesType
    <3>3. p \in Pcs /\ r \in BOOLEAN
      BY <2>0 DEF Pcs, LoadedPcs
    <3>4. /\ m.kind = Here.kind /\ m.old = Here.old /\ m.pc = p /\ m.copy = s
          /\ m.running = r /\ m \in ThreadRecords
      <4>. HIDE DEF p, r
      <4>. QED  BY <2>0, <3>2, <3>3 DEF ThreadRecords
    <3>5. Become(t, m)
      BY <3>1
    <3>6. At(t, "readRows") /\ UNCHANGED <<lock, active>>
      BY <2>3 DEF ReadRows
    <3>. HIDE DEF m
    <3>. QED
      BY <1>a, <3>2, <3>4, <3>5, <3>6, BecomeOthers, GoesOnForms DEF At, LoadedPcs, Holders
  <2>4. CASE ReadsNothingToDo(t)
    BY <2>4, LeaveForms DEF ReadsNothingToDo
  <2>5. CASE ReadFails(t)
    BY <2>5, LeaveForms DEF ReadFails
  <2>6. CASE Diverges(t)
    <3> DEFINE f == IF cache = None THEN 1 ELSE Divergence(cache, thread[t].copy)
               m == [Here EXCEPT !.pc = "length", !.from = f]
    <3>1. f \in Nat \ {0}
      BY <2>0, DivergenceAgrees DEF Types, TypeOK
    <3>2. /\ m.kind = Here.kind /\ m.old = Here.old /\ m.pc = "length"
          /\ m.copy = Here.copy /\ m.running = Here.running /\ m \in ThreadRecords
      <4>. HIDE DEF f
      <4>. QED  BY <2>0, <3>1 DEF ThreadRecords, Pcs, LoadedPcs
    <3>3. At(t, "diverge") /\ Become(t, m) /\ UNCHANGED <<lock, active>>
      BY <2>6 DEF Diverges
    <3>4. /\ Here.kind = "post" => Len(Here.copy) > 0
          /\ Here.kind = "status" => ~Here.running
      BY <2>0, <3>3 DEF Form, At, Loaded, LoadedPcs
    <3>. HIDE DEF m
    <3>. QED  BY <1>a, <3>2, <3>3, <3>4, BecomeOthers, GoesOnForms DEF At, LoadedPcs
  <2>7. CASE ReadsLength(t)
    <3> DEFINE f == IF cache = None THEN None ELSE Len(cache)
               m == [Here EXCEPT !.pc = "write", !.length = f]
    <3>1. f \in Nat \cup {None}
      BY OfSequence DEF Types, TypeOK
    <3>2. /\ m.kind = Here.kind /\ m.old = Here.old /\ m.pc = "write"
          /\ m.copy = Here.copy /\ m.running = Here.running /\ m \in ThreadRecords
      <4>. HIDE DEF f
      <4>. QED  BY <2>0, <3>1 DEF ThreadRecords, Pcs, LoadedPcs
    <3>3. At(t, "length") /\ Become(t, m) /\ UNCHANGED <<lock, active>>
      BY <2>7 DEF ReadsLength
    <3>4. /\ Here.kind = "post" => Len(Here.copy) > 0
          /\ Here.kind = "status" => ~Here.running
      BY <2>0, <3>3 DEF Form, At, Loaded, LoadedPcs
    <3>. HIDE DEF m
    <3>. QED  BY <1>a, <3>2, <3>3, <3>4, BecomeOthers, GoesOnForms DEF At, LoadedPcs
  <2>8. CASE Writes(t)
    <3> DEFINE m == [Here EXCEPT !.pc = "record"]
    <3>1. /\ m.kind = Here.kind /\ m.old = Here.old /\ m.pc = "record"
          /\ m.copy = Here.copy /\ m.running = Here.running /\ m \in ThreadRecords
      BY <2>0 DEF ThreadRecords, Pcs, LoadedPcs
    <3>2. At(t, "write") /\ Wrote(t, m) /\ UNCHANGED <<lock, active>>
      BY <2>8 DEF Writes
    <3>3. /\ Here.kind = "post" => Len(Here.copy) > 0
          /\ Here.kind = "status" => ~Here.running
      BY <2>0, <3>2 DEF Form, At, Loaded, LoadedPcs
    <3>4. thread'[t] = m /\ Others(t)
      <4>. HIDE DEF m
      <4>. QED  BY <3>2, WroteOthers DEF At
    <3>. HIDE DEF m
    <3>. QED  BY <3>1, <3>2, <3>3, <3>4, GoesOnForms DEF At, LoadedPcs
  <2>9. CASE Records(t)
    BY <2>9, SavedForms DEF Records, Saving, SavingPcs, At
  <2>10. CASE WriteFails(t)
    <3>1. At(t, "write") /\ Failed(t) /\ active' = active
      BY <2>10 DEF WriteFails
    <3>2. CASE Saved(t)
      BY <3>1, <3>2, SavedForms DEF Saving, SavingPcs, At
    <3>3. CASE Leave(t)
      BY <3>1, <3>3, LeaveForms
    <3>4. CASE thread[t].kind = "turn" /\ Goto(t, "end") /\ UNCHANGED lock
      <4> DEFINE m == [Here EXCEPT !.pc = "end"]
      <4>1. m.kind = Here.kind /\ m.old = Here.old /\ m.pc = "end" /\ m \in ThreadRecords
        BY <2>0 DEF ThreadRecords, Pcs
      <4>2. Become(t, m)
        BY <3>4 DEF Goto
      <4>3. ~m.old
        BY <2>0, <3>4, <4>1 DEF Form, Visitors
      <4>. HIDE DEF m
      <4>. QED  BY <1>a, <3>1, <3>4, <4>1, <4>2, <4>3, BecomeOthers, GoesOnForms DEF At, LoadedPcs
    <3>. QED  BY <3>1, <3>2, <3>3, <3>4, Zenon DEF Failed
  <2>11. CASE CutsRows(t)
    <3> DEFINE m == [Here EXCEPT !.pc = "cutCache"]
    <3>1. m.kind = Here.kind /\ m.old = Here.old /\ m.pc = "cutCache" /\ m \in ThreadRecords
      BY <2>0 DEF ThreadRecords, Pcs
    <3>2. At(t, "cut") /\ Wrote(t, m) /\ UNCHANGED <<lock, active>>
      BY <2>11 DEF CutsRows
    <3>3. ~m.old
      BY <2>0, <3>1, <3>2 DEF Form, At, Loaded, LoadedPcs
    <3>4. thread'[t] = m /\ Others(t)
      <4>. HIDE DEF m
      <4>. QED  BY <3>2, WroteOthers DEF At
    <3>. HIDE DEF m
    <3>. QED  BY <3>1, <3>2, <3>3, <3>4, GoesOnForms DEF At, LoadedPcs
  <2>12. CASE CutsCache(t)
    BY <2>12, LeaveForms DEF CutsCache
  <2>13. CASE CutFails(t)
    BY <2>13, LeaveForms DEF CutFails
  <2>14. CASE Edits(t)
    <3>1. PICK new \in Overwritten(thread[t].copy) \cup Compacted(thread[t].copy)
                          \cup Appended(thread[t].copy) :
            Become(t, [thread[t] EXCEPT !.copy = new])
      BY <2>14 DEF Edits
    <3> DEFINE m == [Here EXCEPT !.copy = new]
    <3>2. new \in Seq(Bodies)
      BY <2>0, EditedType
    <3>3. m.kind = Here.kind /\ m.old = Here.old /\ m.pc = Here.pc /\ m \in ThreadRecords
      BY <2>0, <3>2 DEF ThreadRecords
    <3>4. At(t, "edit") /\ Become(t, m) /\ UNCHANGED <<lock, active>>
      BY <2>14, <3>1 DEF Edits
    <3>5. Here.kind \in Holders
      BY <2>0, <3>4 DEF Form
    <3>. HIDE DEF m
    <3>. QED
      BY <1>a, <3>3, <3>4, <3>5, BecomeOthers, GoesOnForms DEF At, LoadedPcs, Holders
  <2>15. CASE Saves(t)
    <3> DEFINE m == [Here EXCEPT !.pc = "diverge"]
    <3>1. m.kind = Here.kind /\ m.old = Here.old /\ m.pc = "diverge" /\ m \in ThreadRecords
      BY <2>0 DEF ThreadRecords, Pcs, LoadedPcs
    <3>2. At(t, "edit") /\ Become(t, m) /\ UNCHANGED <<lock, active>>
      BY <2>15 DEF Saves, Goto
    <3>3. Here.kind \in Holders
      BY <2>0, <3>2 DEF Form
    <3>. HIDE DEF m
    <3>. QED
      BY <1>a, <3>1, <3>2, <3>3, BecomeOthers, GoesOnForms DEF At, LoadedPcs, Holders
  <2>16. CASE CompactionEnds(t)
    BY <2>16, LeaveForms DEF CompactionEnds
  <2>17. CASE TurnCompletes(t)
    <3> DEFINE m == [Here EXCEPT !.pc = "diverge", !.running = FALSE]
    <3>1. m.kind = Here.kind /\ m.old = Here.old /\ m.pc = "diverge" /\ m \in ThreadRecords
      BY <2>0 DEF ThreadRecords, Pcs, LoadedPcs
    <3>2. At(t, "edit") /\ Here.kind = "turn" /\ Become(t, m) /\ UNCHANGED <<lock, active>>
      BY <2>17 DEF TurnCompletes
    <3>. HIDE DEF m
    <3>. QED
      BY <1>a, <3>1, <3>2, BecomeOthers, GoesOnForms DEF At, LoadedPcs
  <2>18. CASE TurnAborts(t)
    <3> DEFINE m == [Here EXCEPT !.pc = "end"]
    <3>1. m.kind = Here.kind /\ m.old = Here.old /\ m.pc = "end" /\ m \in ThreadRecords
      BY <2>0 DEF ThreadRecords, Pcs
    <3>2. At(t, "edit") /\ Here.kind = "turn" /\ Become(t, m) /\ UNCHANGED <<lock, active>>
      BY <2>18 DEF TurnAborts, Goto
    <3>3. ~m.old
      BY <2>0, <3>1, <3>2 DEF Form, Visitors
    <3>. HIDE DEF m
    <3>. QED
      BY <1>a, <3>1, <3>2, <3>3, BecomeOthers, GoesOnForms DEF At, LoadedPcs
  <2>19. CASE TurnEnds(t)
    <3>1. thread'[t] = [Idle EXCEPT !.pc = "read", !.kind = "status"] /\ Others(t)
      BY <1>a, <2>19, BecomeOthers DEF TurnEnds
    <3>2. thread'[t].pc = "read" /\ thread'[t].kind = "status" /\ ~thread'[t].old
      BY <3>1 DEF Idle
    <3>3. Here.kind = "turn" /\ lock = t
      BY <2>0, <2>19 DEF TurnEnds, Form, At, Holders
    <3>4. Form(t)'
      BY <3>2 DEF Form, At, Loaded, LoadedPcs, Holders
    <3>. QED  BY <3>1, <3>2, <3>3, <3>4, FormsBy
  <2>. QED
    BY <1>6, <2>1, <2>2, <2>3, <2>4, <2>5, <2>6, <2>7, <2>8, <2>9, <2>10, <2>11, <2>12,
       <2>13, <2>14, <2>15, <2>16, <2>17, <2>18, <2>19 DEF Read, Save, Truncate, Work
<1>7. CASE UNCHANGED vars
  BY <1>7 DEF vars, Forms, OneTurn, Form, At, Loaded
<1>. QED  BY <1>1, <1>2, <1>3, <1>4, <1>5, <1>6, <1>7 DEF Next

-----------------------------------------------------------------------------
(* Steps on the cache *)

(* Two transcripts with the same messages are the same.                    *)
LEMMA SameSequence ==
  ASSUME NEW s \in Seq(Bodies), NEW f, f = [i \in 1..Len(s) |-> f[i]],
         \A i \in 1..Len(s) : f[i] = s[i]
  PROVE  f = s
<1>1. s = [i \in 1..Len(s) |-> s[i]]
  BY OfSequence
<1>. QED  BY <1>1

(* With a cache that tells the rows, the transaction leaves the copy.      *)
LEMMA RewrittenIsCopy ==
  ASSUME Types, NEW t \in Threads, At(t, "write"), KnowsRows(t),
         rows \in Seq(Bodies), cache # None => rows = cache
  PROVE  Rewritten(t) = thread[t].copy
<1> DEFINE s == thread[t].copy
           from == thread[t].from
           deletes == thread[t].length = None \/ thread[t].length >= from
           D == {j \in DOMAIN rows : j < from \/ ~deletes} \cup (from..Len(s))
<1>1. /\ from = IF cache = None THEN 1 ELSE Divergence(cache, s)
      /\ thread[t].length = IF cache = None THEN None ELSE Len(cache)
  BY DEF KnowsRows, At
<1>2. s \in Seq(Bodies) /\ from \in Nat \ {0} /\ Len(s) \in Nat
  BY DEF Types, TypeOK, ThreadRecords
<1>3. DOMAIN rows = 1..Len(rows) /\ Len(rows) \in Nat
  BY OfSequence
<1>4. /\ from <= Len(s) + 1
      /\ \A i \in 1..(from - 1) : i \in DOMAIN rows => rows[i] = s[i]
      /\ \A j \in DOMAIN rows : j < from \/ deletes
      /\ 1..(from - 1) \subseteq DOMAIN rows
  <2>1. CASE cache = None
    BY <1>1, <1>2, <2>1
  <2>2. CASE cache # None
    <3>1. from = Divergence(rows, s) /\ thread[t].length = Len(rows)
      BY <1>1, <2>2
    <3>2. from <= Len(rows) + 1 /\ from <= Len(s) + 1 /\ \A i \in 1..(from - 1) : rows[i] = s[i]
      BY <1>2, <3>1, DivergenceAgrees
    <3>. QED  BY <1>2, <1>3, <3>1, <3>2
  <2>. QED  BY <2>1, <2>2
<1>5. D = 1..Len(s)
  <2>1. \A j \in DOMAIN rows : (j < from \/ ~deletes) <=> j < from
    BY <1>4
  <2>2. {j \in DOMAIN rows : j < from \/ ~deletes} = 1..(from - 1)
    BY <1>2, <1>3, <1>4, <2>1
  <2>. QED  BY <1>2, <1>4, <2>2
<1>6. Rewritten(t) = [i \in D |-> IF i \in from..Len(s) THEN s[i] ELSE rows[i]]
  BY DEF Rewritten
<1>7. Rewritten(t) = [i \in 1..Len(s) |-> IF i \in from..Len(s) THEN s[i] ELSE rows[i]]
  <2>. HIDE DEF D
  <2>. QED  BY <1>5, <1>6
<1>8. ASSUME NEW i \in 1..Len(s) PROVE Rewritten(t)[i] = s[i]
  <2>1. i \notin from..Len(s) => i \in 1..(from - 1)
    BY <1>2
  <2>2. i \notin from..Len(s) => rows[i] = s[i]
    BY <1>4, <2>1
  <2>. QED  BY <1>7, <2>2
<1>. QED
  <2>1. Rewritten(t) = [i \in 1..Len(s) |-> Rewritten(t)[i]]
    BY <1>7
  <2>. QED  BY <1>2, <1>8, <2>1, SameSequence

(* What a step of t says of the saves of the others. *)
LEMMA CachedBy ==
  ASSUME Types, Cached, NEW t \in Threads, Others(t),
         ~overlapped' =>
           /\ ~overlapped
           /\ rows' \in Seq(Bodies) /\ KnowsRows(t)' /\ CacheCurrent'
           /\ Saving(t)' => Saving(t) \/ ~SomeoneElseSaves(t)
           /\ UNCHANGED <<rows, cache>> \/ ~SomeoneElseSaves(t)
  PROVE  Cached'
<1>1. ASSUME NEW u \in Threads \ {t}
      PROVE  /\ thread'[u].pc = thread[u].pc /\ thread'[u].copy = thread[u].copy
             /\ thread'[u].from = thread[u].from /\ thread'[u].length = thread[u].length
  <2>1. thread[u] \in ThreadRecords
    BY DEF Types, TypeOK
  <2>2. thread'[u] = thread[u] \/ thread'[u] = [thread[u] EXCEPT !.old = TRUE]
    BY DEF Others
  <2>. QED  BY <2>1, <2>2 DEF ThreadRecords
<1>2. SUFFICES ASSUME ~overlapped'
               PROVE  OneSaver' /\ \A u \in Threads \ {t} : KnowsRows(u)'
  BY DEF Cached
<1>3. OneSaver /\ \A u \in Threads : KnowsRows(u)
  BY <1>2 DEF Cached
<1>4. OneSaver'
  BY <1>1, <1>2, <1>3 DEF OneSaver, Saving, SomeoneElseSaves
<1>5. ASSUME NEW u \in Threads \ {t} PROVE KnowsRows(u)'
  <2>1. CASE UNCHANGED <<rows, cache>>
    BY <1>1, <1>3, <1>5, <2>1 DEF KnowsRows, At
  <2>2. CASE ~SomeoneElseSaves(t)
    BY <1>1, <1>5, <2>2 DEF KnowsRows, At, SomeoneElseSaves, Saving, SavingPcs
  <2>. QED  BY <1>2, <2>1, <2>2
<1>. QED  BY <1>4, <1>5

(* A step that writes nothing and is not about a save.                     *)
LEMMA CachedQuiet ==
  ASSUME Types, Cached, NEW t \in Threads, Others(t),
         UNCHANGED <<rows, cache, overlapped>>,
         thread[t].pc \notin {"record", "cutCache"}, ~Saving(t)'
  PROVE  Cached'
<1>1. KnowsRows(t)'
  BY DEF KnowsRows, At, Saving, SavingPcs
<1>2. CacheCurrent => CacheCurrent'
  <2>1. ASSUME NEW u \in Threads \ {t} PROVE thread'[u].pc = thread[u].pc
    <3>1. thread[u] \in ThreadRecords
      BY DEF Types, TypeOK
    <3>. QED  BY <3>1 DEF Others, ThreadRecords
  <2>. QED  BY <2>1 DEF CacheCurrent
<1>. QED  BY <1>1, <1>2, CachedBy DEF Cached

(* Where the common moves take a thread. *)
LEMMA LeaveMoves ==
  ASSUME Types, NEW t \in Threads, Leave(t)
  PROVE  Others(t) /\ thread'[t] = Idle /\ thread'[t].pc = "idle" /\ thread'[t].kind = "none"
BY BecomeOthers DEF Leave, Types, TypeOK, Idle

LEMMA GotoMoves ==
  ASSUME Types, NEW t \in Threads, NEW p, Goto(t, p)
  PROVE  /\ Others(t) /\ thread'[t].pc = p
         /\ thread'[t].kind = thread[t].kind /\ thread'[t].running = thread[t].running
<1>1. thread[t] \in ThreadRecords
  BY DEF Types, TypeOK
<1>2. thread'[t] = [thread[t] EXCEPT !.pc = p] /\ Others(t)
  BY BecomeOthers DEF Goto, Types, TypeOK
<1>. QED  BY <1>1, <1>2 DEF ThreadRecords

LEMMA ArriveMoves ==
  ASSUME Types, NEW m, Arrive(m)
  PROVE  \E t \in Threads : At(t, "idle") /\ Others(t) /\ thread'[t] = m
BY BecomeOthers DEF Arrive, Types, TypeOK

LEMMA SavedMoves ==
  ASSUME Types, NEW t \in Threads, Saved(t)
  PROVE  /\ Others(t) /\ thread'[t].pc \in {"end", "edit", "idle"}
         /\ thread[t].kind \notin Holders => thread'[t] = Idle
         /\ thread[t].kind \in Holders => thread'[t].kind = thread[t].kind
<1>1. CASE thread[t].kind \in Holders
  <2> DEFINE p == IF thread[t].kind = "turn" /\ ~thread[t].running THEN "end" ELSE "edit"
  <2>1. thread[t] \in ThreadRecords
    BY DEF Types, TypeOK
  <2>2. Become(t, [thread[t] EXCEPT !.pc = p, !.first = FALSE, !.from = 1, !.length = None])
    BY <1>1 DEF Saved
  <2>3. /\ Others(t)
        /\ thread'[t] = [thread[t] EXCEPT !.pc = p, !.first = FALSE, !.from = 1, !.length = None]
    BY <2>2, BecomeOthers DEF Types, TypeOK
  <2>4. thread'[t].pc = p /\ thread'[t].kind = thread[t].kind
    <3>. HIDE DEF p
    <3>. QED  BY <2>1, <2>3 DEF ThreadRecords
  <2>. QED  BY <1>1, <2>3, <2>4
<1>2. CASE thread[t].kind \notin Holders
  BY <1>2, LeaveMoves DEF Saved
<1>. QED  BY <1>1, <1>2

LEMMA FailedMoves ==
  ASSUME Types, NEW t \in Threads, Failed(t)
  PROVE  Others(t) /\ thread'[t].pc \in {"end", "edit", "idle"}
<1>1. Saved(t) \/ Goto(t, "end") \/ Leave(t)
  BY Zenon DEF Failed
<1>. QED  BY <1>1, SavedMoves, GotoMoves, LeaveMoves

(* A transcript has all its positions, and rows that have them are one.    *)
LEMMA TranscriptRows ==
  ASSUME Types, IsTranscript(rows)
  PROVE  rows \in Seq(Bodies)
<1>1. PICK n \in Nat : DOMAIN rows \subseteq 1..n
  BY DEF Types
<1>2. Cardinality(DOMAIN rows) \in Nat
  BY <1>1, PositionsFinite
<1>3. rows \in [1..Cardinality(DOMAIN rows) -> Bodies]
  BY DEF Types, TypeOK, IsTranscript
<1>. QED  BY <1>2, <1>3, IsSequence

LEMMA CachedStep ==
  ASSUME Types, Forms, Cached, [Next]_vars
  PROVE  Cached'
<1>. USE DEF stored, memory, history
<1>1. CASE StartTurn
  <2>1. PICK t \in Threads : At(t, "idle") /\ Others(t)
               /\ thread'[t] = [Idle EXCEPT !.pc = "lock", !.kind = "turn", !.first = TRUE]
    BY <1>1, ArriveMoves DEF StartTurn
  <2>2. thread'[t].pc = "lock"
    BY <2>1 DEF Idle
  <2>. QED  BY <1>1, <2>1, <2>2, CachedQuiet DEF StartTurn, At, Saving, SavingPcs
<1>2. CASE StartCompact
  <2>1. PICK t \in Threads : At(t, "idle") /\ Others(t)
               /\ thread'[t] = [Idle EXCEPT !.pc = "lock", !.kind = "compact"]
    BY <1>2, ArriveMoves DEF StartCompact
  <2>2. thread'[t].pc = "lock"
    BY <2>1 DEF Idle
  <2>. QED  BY <1>2, <2>1, <2>2, CachedQuiet DEF StartCompact, At, Saving, SavingPcs
<1>3. ASSUME NEW n \in Cuts, StartTruncate(n) PROVE Cached'
  <2>1. PICK t \in Threads : At(t, "idle") /\ Others(t)
               /\ thread'[t] = [Idle EXCEPT !.pc = "lock", !.kind = "truncate", !.from = n]
    BY <1>3, ArriveMoves DEF StartTruncate
  <2>2. thread'[t].pc = "lock"
    BY <2>1 DEF Idle
  <2>. QED  BY <1>3, <2>1, <2>2, CachedQuiet DEF StartTruncate, At, Saving, SavingPcs
<1>4. ASSUME NEW kind \in {"field", "post"}, StartVisit(kind) PROVE Cached'
  <2>1. PICK t \in Threads : At(t, "idle") /\ Others(t)
               /\ thread'[t] = [Idle EXCEPT !.pc = "read", !.kind = kind]
    BY <1>4, ArriveMoves DEF StartVisit
  <2>2. thread'[t].pc = "read"
    BY <2>1 DEF Idle
  <2>. QED  BY <1>4, <2>1, <2>2, CachedQuiet DEF StartVisit, At, Saving, SavingPcs
<1>5. CASE Crash
  <2>1. \A t \in Threads : thread'[t].pc = "idle"
    BY <1>5 DEF Crash, Idle
  <2>2. \A t \in Threads : ~Saving(t)' /\ KnowsRows(t)'
    BY <2>1 DEF Saving, SavingPcs, KnowsRows, At
  <2>3. cache' = None /\ rows' = rows /\ (~overlapped' => ~overlapped \/ IsTranscript(rows))
    BY <1>5 DEF Crash
  <2>4. ~overlapped' => rows \in Seq(Bodies)
    BY <2>3, TranscriptRows DEF Cached
  <2>. QED  BY <2>2, <2>3, <2>4 DEF Cached, OneSaver, CacheCurrent
<1>6. ASSUME NEW t \in Threads,
             TakeLock(t) \/ Read(t) \/ Save(t) \/ Truncate(t) \/ Work(t)
      PROVE  Cached'
  <2>0. /\ thread[t] \in ThreadRecords /\ thread[t].copy \in Seq(Bodies)
        /\ thread[t].from \in Nat \ {0}
        /\ thread \in [Threads -> ThreadRecords]
    BY DEF Types, TypeOK, ThreadRecords
  <2> DEFINE Here == thread[t]
  <2>1. CASE TakeLock(t)
    <3>1. Others(t) /\ thread'[t].pc \in {"cut", "read"} /\ At(t, "lock")
      BY <2>1, GotoMoves DEF TakeLock
    <3>. QED  BY <2>1, <3>1, CachedQuiet DEF TakeLock, Saving, SavingPcs, At
  <2>2. CASE ReadSession(t)
    <3>1. thread'[t] = [Here EXCEPT !.pc = "readRows", !.running = running] /\ Others(t)
      BY <2>0, <2>2, BecomeOthers DEF ReadSession
    <3>2. thread'[t].pc = "readRows"
      BY <2>0, <3>1 DEF ThreadRecords
    <3>. QED  BY <2>2, <3>1, <3>2, CachedQuiet DEF ReadSession, Saving, SavingPcs, At
  <2>3. CASE ReadRows(t)
    <3>1. PICK s \in FirstCopies(thread[t].kind, Load(rows)) :
            Become(t, [thread[t] EXCEPT !.copy = s,
               !.pc = IF thread[t].kind = "compact" THEN "edit" ELSE "diverge",
               !.running = thread[t].kind = "turn" \/ (@ /\ thread[t].kind # "status")])
      BY <2>3 DEF ReadRows
    <3> DEFINE p == IF Here.kind = "compact" THEN "edit" ELSE "diverge"
               r == Here.kind = "turn" \/ (Here.running /\ Here.kind # "status")
    <3>2. thread'[t] = [Here EXCEPT !.copy = s, !.pc = p, !.running = r] /\ Others(t)
      BY <2>0, <3>1, BecomeOthers
    <3>3. thread'[t].pc = p
      <4>. HIDE DEF p, r
      <4>. QED  BY <2>0, <3>2 DEF ThreadRecords
    <3>. QED  BY <2>3, <3>2, <3>3, CachedQuiet DEF ReadRows, Saving, SavingPcs, At
  <2>4. CASE ReadsNothingToDo(t)
    BY <2>4, LeaveMoves, CachedQuiet DEF ReadsNothingToDo, Saving, SavingPcs, At
  <2>5. CASE ReadFails(t)
    BY <2>5, LeaveMoves, CachedQuiet DEF ReadFails, Saving, SavingPcs, At
  <2>6. CASE Diverges(t)
    <3> DEFINE f == IF cache = None THEN 1 ELSE Divergence(cache, thread[t].copy)
    <3>1. thread'[t] = [Here EXCEPT !.pc = "length", !.from = f] /\ Others(t)
      BY <2>0, <2>6, BecomeOthers DEF Diverges
    <3>2. thread'[t].pc = "length" /\ thread'[t].from = f /\ thread'[t].copy = Here.copy
      <4>. HIDE DEF f
      <4>. QED  BY <2>0, <3>1 DEF ThreadRecords
    <3>3. /\ UNCHANGED <<rows, cache>> /\ At(t, "diverge")
          /\ ~overlapped' => ~overlapped /\ ~SomeoneElseSaves(t)
      BY <2>6 DEF Diverges
    <3>4. KnowsRows(t)'
      BY <3>2, <3>3 DEF KnowsRows, At
    <3>5. CacheCurrent => CacheCurrent'
      <4>1. \A u \in Threads \ {t} : thread'[u].pc = thread[u].pc
        BY <2>0, <2>6 DEF Diverges, Become
      <4>. QED  BY <3>2, <3>3, <4>1 DEF CacheCurrent, At
    <3>. QED  BY <3>1, <3>3, <3>4, <3>5, CachedBy DEF Cached
  <2>7. CASE ReadsLength(t)
    <3> DEFINE f == IF cache = None THEN None ELSE Len(cache)
    <3>1. thread'[t] = [Here EXCEPT !.pc = "write", !.length = f] /\ Others(t)
      BY <2>0, <2>7, BecomeOthers DEF ReadsLength
    <3>2. /\ thread'[t].pc = "write" /\ thread'[t].from = Here.from
          /\ thread'[t].copy = Here.copy /\ thread'[t].length = f
      <4>. HIDE DEF f
      <4>. QED  BY <2>0, <3>1 DEF ThreadRecords
    <3>3. UNCHANGED <<rows, cache, overlapped>> /\ At(t, "length")
      BY <2>7 DEF ReadsLength
    <3>4. KnowsRows(t) => KnowsRows(t)'
      BY <3>2, <3>3 DEF KnowsRows, At
    <3>5. CacheCurrent => CacheCurrent'
      <4>1. \A u \in Threads \ {t} : thread'[u].pc = thread[u].pc
        BY <2>0, <2>7 DEF ReadsLength, Become
      <4>. QED  BY <3>2, <3>3, <4>1 DEF CacheCurrent, At
    <3>6. Saving(t)
      BY <3>3 DEF Saving, SavingPcs, At
    <3>. QED  BY <3>1, <3>3, <3>4, <3>5, <3>6, CachedBy DEF Cached
  <2>8. CASE Writes(t)
    <3>1. thread'[t] = [Here EXCEPT !.pc = "record"] /\ Others(t)
      BY <2>8, WroteOthers DEF Writes, At
    <3>2. thread'[t].pc = "record" /\ thread'[t].copy = Here.copy
      BY <2>0, <3>1 DEF ThreadRecords
    <3>3. /\ At(t, "write") /\ Saving(t) /\ rows' = Rewritten(t)
          /\ UNCHANGED <<cache, overlapped>>
      BY <2>8 DEF Writes, Saving, SavingPcs, At
    <3>4. ASSUME ~overlapped
          PROVE  /\ rows' = Here.copy /\ ~SomeoneElseSaves(t)
                 /\ KnowsRows(t)' /\ CacheCurrent'
      <4>1. OneSaver /\ rows \in Seq(Bodies) /\ CacheCurrent /\ KnowsRows(t)
        BY <3>4 DEF Cached
      <4>2. ~SomeoneElseSaves(t)
        BY <3>3, <4>1 DEF OneSaver, SomeoneElseSaves
      <4>3. cache # None => rows = cache
        BY <3>3, <4>1, <4>2 DEF CacheCurrent, SomeoneElseSaves, Saving, SavingPcs, At
      <4>4. rows' = Here.copy
        BY <3>3, <4>1, <4>3, RewrittenIsCopy
      <4>5. KnowsRows(t)' /\ CacheCurrent'
        BY <3>2, <4>4 DEF KnowsRows, CacheCurrent, At
      <4>. QED  BY <4>2, <4>4, <4>5
    <3>. QED  BY <2>0, <3>1, <3>3, <3>4, CachedBy
  <2>9. CASE Records(t)
    <3>1. /\ At(t, "record") /\ Saving(t) /\ cache' = Here.copy
          /\ UNCHANGED <<rows, overlapped>>
      BY <2>9 DEF Records, Saving, SavingPcs, At
    <3>2. Others(t) /\ thread'[t].pc \in {"end", "edit", "idle"}
      BY <2>9, SavedMoves DEF Records
    <3>3. ASSUME ~overlapped
          PROVE  rows \in Seq(Bodies) /\ cache' = rows /\ ~SomeoneElseSaves(t)
      <4>1. OneSaver /\ rows \in Seq(Bodies) /\ KnowsRows(t)
        BY <3>3 DEF Cached
      <4>. QED  BY <3>1, <4>1 DEF KnowsRows, OneSaver, SomeoneElseSaves
    <3>4. KnowsRows(t)' /\ ~Saving(t)'
      BY <3>2 DEF KnowsRows, At, Saving, SavingPcs
    <3>5. ~overlapped => CacheCurrent'
      BY <3>1, <3>3 DEF CacheCurrent
    <3>. QED  BY <3>1, <3>2, <3>3, <3>4, <3>5, CachedBy
  <2>10. CASE WriteFails(t)
    BY <2>10, FailedMoves, CachedQuiet DEF WriteFails, Saving, SavingPcs, At
  <2>11. CASE CutsRows(t)
    <3>1. thread'[t] = [Here EXCEPT !.pc = "cutCache"] /\ Others(t)
      BY <2>11, WroteOthers DEF CutsRows, At
    <3>2. thread'[t].pc = "cutCache" /\ thread'[t].from = Here.from
      BY <2>0, <3>1 DEF ThreadRecords
    <3>3. /\ At(t, "cut") /\ rows' = Below(rows, Here.from) /\ cache' = cache
          /\ ~overlapped' => ~overlapped /\ ~SomeoneElseSaves(t)
      BY <2>11 DEF CutsRows
    <3>4. ASSUME ~overlapped'
          PROVE  rows' \in Seq(Bodies) /\ KnowsRows(t)' /\ CacheCurrent'
      <4>1. rows \in Seq(Bodies) /\ CacheCurrent /\ ~SomeoneElseSaves(t)
        BY <3>3, <3>4 DEF Cached
      <4>2. cache # None => rows = cache
        BY <3>3, <4>1 DEF CacheCurrent, SomeoneElseSaves, Saving, SavingPcs, At
      <4>. QED  BY <2>0, <3>2, <3>3, <4>1, <4>2, BelowType DEF KnowsRows, CacheCurrent, At
    <3>. QED  BY <3>1, <3>3, <3>4, CachedBy
  <2>12. CASE CutsCache(t)
    <3>1. /\ At(t, "cutCache") /\ Saving(t) /\ UNCHANGED <<rows, overlapped>>
          /\ cache' = IF cache = None THEN None ELSE Below(cache, Here.from)
      BY <2>12 DEF CutsCache, Saving, SavingPcs, At
    <3>2. Others(t) /\ thread'[t].pc = "idle"
      BY <2>12, LeaveMoves DEF CutsCache
    <3>3. ASSUME ~overlapped
          PROVE  /\ rows \in Seq(Bodies) /\ ~SomeoneElseSaves(t)
                 /\ cache' # None => cache' = rows
      <4>1. OneSaver /\ rows \in Seq(Bodies) /\ KnowsRows(t)
        BY <3>3 DEF Cached
      <4>2. ~SomeoneElseSaves(t)
        BY <3>1, <4>1 DEF OneSaver, SomeoneElseSaves
      <4>3. cache # None => rows = Below(cache, Here.from)
        BY <3>1, <4>1 DEF KnowsRows
      <4>. QED  BY <3>1, <4>1, <4>2, <4>3
    <3>4. KnowsRows(t)' /\ ~Saving(t)'
      BY <3>2 DEF KnowsRows, At, Saving, SavingPcs
    <3>5. ~overlapped => CacheCurrent'
      BY <3>1, <3>3 DEF CacheCurrent
    <3>. QED  BY <3>1, <3>2, <3>3, <3>4, <3>5, CachedBy
  <2>13. CASE CutFails(t)
    BY <2>13, LeaveMoves, CachedQuiet DEF CutFails, Saving, SavingPcs, At
  <2>14. CASE Edits(t)
    <3>1. PICK new : Become(t, [thread[t] EXCEPT !.copy = new])
      BY <2>14 DEF Edits
    <3>2. thread'[t] = [Here EXCEPT !.copy = new] /\ Others(t)
      BY <2>0, <3>1, BecomeOthers
    <3>3. thread'[t].pc = Here.pc
      BY <2>0, <3>2 DEF ThreadRecords
    <3>. QED  BY <2>14, <3>2, <3>3, CachedQuiet DEF Edits, Saving, SavingPcs, At
  <2>15. CASE Saves(t)
    BY <2>15, GotoMoves, CachedQuiet DEF Saves, Saving, SavingPcs, At
  <2>16. CASE CompactionEnds(t)
    BY <2>16, LeaveMoves, CachedQuiet DEF CompactionEnds, Saving, SavingPcs, At
  <2>17. CASE TurnCompletes(t)
    <3>1. thread'[t] = [Here EXCEPT !.pc = "diverge", !.running = FALSE] /\ Others(t)
      BY <2>0, <2>17, BecomeOthers DEF TurnCompletes
    <3>2. thread'[t].pc = "diverge"
      BY <2>0, <3>1 DEF ThreadRecords
    <3>. QED  BY <2>17, <3>1, <3>2, CachedQuiet DEF TurnCompletes, Saving, SavingPcs, At
  <2>18. CASE TurnAborts(t)
    BY <2>18, GotoMoves, CachedQuiet DEF TurnAborts, Saving, SavingPcs, At
  <2>19. CASE TurnEnds(t)
    <3>1. thread'[t] = [Idle EXCEPT !.pc = "read", !.kind = "status"] /\ Others(t)
      BY <2>0, <2>19, BecomeOthers DEF TurnEnds
    <3>2. thread'[t].pc = "read"
      BY <3>1 DEF Idle
    <3>. QED  BY <2>19, <3>1, <3>2, CachedQuiet DEF TurnEnds, Saving, SavingPcs, At
  <2>. QED
    BY <1>6, <2>1, <2>2, <2>3, <2>4, <2>5, <2>6, <2>7, <2>8, <2>9, <2>10, <2>11, <2>12,
       <2>13, <2>14, <2>15, <2>16, <2>17, <2>18, <2>19 DEF Read, Save, Truncate, Work
<1>7. CASE UNCHANGED vars
  BY <1>7 DEF vars, Cached, OneSaver, Saving, CacheCurrent, KnowsRows, At
<1>. QED  BY <1>1, <1>2, <1>3, <1>4, <1>5, <1>6, <1>7 DEF Next

-----------------------------------------------------------------------------
(* Steps on the history *)

(* While writes do not overlap, the transaction leaves the copy.           *)
LEMMA WritesTheCopy ==
  ASSUME Types, Cached, ~overlapped, NEW t \in Threads, Writes(t)
  PROVE  rows' = thread[t].copy
<1>1. OneSaver /\ rows \in Seq(Bodies) /\ CacheCurrent /\ KnowsRows(t)
  BY DEF Cached
<1>2. At(t, "write") /\ Saving(t) /\ rows' = Rewritten(t)
  BY DEF Writes, Saving, SavingPcs, At
<1>3. cache # None => rows = cache
  BY <1>1, <1>2 DEF CacheCurrent, OneSaver, Saving, SavingPcs, At
<1>. QED  BY <1>1, <1>2, <1>3, RewrittenIsCopy

LEMMA TracedBy ==
  ASSUME Types, Traced, NEW t \in Threads, Others(t),
         ~overlapped' => ~overlapped /\ Fresh(t)' /\ (~undone' => rows' = kept'),
         \/ rows' = rows
         \/ \A u \in Threads \ {t} :
              thread[u].kind \in Visitors /\ Loaded(u) => thread'[u].old
  PROVE  Traced'
<1>1. ASSUME NEW u \in Threads \ {t}
      PROVE  /\ thread'[u].pc = thread[u].pc /\ thread'[u].copy = thread[u].copy
             /\ thread'[u].kind = thread[u].kind /\ (thread[u].old => thread'[u].old)
  <2>1. thread[u] \in ThreadRecords
    BY DEF Types, TypeOK
  <2>2. thread'[u] = thread[u] \/ thread'[u] = [thread[u] EXCEPT !.old = TRUE]
    BY DEF Others
  <2>. QED  BY <2>1, <2>2 DEF ThreadRecords
<1>2. ASSUME ~overlapped', NEW u \in Threads \ {t} PROVE Fresh(u)'
  <2>1. Fresh(u)
    BY <1>2 DEF Traced
  <2>. QED  BY <1>1, <2>1 DEF Fresh, Loaded, LoadedPcs
<1>. QED  BY <1>2 DEF Traced

LEMMA TracedQuiet ==
  ASSUME Types, Traced, NEW t \in Threads, Others(t),
         UNCHANGED <<rows, kept, overlapped, undone>>,
         \/ thread'[t].pc \notin {"diverge", "length", "write"}
         \/ thread'[t].kind \notin Visitors
  PROVE  Traced'
<1>1. Fresh(t)'
  BY DEF Fresh
<1>. QED  BY <1>1, TracedBy DEF Traced

(* The rows change: every task without the lock misses it.                 *)
LEMMA WroteOutdates ==
  ASSUME Types, NEW t \in Threads, NEW m, Wrote(t, m), rows' # rows,
         NEW u \in Threads \ {t}, thread[u].kind \in Visitors, Loaded(u)
  PROVE  thread'[u].old
<1>1. thread'[u] = [thread[u] EXCEPT !.old = TRUE]
  BY DEF Wrote, Outdates, Loaded
<1>2. thread[u] \in ThreadRecords
  BY DEF Types, TypeOK
<1>. QED  BY <1>1, <1>2 DEF ThreadRecords

LEMMA TracedStep ==
  ASSUME Types, Forms, Cached, Traced, [Next]_vars
  PROVE  Traced'
<1>. USE DEF stored, memory, history
<1>1. CASE StartTurn
  <2>1. PICK t \in Threads : At(t, "idle") /\ Others(t)
               /\ thread'[t] = [Idle EXCEPT !.pc = "lock", !.kind = "turn", !.first = TRUE]
    BY <1>1, ArriveMoves DEF StartTurn
  <2>2. thread'[t].pc = "lock"
    BY <2>1 DEF Idle
  <2>. QED  BY <1>1, <2>1, <2>2, TracedQuiet DEF StartTurn
<1>2. CASE StartCompact
  <2>1. PICK t \in Threads : At(t, "idle") /\ Others(t)
               /\ thread'[t] = [Idle EXCEPT !.pc = "lock", !.kind = "compact"]
    BY <1>2, ArriveMoves DEF StartCompact
  <2>2. thread'[t].pc = "lock"
    BY <2>1 DEF Idle
  <2>. QED  BY <1>2, <2>1, <2>2, TracedQuiet DEF StartCompact
<1>3. ASSUME NEW n \in Cuts, StartTruncate(n) PROVE Traced'
  <2>1. PICK t \in Threads : At(t, "idle") /\ Others(t)
               /\ thread'[t] = [Idle EXCEPT !.pc = "lock", !.kind = "truncate", !.from = n]
    BY <1>3, ArriveMoves DEF StartTruncate
  <2>2. thread'[t].pc = "lock"
    BY <2>1 DEF Idle
  <2>. QED  BY <1>3, <2>1, <2>2, TracedQuiet DEF StartTruncate
<1>4. ASSUME NEW kind \in {"field", "post"}, StartVisit(kind) PROVE Traced'
  <2>1. PICK t \in Threads : At(t, "idle") /\ Others(t)
               /\ thread'[t] = [Idle EXCEPT !.pc = "read", !.kind = kind]
    BY <1>4, ArriveMoves DEF StartVisit
  <2>2. thread'[t].pc = "read"
    BY <2>1 DEF Idle
  <2>. QED  BY <1>4, <2>1, <2>2, TracedQuiet DEF StartVisit
<1>5. CASE Crash
  <2>1. \A t \in Threads : Fresh(t)'
    BY <1>5 DEF Crash, Idle, Fresh
  <2>2. /\ kept' = Load(rows) /\ rows' = rows
        /\ ~overlapped' => ~overlapped \/ IsTranscript(rows)
    BY <1>5 DEF Crash
  <2>3. ~overlapped' => rows \in Seq(Bodies)
    BY <2>2, TranscriptRows DEF Cached
  <2>. QED  BY <2>1, <2>2, <2>3, LoadTranscript DEF Traced
<1>6. ASSUME NEW t \in Threads,
             TakeLock(t) \/ Read(t) \/ Save(t) \/ Truncate(t) \/ Work(t)
      PROVE  Traced'
  <2>0. /\ thread[t] \in ThreadRecords /\ thread[t].copy \in Seq(Bodies) /\ Form(t)
        /\ thread \in [Threads -> ThreadRecords] /\ Holders \cap Visitors = {}
    BY DEF Types, TypeOK, ThreadRecords, Forms, Holders, Visitors
  <2> DEFINE Here == thread[t]
  <2>1. CASE TakeLock(t)
    <3>1. Others(t) /\ thread'[t].pc \in {"cut", "read"}
      BY <2>1, GotoMoves DEF TakeLock
    <3>. QED  BY <2>1, <3>1, TracedQuiet DEF TakeLock
  <2>2. CASE ReadSession(t)
    <3>1. thread'[t] = [Here EXCEPT !.pc = "readRows", !.running = running] /\ Others(t)
      BY <2>0, <2>2, BecomeOthers DEF ReadSession
    <3>2. thread'[t].pc = "readRows"
      BY <2>0, <3>1 DEF ThreadRecords
    <3>. QED  BY <2>2, <3>1, <3>2, TracedQuiet DEF ReadSession
  <2>3. CASE ReadRows(t)
    <3>1. PICK s \in FirstCopies(thread[t].kind, Load(rows)) :
            Become(t, [thread[t] EXCEPT !.copy = s,
               !.pc = IF thread[t].kind = "compact" THEN "edit" ELSE "diverge",
               !.running = thread[t].kind = "turn" \/ (@ /\ thread[t].kind # "status")])
      BY <2>3 DEF ReadRows
    <3> DEFINE p == IF Here.kind = "compact" THEN "edit" ELSE "diverge"
               r == Here.kind = "turn" \/ (Here.running /\ Here.kind # "status")
    <3>2. thread'[t] = [Here EXCEPT !.copy = s, !.pc = p, !.running = r] /\ Others(t)
      BY <2>0, <3>1, BecomeOthers
    <3>3. thread'[t].kind = Here.kind /\ thread'[t].copy = s
      <4>. HIDE DEF p, r
      <4>. QED  BY <2>0, <3>2 DEF ThreadRecords
    <3>4. UNCHANGED <<rows, kept, overlapped, undone>>
      BY <2>3 DEF ReadRows
    <3>5. ASSUME ~overlapped PROVE Fresh(t)'
      <4>1. rows \in Seq(Bodies) /\ Load(rows) = rows
        BY <3>5, LoadTranscript DEF Cached
      <4>2. /\ Here.kind = "post" => \E b \in Bodies : s = Append(rows, b)
            /\ Here.kind \notin {"turn", "post"} => s = rows
        BY <4>1, FirstCopiesType
      <4>3. Here.kind = "turn" => Here.kind \notin Visitors
        BY DEF Visitors
      <4>. QED  BY <3>3, <3>4, <4>2, <4>3 DEF Fresh
    <3>. QED  BY <3>2, <3>4, <3>5, TracedBy DEF Traced
  <2>4. CASE ReadsNothingToDo(t)
    BY <2>4, LeaveMoves, TracedQuiet DEF ReadsNothingToDo
  <2>5. CASE ReadFails(t)
    BY <2>5, LeaveMoves, TracedQuiet DEF ReadFails
  <2>6. CASE Diverges(t)
    <3> DEFINE f == IF cache = None THEN 1 ELSE Divergence(cache, thread[t].copy)
    <3>1. thread'[t] = [Here EXCEPT !.pc = "length", !.from = f] /\ Others(t)
      BY <2>0, <2>6, BecomeOthers DEF Diverges
    <3>2. /\ thread'[t].kind = Here.kind /\ thread'[t].old = Here.old
          /\ thread'[t].copy = Here.copy
      <4>. HIDE DEF f
      <4>. QED  BY <2>0, <3>1 DEF ThreadRecords
    <3>3. /\ UNCHANGED <<rows, kept, undone>> /\ At(t, "diverge")
          /\ ~overlapped' => ~overlapped
      BY <2>6 DEF Diverges
    <3>4. Fresh(t) => Fresh(t)'
      BY <3>2, <3>3 DEF Fresh, At
    <3>. QED  BY <3>1, <3>3, <3>4, TracedBy DEF Traced
  <2>7. CASE ReadsLength(t)
    <3> DEFINE f == IF cache = None THEN None ELSE Len(cache)
    <3>1. thread'[t] = [Here EXCEPT !.pc = "write", !.length = f] /\ Others(t)
      BY <2>0, <2>7, BecomeOthers DEF ReadsLength
    <3>2. /\ thread'[t].kind = Here.kind /\ thread'[t].old = Here.old
          /\ thread'[t].copy = Here.copy
      <4>. HIDE DEF f
      <4>. QED  BY <2>0, <3>1 DEF ThreadRecords
    <3>3. UNCHANGED <<rows, kept, undone, overlapped>> /\ At(t, "length")
      BY <2>7 DEF ReadsLength
    <3>4. Fresh(t) => Fresh(t)'
      BY <3>2, <3>3 DEF Fresh, At
    <3>. QED  BY <3>1, <3>3, <3>4, TracedBy DEF Traced
  <2>8. CASE Writes(t)
    <3>1. Wrote(t, [Here EXCEPT !.pc = "record"]) /\ At(t, "write") /\ overlapped' = overlapped
      BY <2>8 DEF Writes
    <3>2. thread'[t] = [Here EXCEPT !.pc = "record"] /\ Others(t)
      BY <3>1, WroteOthers DEF At
    <3>3. thread'[t].pc = "record"
      BY <2>0, <3>2 DEF ThreadRecords
    <3>4. ASSUME ~overlapped, ~undone' PROVE rows' = kept'
      <4>1. rows' = Here.copy
        BY <2>8, <3>4, WritesTheCopy
      <4>2. CASE Here.kind \in Holders
        BY <2>8, <4>1, <4>2 DEF Writes, Holders
      <4>3. CASE Here.kind \notin Holders
        <5>1. ~undone /\ ~Here.old
          BY <2>8, <3>4, <4>3 DEF Writes
        <5>2. Here.kind \in Visitors
          <6>1. Here.kind # "none"
            BY <2>0, <3>1 DEF Form, At
          <6>. QED  BY <2>0, <4>3, <6>1 DEF ThreadRecords
        <5>3. rows = kept /\ rows \in Seq(Bodies)
          BY <3>4, <5>1 DEF Traced, Cached
        <5>4. IF Here.kind = "post" THEN \E b \in Bodies : Here.copy = Append(rows, b)
                                    ELSE Here.copy = rows
          BY <3>1, <3>4, <5>1, <5>2 DEF Traced, Fresh, At
        <5>5. CASE Here.kind = "post"
          <6>1. PICK b \in Bodies : Here.copy = Append(rows, b)
            BY <5>4, <5>5
          <6>2. Here.copy[Len(Here.copy)] = b
            BY <5>3, <6>1, AppendType
          <6>3. kept' = Append(kept, Here.copy[Len(Here.copy)])
            BY <2>8, <4>3, <5>5 DEF Writes
          <6>. QED  BY <4>1, <5>3, <6>1, <6>2, <6>3
        <5>6. CASE Here.kind # "post"
          <6>1. kept' = kept
            BY <2>8, <4>3, <5>6 DEF Writes
          <6>. QED  BY <4>1, <5>3, <5>4, <5>6, <6>1
        <5>. QED  BY <5>5, <5>6
      <4>. QED  BY <4>2, <4>3
    <3>5. Fresh(t)'
      BY <3>3 DEF Fresh
    <3>6. \/ rows' = rows
          \/ \A u \in Threads \ {t} :
               thread[u].kind \in Visitors /\ Loaded(u) => thread'[u].old
      BY <3>1, WroteOutdates
    <3>. QED  BY <3>1, <3>2, <3>4, <3>5, <3>6, TracedBy
  <2>9. CASE Records(t)
    BY <2>9, SavedMoves, TracedQuiet DEF Records
  <2>10. CASE WriteFails(t)
    BY <2>10, FailedMoves, TracedQuiet DEF WriteFails
  <2>11. CASE CutsRows(t)
    <3>1. /\ Wrote(t, [Here EXCEPT !.pc = "cutCache"]) /\ At(t, "cut")
          /\ ~overlapped' => ~overlapped
          /\ undone' = undone
          /\ rows' = Below(rows, Here.from) /\ kept' = Below(kept, Here.from)
      BY <2>11 DEF CutsRows
    <3>2. thread'[t] = [Here EXCEPT !.pc = "cutCache"] /\ Others(t)
      BY <3>1, WroteOthers DEF At
    <3>3. thread'[t].pc = "cutCache"
      BY <2>0, <3>2 DEF ThreadRecords
    <3>4. Fresh(t)'
      BY <3>3 DEF Fresh
    <3>5. \/ rows' = rows
          \/ \A u \in Threads \ {t} :
               thread[u].kind \in Visitors /\ Loaded(u) => thread'[u].old
      BY <3>1, WroteOutdates
    <3>6. ~overlapped' /\ ~undone' => rows' = kept'
      BY <3>1 DEF Traced
    <3>. QED  BY <3>1, <3>2, <3>4, <3>5, <3>6, TracedBy
  <2>12. CASE CutsCache(t)
    BY <2>12, LeaveMoves, TracedQuiet DEF CutsCache
  <2>13. CASE CutFails(t)
    BY <2>13, LeaveMoves, TracedQuiet DEF CutFails
  <2>14. CASE Edits(t)
    <3>1. PICK new : Become(t, [thread[t] EXCEPT !.copy = new])
      BY <2>14 DEF Edits
    <3>2. thread'[t] = [Here EXCEPT !.copy = new] /\ Others(t)
      BY <2>0, <3>1, BecomeOthers
    <3>3. thread'[t].pc = Here.pc
      BY <2>0, <3>2 DEF ThreadRecords
    <3>. QED  BY <2>14, <3>2, <3>3, TracedQuiet DEF Edits, At
  <2>15. CASE Saves(t)
    <3>1. Here.kind \in Holders
      BY <2>0, <2>15 DEF Saves, Form
    <3>. QED  BY <2>0, <2>15, <3>1, GotoMoves, TracedQuiet DEF Saves
  <2>16. CASE CompactionEnds(t)
    BY <2>16, LeaveMoves, TracedQuiet DEF CompactionEnds
  <2>17. CASE TurnCompletes(t)
    <3>1. thread'[t] = [Here EXCEPT !.pc = "diverge", !.running = FALSE] /\ Others(t)
      BY <2>0, <2>17, BecomeOthers DEF TurnCompletes
    <3>2. thread'[t].kind = "turn"
      BY <2>0, <2>17, <3>1 DEF TurnCompletes, ThreadRecords
    <3>. QED  BY <2>17, <3>1, <3>2, TracedQuiet DEF TurnCompletes, Visitors
  <2>18. CASE TurnAborts(t)
    BY <2>18, GotoMoves, TracedQuiet DEF TurnAborts
  <2>19. CASE TurnEnds(t)
    <3>1. thread'[t] = [Idle EXCEPT !.pc = "read", !.kind = "status"] /\ Others(t)
      BY <2>0, <2>19, BecomeOthers DEF TurnEnds
    <3>2. thread'[t].pc = "read"
      BY <3>1 DEF Idle
    <3>. QED  BY <2>19, <3>1, <3>2, TracedQuiet DEF TurnEnds
  <2>. QED
    BY <1>6, <2>1, <2>2, <2>3, <2>4, <2>5, <2>6, <2>7, <2>8, <2>9, <2>10, <2>11, <2>12,
       <2>13, <2>14, <2>15, <2>16, <2>17, <2>18, <2>19 DEF Read, Save, Truncate, Work
<1>7. CASE UNCHANGED vars
  BY <1>7 DEF vars, Traced, Fresh
<1>. QED  BY <1>1, <1>2, <1>3, <1>4, <1>5, <1>6, <1>7 DEF Next

-----------------------------------------------------------------------------
(* Steps on the status *)

LEMMA UsedFunction ==
  ASSUME Types
  PROVE  used \in [{"turn", "edit", "visit", "cut", "fault", "crash"} -> Nat]
BY DEF Types, TypeOK

LEMMA UsedType ==
  ASSUME Types, Types'
  PROVE  /\ used["fault"] \in Nat /\ used["crash"] \in Nat
         /\ used'["fault"] \in Nat /\ used'["crash"] \in Nat
         /\ used["fault"] + used["crash"] \in Nat
         /\ used'["fault"] + used'["crash"] \in Nat
<1>1. used \in [{"turn", "edit", "visit", "cut", "fault", "crash"} -> Nat]
  BY DEF Types, TypeOK
<1>2. used' \in [{"turn", "edit", "visit", "cut", "fault", "crash"} -> Nat]
  BY DEF Types, TypeOK
<1>3. /\ used["fault"] \in Nat /\ used["crash"] \in Nat
      /\ used'["fault"] \in Nat /\ used'["crash"] \in Nat
  BY <1>1, <1>2
<1>. QED  BY <1>3

LEMMA OwnedBy ==
  ASSUME Types, Types', Owned, NEW t \in Threads, Others(t),
         used'["fault"] + used'["crash"] >= used["fault"] + used["crash"],
         running' => running \/ active' \/ revived',
         running' /\ active => active' \/ WillReset(t)' \/ used'["fault"] + used'["crash"] > 0,
         running' /\ revived => revived' \/ active',
         running' /\ WillReset(t) =>
           WillReset(t)' \/ used'["fault"] + used'["crash"] > 0
  PROVE  Owned'
<1>1. ASSUME NEW u \in Threads \ {t}, WillReset(u) PROVE WillReset(u)'
  <2>1. thread[u] \in ThreadRecords
    BY DEF Types, TypeOK
  <2>2. thread'[u] = thread[u] \/ thread'[u] = [thread[u] EXCEPT !.old = TRUE]
    BY DEF Others
  <2>3. /\ thread'[u].kind = thread[u].kind /\ thread'[u].pc = thread[u].pc
        /\ thread'[u].running = thread[u].running
    BY <2>1, <2>2 DEF ThreadRecords
  <2>. QED  BY <1>1, <2>3 DEF WillReset, At
<1>2. /\ used["fault"] + used["crash"] \in Nat
      /\ used'["fault"] + used'["crash"] \in Nat
  BY UsedType
<1>3. SUFFICES ASSUME running', ~active', ~revived',
                      ~(used'["fault"] + used'["crash"] > 0)
               PROVE  \E u \in Threads : WillReset(u)'
  BY DEF Owned
<1>4. CASE active
  BY <1>3, <1>4
<1>5. CASE ~active
  <2>1. \E u \in Threads : WillReset(u)
    BY <1>2, <1>3, <1>5 DEF Owned
  <2>. QED  BY <1>1, <1>3, <2>1
<1>. QED  BY <1>4, <1>5

(* A step that leaves the status, the guard and the reset alone.           *)
LEMMA OwnedQuiet ==
  ASSUME Types, Types', Owned, NEW t \in Threads, Others(t),
         used'["fault"] + used'["crash"] >= used["fault"] + used["crash"],
         UNCHANGED <<running, active, revived>>,
         running' /\ WillReset(t) =>
           WillReset(t)' \/ used'["fault"] + used'["crash"] > 0
  PROVE  Owned'
<1>1. (running' /\ active => active') /\ (running' => running) /\ (revived => revived')
  OBVIOUS
<1>. QED  BY <1>1, OwnedBy

(* Every action leaves the counts of failures alone, or counts one.        *)
LEMMA FailuresGrow ==
  ASSUME Types, Types', [Next]_vars
  PROVE  /\ used'["fault"] >= used["fault"] /\ used'["crash"] >= used["crash"]
         /\ used'["fault"] + used'["crash"] >= used["fault"] + used["crash"]
<1>1. used'["fault"] >= used["fault"] /\ used'["crash"] >= used["crash"]
  <2>1. CASE UNCHANGED used
    BY <2>1 DEF Types, TypeOK
  <2>2. ASSUME NEW e \in {"turn", "edit", "visit", "cut", "fault", "crash"}, NEW limit,
               Count(e, limit)
        PROVE  used'["fault"] >= used["fault"] /\ used'["crash"] >= used["crash"]
    BY <2>2, CountType, UsedFunction
  <2>. QED
    BY <2>1, <2>2 DEF Next, Read, Save, Truncate, Work, StartTurn, StartCompact, Crash,
       StartTruncate, StartVisit, TakeLock, ReadSession, ReadRows, ReadsNothingToDo,
       ReadFails, Diverges, ReadsLength, Writes, Records, WriteFails, CutsRows, CutsCache,
       CutFails, Edits, Saves, CompactionEnds, TurnCompletes, TurnAborts, TurnEnds, Fault,
       vars
<1>. QED  BY <1>1, UsedType

LEMMA FaultCounts ==
  ASSUME Types, Types', Fault
  PROVE  used'["fault"] + used'["crash"] > 0
<1>1. Count("fault", MaxFaults)
  BY DEF Fault
<1>2. used'["fault"] = used["fault"] + 1
  BY <1>1, UsedFunction, CountType
<1>. QED  BY <1>2, UsedType

LEMMA OwnedStep ==
  ASSUME Types, Types', Forms, Owned, [Next]_vars
  PROVE  Owned'
<1>. USE DEF stored, memory, history
<1>0. used'["fault"] + used'["crash"] >= used["fault"] + used["crash"]
  BY FailuresGrow
<1>1. CASE StartTurn
  <2>1. PICK t \in Threads : At(t, "idle") /\ Others(t)
    BY <1>1, ArriveMoves DEF StartTurn
  <2>. QED  BY <1>0, <1>1, <2>1, OwnedBy DEF StartTurn, WillReset, At
<1>2. CASE StartCompact
  <2>1. PICK t \in Threads : At(t, "idle") /\ Others(t)
    BY <1>2, ArriveMoves DEF StartCompact
  <2>. QED  BY <1>0, <1>2, <2>1, OwnedQuiet DEF StartCompact, WillReset, At
<1>3. ASSUME NEW n \in Cuts, StartTruncate(n) PROVE Owned'
  <2>1. PICK t \in Threads : At(t, "idle") /\ Others(t)
    BY <1>3, ArriveMoves DEF StartTruncate
  <2>. QED  BY <1>0, <1>3, <2>1, OwnedQuiet DEF StartTruncate, WillReset, At
<1>4. ASSUME NEW kind \in {"field", "post"}, StartVisit(kind) PROVE Owned'
  <2>1. PICK t \in Threads : At(t, "idle") /\ Others(t)
    BY <1>4, ArriveMoves DEF StartVisit
  <2>. QED  BY <1>0, <1>4, <2>1, OwnedQuiet DEF StartVisit, WillReset, At
<1>5. CASE Crash
  <2>1. Count("crash", MaxCrashes)
    BY <1>5 DEF Crash
  <2>2. used'["crash"] = used["crash"] + 1
    BY <2>1, UsedFunction, CountType
  <2>3. used'["fault"] + used'["crash"] > 0
    BY <2>2, UsedType
  <2>. QED  BY <2>3 DEF Owned
<1>6. ASSUME NEW t \in Threads,
             TakeLock(t) \/ Read(t) \/ Save(t) \/ Truncate(t) \/ Work(t)
      PROVE  Owned'
  <2>0. /\ thread[t] \in ThreadRecords /\ Form(t)
        /\ thread \in [Threads -> ThreadRecords] /\ Holders \cap Visitors = {}
    BY DEF Types, TypeOK, ThreadRecords, Forms, Holders, Visitors
  <2> DEFINE Here == thread[t]
  <2>1. CASE TakeLock(t)
    BY <1>0, <2>1, GotoMoves, OwnedQuiet DEF TakeLock, WillReset, At
  <2>2. CASE ReadSession(t)
    <3>1. thread'[t] = [Here EXCEPT !.pc = "readRows", !.running = running] /\ Others(t)
      BY <2>0, <2>2, BecomeOthers DEF ReadSession
    <3>2. /\ thread'[t].pc = "readRows" /\ thread'[t].running = running
          /\ thread'[t].kind = Here.kind
      BY <2>0, <3>1 DEF ThreadRecords
    <3>3. running' /\ WillReset(t) => WillReset(t)'
      BY <2>2, <3>2 DEF ReadSession, WillReset, At
    <3>. QED  BY <1>0, <2>2, <3>1, <3>3, OwnedQuiet DEF ReadSession
  <2>3. CASE ReadRows(t)
    <3>1. PICK s \in FirstCopies(thread[t].kind, Load(rows)) :
            Become(t, [thread[t] EXCEPT !.copy = s,
               !.pc = IF thread[t].kind = "compact" THEN "edit" ELSE "diverge",
               !.running = thread[t].kind = "turn" \/ (@ /\ thread[t].kind # "status")])
      BY <2>3 DEF ReadRows
    <3> DEFINE p == IF Here.kind = "compact" THEN "edit" ELSE "diverge"
               r == Here.kind = "turn" \/ (Here.running /\ Here.kind # "status")
    <3>2. thread'[t] = [Here EXCEPT !.copy = s, !.pc = p, !.running = r] /\ Others(t)
      BY <2>0, <3>1, BecomeOthers
    <3>3. thread'[t].kind = Here.kind /\ thread'[t].pc = p
      <4>. HIDE DEF p, r
      <4>. QED  BY <2>0, <3>2 DEF ThreadRecords
    <3>4. WillReset(t) => WillReset(t)'
      BY <3>3 DEF WillReset, At
    <3>. QED  BY <1>0, <2>3, <3>2, <3>4, OwnedQuiet DEF ReadRows
  <2>4. CASE ReadsNothingToDo(t)
    <3>1. ~WillReset(t)
      BY <2>4 DEF ReadsNothingToDo, WillReset, At
    <3>. QED  BY <1>0, <2>4, <3>1, LeaveMoves, OwnedQuiet DEF ReadsNothingToDo
  <2>5. CASE ReadFails(t)
    <3>1. Others(t) /\ used'["fault"] + used'["crash"] > 0 /\ UNCHANGED <<running, revived>>
      BY <2>5, LeaveMoves, FaultCounts DEF ReadFails
    <3>. QED  BY <1>0, <3>1, OwnedBy
  <2>6. CASE Diverges(t)
    <3> DEFINE f == IF cache = None THEN 1 ELSE Divergence(cache, thread[t].copy)
    <3>1. thread'[t] = [Here EXCEPT !.pc = "length", !.from = f] /\ Others(t)
      BY <2>0, <2>6, BecomeOthers DEF Diverges
    <3>2. thread'[t].kind = Here.kind /\ thread'[t].pc = "length"
      <4>. HIDE DEF f
      <4>. QED  BY <2>0, <3>1 DEF ThreadRecords
    <3>3. WillReset(t) => WillReset(t)'
      BY <3>2 DEF WillReset
    <3>. QED  BY <1>0, <2>6, <3>1, <3>3, OwnedQuiet DEF Diverges
  <2>7. CASE ReadsLength(t)
    <3> DEFINE f == IF cache = None THEN None ELSE Len(cache)
    <3>1. thread'[t] = [Here EXCEPT !.pc = "write", !.length = f] /\ Others(t)
      BY <2>0, <2>7, BecomeOthers DEF ReadsLength
    <3>2. thread'[t].kind = Here.kind /\ thread'[t].pc = "write"
      <4>. HIDE DEF f
      <4>. QED  BY <2>0, <3>1 DEF ThreadRecords
    <3>3. WillReset(t) => WillReset(t)'
      BY <3>2 DEF WillReset
    <3>. QED  BY <1>0, <2>7, <3>1, <3>3, OwnedQuiet DEF ReadsLength
  <2>8. CASE Writes(t)
    <3>1. Others(t) /\ At(t, "write") /\ running' = Here.running /\ active' = active
      BY <2>8, WroteOthers DEF Writes, At
    <3>2. Here.kind = "status" => ~Here.running
      BY <2>0, <3>1 DEF Form, Loaded, LoadedPcs, At
    <3>3. running' => revived' \/ active'
      <4>1. CASE Here.kind = "turn"
        BY <2>0, <3>1, <4>1 DEF Form
      <4>2. CASE Here.kind # "turn"
        <5>1. revived' = (revived \/ (Here.running /\ ~active))
          BY <2>8, <4>2 DEF Writes
        <5>. QED  BY <3>1, <5>1
      <4>. QED  BY <4>1, <4>2
    <3>4. running' => ~WillReset(t)
      BY <3>1, <3>2 DEF WillReset
    <3>. QED  BY <1>0, <3>1, <3>3, <3>4, OwnedBy
  <2>9. CASE Records(t)
    <3>1. ~WillReset(t)
      BY <2>9 DEF Records, WillReset, At
    <3>. QED  BY <1>0, <2>9, <3>1, SavedMoves, OwnedQuiet DEF Records
  <2>10. CASE WriteFails(t)
    <3>1. Others(t) /\ used'["fault"] + used'["crash"] > 0
            /\ UNCHANGED <<running, revived, active>>
      BY <2>10, FailedMoves, FaultCounts DEF WriteFails
    <3>. QED  BY <1>0, <3>1, OwnedBy
  <2>11. CASE CutsRows(t)
    <3>1. Others(t) /\ ~WillReset(t) /\ UNCHANGED <<running, revived, active>>
      BY <2>11, WroteOthers DEF CutsRows, At, WillReset
    <3>. QED  BY <1>0, <3>1, OwnedQuiet
  <2>12. CASE CutsCache(t)
    <3>1. ~WillReset(t)
      BY <2>12 DEF CutsCache, WillReset, At
    <3>. QED  BY <1>0, <2>12, <3>1, LeaveMoves, OwnedQuiet DEF CutsCache
  <2>13. CASE CutFails(t)
    <3>1. ~WillReset(t)
      BY <2>13 DEF CutFails, WillReset, At
    <3>. QED  BY <1>0, <2>13, <3>1, LeaveMoves, OwnedQuiet DEF CutFails
  <2>14. CASE Edits(t)
    <3>1. PICK new : Become(t, [thread[t] EXCEPT !.copy = new])
      BY <2>14 DEF Edits
    <3>2. Others(t) /\ ~WillReset(t)
      BY <2>0, <2>14, <3>1, BecomeOthers DEF Edits, WillReset, At
    <3>. QED  BY <1>0, <2>14, <3>2, OwnedQuiet DEF Edits
  <2>15. CASE Saves(t)
    <3>1. ~WillReset(t)
      BY <2>15 DEF Saves, WillReset, At
    <3>. QED  BY <1>0, <2>15, <3>1, GotoMoves, OwnedQuiet DEF Saves
  <2>16. CASE CompactionEnds(t)
    <3>1. ~WillReset(t)
      BY <2>16 DEF CompactionEnds, WillReset, At
    <3>. QED  BY <1>0, <2>16, <3>1, LeaveMoves, OwnedQuiet DEF CompactionEnds
  <2>17. CASE TurnCompletes(t)
    <3>1. Others(t) /\ ~WillReset(t)
      BY <2>0, <2>17, BecomeOthers DEF TurnCompletes, WillReset, At
    <3>. QED  BY <1>0, <2>17, <3>1, OwnedQuiet DEF TurnCompletes
  <2>18. CASE TurnAborts(t)
    <3>1. ~WillReset(t)
      BY <2>18 DEF TurnAborts, WillReset, At
    <3>. QED  BY <1>0, <2>18, <3>1, GotoMoves, OwnedQuiet DEF TurnAborts
  <2>19. CASE TurnEnds(t)
    <3>1. thread'[t] = [Idle EXCEPT !.pc = "read", !.kind = "status"] /\ Others(t)
      BY <2>0, <2>19, BecomeOthers DEF TurnEnds
    <3>2. WillReset(t)'
      BY <3>1 DEF Idle, WillReset
    <3>. QED  BY <1>0, <2>19, <3>1, <3>2, OwnedBy DEF TurnEnds
  <2>. QED
    BY <1>6, <2>1, <2>2, <2>3, <2>4, <2>5, <2>6, <2>7, <2>8, <2>9, <2>10, <2>11, <2>12,
       <2>13, <2>14, <2>15, <2>16, <2>17, <2>18, <2>19 DEF Read, Save, Truncate, Work
<1>7. CASE UNCHANGED vars
  BY <1>7 DEF vars, Owned, WillReset, At
<1>. QED  BY <1>1, <1>2, <1>3, <1>4, <1>5, <1>6, <1>7 DEF Next

-----------------------------------------------------------------------------
(* The theorems *)

IInv == Types /\ Forms /\ Cached /\ Traced /\ Owned

LEMMA InitIInv ==
  ASSUME Init
  PROVE  IInv
<1>. USE DEF Init
<1>1. rows \in Seq(Bodies) /\ Len(rows) = 0 /\ DOMAIN rows = {}
  OBVIOUS
<1>2. \A t \in Threads :
        /\ thread[t] = Idle /\ thread[t].pc = "idle" /\ thread[t].kind = "none"
        /\ ~thread[t].old
  BY DEF Idle
<1>3. Types
  <2>1. rows \in [DOMAIN rows -> Bodies] /\ DOMAIN rows \subseteq 1..0
    BY <1>1
  <2>2. thread \in [Threads -> ThreadRecords]
    BY IdleType
  <2>3. kept \in Seq(Bodies)
    OBVIOUS
  <2>4. used \in [{"turn", "edit", "visit", "cut", "fault", "crash"} -> Nat]
    OBVIOUS
  <2>5. DOMAIN rows \subseteq Nat \ {0} /\ \E n \in Nat : DOMAIN rows \subseteq 1..n
    BY <1>1
  <2>. QED  BY <2>1, <2>2, <2>3, <2>4, <2>5 DEF Types, TypeOK
<1>4. Forms
  BY <1>2 DEF Forms, OneTurn, Form, At, Loaded, LoadedPcs, Holders, Visitors
<1>5. Cached
  BY <1>1, <1>2 DEF Cached, OneSaver, Saving, SavingPcs, CacheCurrent, KnowsRows, At
<1>6. Traced
  BY <1>1, <1>2 DEF Traced, Fresh
<1>7. Owned
  BY DEF Owned
<1>. QED  BY <1>3, <1>4, <1>5, <1>6, <1>7 DEF IInv

THEOREM Invariance == Spec => []IInv
<1>1. Init => IInv
  BY InitIInv
<1>2. IInv /\ [Next]_vars => IInv'
  <2> SUFFICES ASSUME Types, Forms, Cached, Traced, Owned, [Next]_vars PROVE IInv'
    BY DEF IInv
  <2>1. Types'
    BY TypesStep
  <2>2. Forms'
    BY FormsStep
  <2>3. Cached'
    BY CachedStep
  <2>4. Traced'
    BY TracedStep
  <2>5. Owned'
    BY <2>1, OwnedStep
  <2>. QED  BY <2>1, <2>2, <2>3, <2>4, <2>5 DEF IInv
<1>. QED  BY <1>1, <1>2, PTL DEF Spec

(* The tables, the cache and every copy a task holds have their types,     *)
(* however many tasks there are and whatever fails.                        *)
THEOREM TypeCorrect == Spec => []TypeOK
<1>1. IInv => TypeOK
  BY DEF IInv, Types
<1>. QED  BY <1>1, Invariance, PTL

(* Unless two writes overlapped, update_session leaves the messages of its *)
(* caller and the cache claims no row that is not there.                   *)
THEOREM CacheCorrect == Spec => []CacheTellsTheRows
<1>1. IInv => CacheTellsTheRows
  BY DEF IInv, Cached, CacheTellsTheRows, CacheCurrent, KnowsRows
<1>. QED  BY <1>1, Invariance, PTL

(* The holders of the session's lock work on what the last one left, and   *)
(* what they left stays stored unless an old copy is written over it.      *)
THEOREM HistoryIsKept == Spec => []HistoryKept
<1>1. Holders \cap Visitors = {}
  BY DEF Holders, Visitors
<1>2. IInv => HistoryKept
  BY <1>1 DEF IInv, Forms, Form, Traced, HistoryKept
<1>. QED  BY <1>2, Invariance, PTL

(* "running" is never left behind but by a failure, a crash or an old copy.*)
THEOREM RunningCorrect == Spec => []RunningIsOwned
<1>1. ASSUME NEW t \in Threads, WillReset(t)
      PROVE  thread[t].kind = "status" /\ thread[t].pc # "record"
  BY <1>1 DEF WillReset, At
<1>2. IInv => RunningIsOwned
  BY <1>1 DEF IInv, Owned, RunningIsOwned
<1>. QED  BY <1>2, Invariance, PTL
=============================================================================
