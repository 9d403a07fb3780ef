------------------------- MODULE EventStreamProofs -------------------------
(***************************************************************************)
(* Proofs about EventStream for any emitters, events, capacity and bounds: *)
(* its types, that the sequences one process emits are stored once, that   *)
(* no event is applied twice, and that the client's counter hides no event *)
(* but the excused.                                                        *)
(***************************************************************************)
EXTENDS EventStream, TLAPS

EmitterRecords ==
  [pc : {"idle", "store", "send"}, event : Events \cup {None}, seq : Nat]
StreamRecords ==
  [pc : {"off", "subscribe", "read", "replay", "live"}, cursor : Nat,
   replay : SUBSET Sequenced]

(* What emitter t is working on, and everybody's events on their way.      *)
Working(t) == emitter[t].pc # "idle"
Taken(t) == [event |-> emitter[t].event, seq |-> emitter[t].seq]

(* The types, that an emitter at work has an event, and that one of the    *)
(* sequences of the table is the highest, or that there is none.           *)
Highest(S, n) == (n = 0 \/ \E r \in S : n = r.seq) /\ \A r \in S : r.seq <= n
Typed ==
  /\ TypeOK
  /\ \A t \in Emitters : Working(t) => emitter[t].event \in Events /\ emitter[t].seq > 0
  /\ \E n \in Nat : Highest(rows, n)

LEMMA RowsTyped ==
  ASSUME TypeOK
  PROVE  /\ \A r \in rows : r.seq \in Nat
         /\ SequencedRows \subseteq Sequenced
         /\ \A r \in SequencedRows : r.seq \in Nat /\ r.seq > 0
         /\ \A c \in Nat : From(c) = {r \in SequencedRows : r.seq > c}
         /\ SequencedRows \subseteq rows
<1>1. \A r \in Sequenced : r.seq \in Nat
  BY DEF Sequenced
<1>2. \A r \in Unsequenced : r.seq = 0
  BY DEF Unsequenced
<1>3. \A r \in rows : r.seq \in Nat /\ (r.seq > 0 => r \in Sequenced)
  BY <1>1, <1>2 DEF TypeOK
<1>4. \A c \in Nat : From(c) = {r \in SequencedRows : r.seq > c}
  <2> SUFFICES ASSUME NEW c \in Nat, NEW r \in rows, r.seq > c PROVE r.seq > 0
    BY DEF From, SequencedRows
  <2>. QED  BY <1>3
<1>. QED  BY <1>3, <1>4 DEF SequencedRows

(* The statements that do not touch the emitted rows.                      *)
LEMMA RecordedKeeps ==
  ASSUME TypeOK, NEW e \in Recorded, RecordsEvent(e)
  PROVE  /\ SequencedRows' = SequencedRows
         /\ rows' \subseteq Sequenced \cup Unsequenced
         /\ \A r \in rows' : r \in rows \/ r.seq = 0
         /\ rows \subseteq rows'
<1> DEFINE n == [event |-> e, seq |-> 0]
<1>1. n \in Unsequenced /\ n.seq = 0
  BY DEF Unsequenced
<1>2. rows' = rows \cup {n}
  BY DEF RecordsEvent
<1> HIDE DEF n
<1>. QED  BY <1>1, <1>2 DEF SequencedRows, TypeOK

LEMMA SameRows == rows' = rows => SequencedRows' = SequencedRows
  BY DEF SequencedRows

LEMMA StoredRows ==
  ASSUME Typed, NEW t \in Emitters, EmitStores(t)
  PROVE  \/ SequencedRows' = SequencedRows
         \/ SequencedRows' = SequencedRows \cup {Taken(t)}
<1>1. Taken(t).seq > 0
  BY DEF EmitStores, Taken, Typed, Working
<1>2. rows' = rows \/ rows' = rows \cup {Taken(t)}
  BY DEF EmitStores, Taken
<1>. QED  BY <1>1, <1>2 DEF SequencedRows

LEMMA LatestIsHighest ==
  ASSUME Typed
  PROVE  Latest \in Nat /\ \A r \in rows : r.seq <= Latest
<1> DEFINE T == {0} \cup {r.seq : r \in rows}
<1>1. PICK n \in Nat : Highest(rows, n)
  BY DEF Typed
<1>2. T \in SUBSET Nat
  BY RowsTyped DEF Typed
<1>3. n \in T /\ \A y \in T : y <= n
  BY <1>1 DEF Highest
<1>4. \E x \in T : \A y \in T : x >= y
  BY <1>2, <1>3
<1>5. Latest \in T /\ \A y \in T : Latest >= y
  BY <1>4 DEF Latest, Max
<1>. QED  BY <1>2, <1>5

LEMMA NumberedTyped ==
  ASSUME Typed
  PROVE  /\ Numbered \in Nat \ {0} /\ \A r \in rows : counter = None => r.seq < Numbered
         /\ counter # None => Numbered = counter + 1
<1>1. counter \in Nat \cup {None}
  BY DEF Typed, TypeOK
<1>2. Latest \in Nat /\ \A r \in rows : r.seq <= Latest /\ r.seq \in Nat
  BY LatestIsHighest, RowsTyped DEF Typed
<1>3. CASE counter = None
  BY <1>2, <1>3, NoneIsNoEvent DEF Numbered
<1>4. CASE counter # None
  BY <1>1, <1>4 DEF Numbered
<1>. QED  BY <1>3, <1>4

(* Appending to the channel and taking from it.                            *)
LEMMA InboxTyped ==
  ASSUME Typed, NEW r \in Sequenced
  PROVE  /\ Received(r) \in Seq(Sequenced) /\ Len(Received(r)) <= Capacity
         /\ inbox # <<>> => Tail(inbox) \in Seq(Sequenced) /\ Len(Tail(inbox)) <= Capacity
                            /\ Head(inbox) \in Sequenced
<1> USE CapacityPositive DEF Typed, TypeOK
<1>1. CASE Len(inbox) < Capacity
  BY <1>1 DEF Received
<1>2. CASE ~(Len(inbox) < Capacity)
  <2>1. inbox # <<>> /\ Len(inbox) = Capacity
    BY <1>2
  <2>. QED  BY <1>2, <2>1 DEF Received
<1>. QED  BY <1>1, <1>2

LEMMA NothingTyped ==
  /\ <<>> \in Seq(Sequenced) /\ Len(<<>>) <= Capacity
  /\ Off \in StreamRecords /\ Off.pc = "off" /\ Off.replay = {}
<1>1. <<>> \in Seq(Sequenced) /\ Len(<<>>) = 0
  OBVIOUS
<1>. QED  BY <1>1, CapacityPositive DEF Off, StreamRecords

LEMMA CountTyped ==
  ASSUME Typed, NEW what \in Bounded, NEW limit, Count(what, limit)
  PROVE  used' \in [Bounded -> Nat] /\ used' = [used EXCEPT ![what] = used[what] + 1]
         /\ used'[what] # 0 /\ \A w \in Bounded : used'[w] # 0 \/ used[w] = 0
<1>1. used \in [Bounded -> Nat] /\ used' = [used EXCEPT ![what] = used[what] + 1]
  BY DEF Count, Typed, TypeOK
<1>2. used[what] + 1 \in Nat /\ used[what] + 1 # 0
  BY <1>1
<1>. QED  BY <1>1, <1>2

(* What passes through the subscription keeps the types.                   *)
LEMMA PassesTyped ==
  ASSUME Typed, NEW r \in Sequenced, Passes(r)
  PROVE  /\ stream' \in StreamRecords /\ cursor' \in Nat /\ view' \in Seq(Events)
         /\ stream'.pc = stream.pc /\ stream'.replay = stream.replay \ {r}
         /\ stream'.cursor = IF r.seq > stream.cursor THEN r.seq ELSE stream.cursor
         /\ IF r.seq > stream.cursor /\ r.seq > cursor
            THEN cursor' = r.seq /\ view' = Append(view, r.event)
            ELSE cursor' = cursor /\ view' = view
<1> DEFINE c == IF r.seq > stream.cursor THEN r.seq ELSE stream.cursor
<1>1. stream \in StreamRecords /\ r.seq \in Nat /\ r.event \in Events
      /\ cursor \in Nat /\ view \in Seq(Events)
  BY DEF Typed, TypeOK, StreamRecords, Sequenced
<1>2. c \in Nat /\ stream.replay \ {r} \in SUBSET Sequenced
  BY <1>1 DEF StreamRecords
<1>3. stream' = [stream EXCEPT !.cursor = c, !.replay = stream.replay \ {r}]
  BY DEF Passes
<1>4. /\ stream' \in StreamRecords /\ stream'.pc = stream.pc
      /\ stream'.replay = stream.replay \ {r} /\ stream'.cursor = c
  <2> HIDE DEF c
  <2>. QED  BY <1>1, <1>2, <1>3 DEF StreamRecords
<1>5. IF r.seq > stream.cursor /\ r.seq > cursor
      THEN cursor' = r.seq /\ view' = Append(view, r.event)
      ELSE cursor' = cursor /\ view' = view
  BY DEF Passes, ClientApplies
<1>6. cursor' \in Nat /\ view' \in Seq(Events)
  BY <1>1, <1>5
<1>. QED  BY <1>4, <1>5, <1>6

-----------------------------------------------------------------------------
LEMMA TypeStep == Typed /\ [Next]_vars => Typed'
<1> SUFFICES ASSUME Typed, [Next]_vars PROVE Typed'
  OBVIOUS
<1> DEFINE Bound == \E n \in Nat : Highest(rows, n)
<1>0. Bound
  BY DEF Typed
<1>1. ASSUME NEW t \in Emitters, NEW e \in Events, EmitTakes(t, e) PROVE Typed'
  <2>1. counter' \in Nat /\ counter' > 0
    BY <1>1, NumberedTyped DEF EmitTakes
  <2> DEFINE rec == [pc |-> IF e \in Deltas THEN "send" ELSE "store", event |-> e,
                     seq |-> counter']
  <2>2. rec \in EmitterRecords /\ rec.event \in Events /\ rec.seq > 0
    BY <2>1 DEF EmitterRecords
  <2>3. emitter' = [emitter EXCEPT ![t] = rec]
    BY <1>1 DEF EmitTakes
  <2>4. emitter' \in [Emitters -> EmitterRecords]
        /\ \A u \in Emitters : Working(u)' => emitter'[u].event \in Events /\ emitter'[u].seq > 0
    <3> HIDE DEF rec
    <3>. QED  BY <2>2, <2>3 DEF Typed, TypeOK, EmitterRecords, Working
  <2>5. emitted' \subseteq Events /\ excused' \subseteq Events
    BY <1>1 DEF EmitTakes, Typed, TypeOK
  <2>6. used' \in [Bounded -> Nat]
    <3>1. used' = used \/ Count("unread", MaxUnread)
      BY <1>1 DEF EmitTakes
    <3>. QED  BY <3>1, CountTyped DEF Bounded, Typed, TypeOK
  <2>7. UNCHANGED <<rows, stream, inbox, client>>
    BY <1>1 DEF EmitTakes
  <2>. QED  BY <2>1, <2>4, <2>5, <2>6, <2>7, <1>0 DEF Typed, TypeOK, EmitterRecords, client
<1>2. ASSUME NEW t \in Emitters, EmitStores(t) PROVE Typed'
  <2>1. emitter' = [emitter EXCEPT ![t].pc = "send"] /\ Working(t)
        /\ UNCHANGED <<counter, stream, inbox, client, emitted>>
    BY <1>2 DEF EmitStores, Working
  <2>2. emitter[t].event \in Events /\ emitter[t].seq \in Nat
    BY <2>1 DEF Typed, TypeOK
  <2>3. Taken(t) \in Sequenced /\ Taken(t).seq = emitter[t].seq
    BY <2>2 DEF Taken, Sequenced
  <2>4. rows' = rows \/ rows' = rows \cup {Taken(t)}
    BY <1>2 DEF EmitStores, Taken
  <2>5. rows' \subseteq Sequenced \cup Unsequenced
    BY <2>3, <2>4 DEF Typed, TypeOK
  <2>6. Bound'
    <3>1. PICK n \in Nat : Highest(rows, n)
      BY <1>0
    <3>2. PICK m \in {n, emitter[t].seq} : n <= m /\ emitter[t].seq <= m
      BY <2>2, <3>1
    <3>3. CASE rows' = rows
      BY <3>1, <3>3 DEF Highest
    <3>4. CASE rows' = rows \cup {Taken(t)}
      <4>1. \A r \in rows : r.seq \in Nat
        BY RowsTyped DEF Typed
      <4>2. Highest(rows', m)
        BY <2>2, <2>3, <3>1, <3>2, <3>4, <4>1 DEF Highest
      <4>. QED  BY <2>2, <3>2, <4>2
    <3>. QED  BY <2>4, <3>3, <3>4
  <2>7. emitter' \in [Emitters -> EmitterRecords]
        /\ \A u \in Emitters : Working(u)' => emitter'[u].event \in Events /\ emitter'[u].seq > 0
    BY <2>1, <2>2 DEF Typed, TypeOK, EmitterRecords, Working
  <2>8. excused' \subseteq Events
    BY <1>2 DEF EmitStores, Overtaken, Typed, TypeOK, Working
  <2>9. used' \in [Bounded -> Nat]
    <3>1. used' = used \/ Count("fault", MaxFaults)
      BY <1>2 DEF EmitStores
    <3>. QED  BY <3>1, CountTyped DEF Bounded, Typed, TypeOK
  <2>. QED
    BY <2>1, <2>5, <2>6, <2>7, <2>8, <2>9 DEF Typed, TypeOK, EmitterRecords, client
<1>3. ASSUME NEW t \in Emitters, EmitSends(t) PROVE Typed'
  <2>1. emitter' = [emitter EXCEPT ![t] = Idle] /\ Working(t)
        /\ UNCHANGED <<counter, rows, stream, client, emitted, used>>
    BY <1>3 DEF EmitSends, Working
  <2>2. Taken(t) \in Sequenced
    BY <2>1 DEF Typed, TypeOK, Taken, Sequenced
  <2>3. inbox' = inbox \/ inbox' = Received(Taken(t))
    BY <1>3 DEF EmitSends, Taken
  <2>4. inbox' \in Seq(Sequenced) /\ Len(inbox') <= Capacity
    BY <2>2, <2>3, InboxTyped DEF Typed, TypeOK
  <2>5. Forgotten \subseteq Events
    <3>1. CASE Len(inbox) < Capacity
      BY <3>1 DEF Forgotten
    <3>2. CASE ~(Len(inbox) < Capacity)
      <4>1. inbox # <<>>
        BY <3>2, CapacityPositive DEF Typed, TypeOK
      <4>2. Head(inbox) \in Sequenced
        BY <2>2, <4>1, InboxTyped
      <4>. QED  BY <3>2, <4>2 DEF Forgotten, Sequenced
    <3>. QED  BY <3>1, <3>2
  <2>6. excused' \subseteq Events
    BY <1>3, <2>5 DEF EmitSends, Overtaken, Typed, TypeOK, Working
  <2>7. emitter' \in [Emitters -> EmitterRecords]
        /\ \A u \in Emitters : Working(u)' => emitter'[u].event \in Events /\ emitter'[u].seq > 0
    BY <2>1 DEF Typed, TypeOK, EmitterRecords, Working, Idle
  <2>. QED
    BY <2>1, <2>4, <2>6, <2>7, <1>0 DEF Typed, TypeOK, EmitterRecords, client
<1>4. CASE Connect
  BY <1>4, <1>0 DEF Connect, Typed, TypeOK, Working, history
<1>5. CASE Subscribe
  <2>1. stream' \in StreamRecords /\ inbox' = <<>>
    BY <1>5 DEF Subscribe, Typed, TypeOK, StreamRecords
  <2>. QED
    BY <1>5, <2>1, <1>0, NothingTyped
    DEF Subscribe, Typed, TypeOK, StreamRecords, Working, history, client
<1>6. CASE ReadReplay
  <2>1. From(stream.cursor) \subseteq Sequenced
    BY RowsTyped DEF Typed, TypeOK
  <2>2. used' \in [Bounded -> Nat]
    <3>1. used' = used \/ Count("fault", MaxFaults)
      BY <1>6 DEF ReadReplay
    <3>. QED  BY <3>1, CountTyped DEF Bounded, Typed, TypeOK
  <2>3. inbox' = inbox \/ inbox' = <<>>
    BY <1>6 DEF ReadReplay
  <2>4. stream' \in StreamRecords
    <3>1. CASE stream' = Off
      BY <3>1, NothingTyped
    <3>2. CASE stream' = [stream EXCEPT !.pc = "replay", !.replay = From(stream.cursor)]
      BY <2>1, <3>2 DEF Typed, TypeOK, StreamRecords
    <3>. QED  BY <1>6, <3>1, <3>2 DEF ReadReplay
  <2>5. UNCHANGED <<counter, rows, emitter, client, emitted, excused>>
    BY <1>6 DEF ReadReplay
  <2>. QED
    BY <2>2, <2>3, <2>4, <2>5, <1>0, NothingTyped
    DEF Typed, TypeOK, StreamRecords, Working, client
<1>7. CASE ReplaySends
  <2>1. PICK r \in stream.replay : Passes(r)
    BY <1>7 DEF ReplaySends
  <2>2. r \in Sequenced
    BY <2>1 DEF Typed, TypeOK
  <2>3. stream' \in StreamRecords /\ cursor' \in Nat /\ view' \in Seq(Events)
    BY <2>1, <2>2, PassesTyped
  <2>. QED
    BY <1>7, <2>3, <1>0 DEF ReplaySends, Typed, TypeOK, StreamRecords, Working, history
<1>8. CASE ReplayEnds
  BY <1>8, <1>0 DEF ReplayEnds, Typed, TypeOK, Working, history, client
<1>9. CASE LiveReceives
  <2>1. inbox # <<>> /\ Passes(Head(inbox)) /\ inbox' = Tail(inbox)
    BY <1>9 DEF LiveReceives
  <2>2. /\ Head(inbox) \in Sequenced /\ inbox' \in Seq(Sequenced)
        /\ Len(inbox') <= Capacity
    BY <2>1, CapacityPositive DEF Typed, TypeOK
  <2>3. stream' \in StreamRecords /\ cursor' \in Nat /\ view' \in Seq(Events)
    BY <2>1, <2>2, PassesTyped
  <2>. QED
    BY <1>9, <2>2, <2>3, <1>0 DEF LiveReceives, Typed, TypeOK, StreamRecords, Working, history
<1>10. CASE Disconnect
  <2>1. used' \in [Bounded -> Nat]
    BY <1>10, CountTyped DEF Disconnect, Bounded
  <2>. QED
    BY <1>10, <2>1, <1>0, NothingTyped DEF Disconnect, Typed, TypeOK, StreamRecords, Working
<1>11. CASE Restart
  <2>1. used' \in [Bounded -> Nat]
    BY <1>11, CountTyped DEF Restart, Bounded
  <2>2. emitter' \in [Emitters -> EmitterRecords] /\ \A t \in Emitters : ~Working(t)'
    BY <1>11 DEF Restart, EmitterRecords, Working, Idle
  <2>. QED
    BY <1>11, <2>1, <2>2, <1>0, NothingTyped
    DEF Restart, Typed, TypeOK, EmitterRecords, StreamRecords
<1>12. ASSUME NEW e \in Recorded, RecordsEvent(e) PROVE Typed'
  <2>1. Bound'
    <3>1. PICK n \in Nat : Highest(rows, n)
      BY <1>0
    <3>2. Highest(rows', n)
      BY <1>12, <3>1, RecordedKeeps DEF Highest, Typed
    <3>. QED  BY <3>2
  <2>. QED
    BY <1>12, <2>1, RecordedKeeps DEF RecordsEvent, Typed, TypeOK, Working, history, client
<1>13. ASSUME NEW c \in 0 .. cursor, Resubscribe(c) PROVE Typed'
  <2>1. used' \in [Bounded -> Nat]
    BY <1>13, CountTyped DEF Resubscribe, Bounded
  <2>2. c \in Nat
    BY DEF Typed, TypeOK
  <2>3. stream' \in StreamRecords
    BY <1>13, <2>2 DEF Resubscribe, StreamRecords
  <2>. QED
    BY <1>13, <2>1, <2>3, <1>0, NothingTyped
    DEF Resubscribe, Typed, TypeOK, StreamRecords, Working, client
<1>14. CASE UNCHANGED vars
  BY <1>14, <1>0 DEF vars, history, client, Typed, TypeOK, Working
<1>. QED
  BY <1>1, <1>2, <1>3, <1>4, <1>5, <1>6, <1>7, <1>8, <1>9, <1>10, <1>11, <1>12, <1>13, <1>14
  DEF Next, Streams

LEMMA TypeInit == Init => Typed
<1> SUFFICES ASSUME Init PROVE Typed
  OBVIOUS
<1>1. emitter \in [Emitters -> EmitterRecords] /\ \A t \in Emitters : ~Working(t)
  BY DEF Init, EmitterRecords, Working, Idle
<1>2. \E n \in Nat : Highest(rows, n)
  BY DEF Init, Highest
<1>3. view \in Seq(Events) /\ used \in [Bounded -> Nat]
  BY DEF Init
<1>. QED
  BY <1>1, <1>2, <1>3, NothingTyped DEF Init, Typed, TypeOK, StreamRecords, EmitterRecords

-----------------------------------------------------------------------------
(* An event is emitted once and keeps its sequence wherever it is. What    *)
(* the client applied is below its counter.                                *)
OnTheirWay == {Taken(t) : t \in {u \in Emitters : Working(u)}}
Records == SequencedRows \cup ToSet(inbox) \cup stream.replay \cup OnTheirWay

Numbering ==
  /\ \A r \in Records : r.event \in emitted
  /\ \A r, q \in Records : r.event = q.event => r.seq = q.seq
  /\ \A i \in DOMAIN view : view[i] \in emitted
  /\ \A i \in DOMAIN view, r \in Records : view[i] = r.event => r.seq <= cursor
  /\ AppliedOnce

LEMMA RecordsTyped ==
  ASSUME Typed
  PROVE  \A r \in Records : r \in Sequenced /\ r.event \in Events /\ r.seq \in Nat
<1>1. SequencedRows \subseteq Sequenced /\ stream.replay \subseteq Sequenced
  BY RowsTyped DEF Typed, TypeOK
<1>2. ToSet(inbox) \subseteq Sequenced
  BY DEF Typed, TypeOK, ToSet
<1>3. OnTheirWay \subseteq Sequenced
  BY DEF OnTheirWay, Taken, Typed, TypeOK, Sequenced
<1>. QED  BY <1>1, <1>2, <1>3 DEF Records, Sequenced

(* No step but EmitTakes makes a new record.                               *)
LEMMA NumberingKept ==
  ASSUME Numbering, Records' \subseteq Records, UNCHANGED <<view, cursor, emitted>>
  PROVE  Numbering'
  BY DEF Numbering, AppliedOnce

(* A record passes through the subscription.                               *)
LEMMA NumberingPasses ==
  ASSUME Typed, Numbering, NEW r \in Records, r \in Sequenced, Passes(r),
         Records' \subseteq Records, UNCHANGED emitted
  PROVE  Numbering'
<1>1. CASE cursor' = cursor /\ view' = view
  BY <1>1, NumberingKept
<1>2. CASE r.seq > cursor /\ cursor' = r.seq /\ view' = Append(view, r.event)
  <2>1. view \in Seq(Events) /\ r.event \in Events /\ cursor \in Nat /\ r.seq \in Nat
    BY DEF Typed, TypeOK, Sequenced
  <2>2. /\ DOMAIN view' = 1..Len(view) + 1 /\ DOMAIN view = 1..Len(view) /\ Len(view) \in Nat
        /\ \A i \in 1..Len(view) : view'[i] = view[i]
        /\ view'[Len(view) + 1] = r.event
    BY <1>2, <2>1
  <2>3. \A i \in DOMAIN view : view[i] # r.event
    BY <1>2, <2>1 DEF Numbering
  <2>4. \A i \in DOMAIN view' : view'[i] \in emitted
    BY <2>2 DEF Numbering
  <2>5. \A q \in Records : q.event = r.event => q.seq = r.seq
    BY DEF Numbering
  <2>6. ASSUME NEW i \in DOMAIN view, NEW q \in Records, view[i] = q.event
        PROVE  q.seq <= r.seq
    <3>1. q.seq <= cursor
      BY <2>6 DEF Numbering
    <3>2. q.seq \in Nat
      BY RecordsTyped
    <3>. QED  BY <1>2, <2>1, <3>1, <3>2
  <2>7. \A i \in DOMAIN view', q \in Records' : view'[i] = q.event => q.seq <= cursor'
    BY <1>2, <2>1, <2>2, <2>5, <2>6
  <2>8. AppliedOnce'
    BY <2>2, <2>3 DEF Numbering, AppliedOnce
  <2>. QED  BY <2>4, <2>7, <2>8 DEF Numbering
<1>. QED  BY <1>1, <1>2, PassesTyped

LEMMA InboxRecords ==
  ASSUME Typed, NEW r \in Sequenced
  PROVE  /\ ToSet(Received(r)) \subseteq ToSet(inbox) \cup {r}
         /\ inbox # <<>> => ToSet(Tail(inbox)) \subseteq ToSet(inbox) /\ Head(inbox) \in ToSet(inbox)
<1> USE DEF Typed, TypeOK, ToSet
<1>1. inbox # <<>> => /\ \A i \in DOMAIN Tail(inbox) : Tail(inbox)[i] = inbox[i + 1] /\ i + 1 \in DOMAIN inbox
                      /\ 1 \in DOMAIN inbox /\ Head(inbox) = inbox[1]
                      /\ Tail(inbox) \in Seq(Sequenced)
  OBVIOUS
<1>2. \A s \in Seq(Sequenced) : ToSet(Append(s, r)) \subseteq ToSet(s) \cup {r}
  OBVIOUS
<1>3. CASE Len(inbox) < Capacity
  BY <1>1, <1>2, <1>3 DEF Received
<1>4. CASE ~(Len(inbox) < Capacity)
  <2>1. inbox # <<>>
    BY <1>4, CapacityPositive
  <2>. QED  BY <1>1, <1>2, <1>4, <2>1 DEF Received
<1>. QED  BY <1>3, <1>4

LEMMA NumberingStep == Typed /\ Numbering /\ [Next]_vars => Numbering'
<1> SUFFICES ASSUME Typed, Numbering, [Next]_vars PROVE Numbering'
  OBVIOUS
<1>. rows' = rows => SequencedRows' = SequencedRows
  BY SameRows
<1>1. ASSUME NEW t \in Emitters, NEW e \in Events, EmitTakes(t, e) PROVE Numbering'
  <2>1. /\ ~Working(t) /\ e \notin emitted /\ emitted' = emitted \cup {e}
        /\ UNCHANGED <<SequencedRows, stream, inbox, client>>
    BY <1>1 DEF EmitTakes, Working
  <2>2. /\ Taken(t)' = [event |-> e, seq |-> counter']
        /\ \A u \in Emitters \ {t} : emitter'[u] = emitter[u]
    BY <1>1 DEF EmitTakes, Taken, Typed, TypeOK
  <2>3. OnTheirWay' \subseteq OnTheirWay \cup {[event |-> e, seq |-> counter']}
    BY <2>2 DEF OnTheirWay, Working, Taken
  <2>4. Records' \subseteq Records \cup {[event |-> e, seq |-> counter']}
    BY <2>1, <2>3 DEF Records
  <2>5. \A r \in Records : r.event # e
    BY <2>1 DEF Numbering
  <2>6. \A i \in DOMAIN view : view[i] # e
    BY <2>1 DEF Numbering
  <2>. QED  BY <2>1, <2>4, <2>5, <2>6 DEF Numbering, AppliedOnce, client
<1>2. ASSUME NEW t \in Emitters, EmitStores(t) PROVE Numbering'
  <2>1. /\ Working(t) /\ emitter' = [emitter EXCEPT ![t].pc = "send"]
        /\ UNCHANGED <<counter, stream, inbox, client, emitted>>
        /\ SequencedRows' \subseteq SequencedRows \cup {Taken(t)}
    BY <1>2, StoredRows DEF EmitStores, Working, Taken
  <2>2. OnTheirWay' \subseteq OnTheirWay /\ Taken(t) \in OnTheirWay
    BY <2>1 DEF OnTheirWay, Taken, Working, Typed, TypeOK
  <2>. QED  BY <2>1, <2>2, NumberingKept DEF Records, client
<1>3. ASSUME NEW t \in Emitters, EmitSends(t) PROVE Numbering'
  <2>1. /\ Working(t) /\ emitter' = [emitter EXCEPT ![t] = Idle]
        /\ UNCHANGED <<SequencedRows, stream, client, emitted>>
        /\ inbox' = inbox \/ inbox' = Received(Taken(t))
    BY <1>3 DEF EmitSends, Working, Taken
  <2>2. OnTheirWay' \subseteq OnTheirWay /\ Taken(t) \in OnTheirWay
    BY <2>1 DEF OnTheirWay, Taken, Working, Idle, Typed, TypeOK
  <2>3. Taken(t) \in Sequenced
    BY <2>1 DEF Typed, TypeOK, Taken, Sequenced
  <2>4. ToSet(inbox') \subseteq ToSet(inbox) \cup {Taken(t)}
    BY <2>1, <2>3, InboxRecords
  <2>. QED  BY <2>1, <2>2, <2>4, NumberingKept DEF Records, client
<1>4. ASSUME UNCHANGED <<SequencedRows, emitter, cursor, view, emitted>>,
             ToSet(inbox') \subseteq ToSet(inbox),
             stream'.replay \subseteq stream.replay \cup SequencedRows
      PROVE  Numbering'
  BY <1>4, NumberingKept DEF Records, OnTheirWay, Taken, Working
<1>5. ToSet(<<>>) = {}
  BY DEF ToSet
<1>6. CASE Connect
  BY <1>4, <1>6 DEF Connect, history
<1>7. CASE Subscribe
  BY <1>4, <1>5, <1>7 DEF Subscribe, client, history, Typed, TypeOK
<1>8. CASE ReadReplay
  <2>1. stream'.replay \subseteq SequencedRows
    <3>1. CASE stream' = Off
      BY <3>1, NothingTyped
    <3>2. CASE stream' = [stream EXCEPT !.pc = "replay", !.replay = From(stream.cursor)]
      BY <3>2, RowsTyped DEF Typed, TypeOK
    <3>. QED  BY <1>8, <3>1, <3>2 DEF ReadReplay
  <2>2. ToSet(inbox') \subseteq ToSet(inbox)
    BY <1>5, <1>8 DEF ReadReplay
  <2>. QED  BY <1>4, <1>8, <2>1, <2>2 DEF ReadReplay, client
<1>9. CASE ReplaySends
  <2>1. PICK r \in stream.replay : Passes(r)
    BY <1>9 DEF ReplaySends
  <2>2. r \in Records /\ r \in Sequenced
    BY DEF Records, Typed, TypeOK
  <2>3. stream'.replay \subseteq stream.replay
    BY <2>1, <2>2, PassesTyped
  <2>4. Records' \subseteq Records /\ UNCHANGED emitted
    BY <1>9, <2>3 DEF ReplaySends, Records, OnTheirWay, Taken, Working, history
  <2>. QED  BY <2>1, <2>2, <2>4, NumberingPasses
<1>10. CASE ReplayEnds
  BY <1>4, <1>10 DEF ReplayEnds, client, history, Typed, TypeOK
<1>11. CASE LiveReceives
  <2>1. inbox # <<>> /\ Passes(Head(inbox)) /\ inbox' = Tail(inbox)
    BY <1>11 DEF LiveReceives
  <2>2. Head(inbox) \in Sequenced
    BY <2>1 DEF Typed, TypeOK
  <2>3. Head(inbox) \in Records /\ ToSet(inbox') \subseteq ToSet(inbox)
    BY <2>1, <2>2, InboxRecords DEF Records
  <2>4. stream'.replay \subseteq stream.replay
    BY <2>1, <2>2, PassesTyped
  <2>5. Records' \subseteq Records /\ UNCHANGED emitted
    BY <1>11, <2>3, <2>4 DEF LiveReceives, Records, OnTheirWay, Taken, Working, history
  <2>. QED  BY <2>1, <2>2, <2>3, <2>5, NumberingPasses
<1>12. CASE Disconnect
  BY <1>4, <1>5, <1>12, NothingTyped DEF Disconnect
<1>13. CASE Restart
  <2>1. OnTheirWay' = {} /\ ToSet(inbox') = {} /\ stream'.replay = {}
    BY <1>5, <1>13, NothingTyped DEF Restart, OnTheirWay, Working, Idle
  <2>. QED  BY <1>13, <2>1, NumberingKept DEF Restart, Records
<1>14. ASSUME NEW e \in Recorded, RecordsEvent(e) PROVE Numbering'
  BY <1>4, <1>14, RecordedKeeps DEF RecordsEvent, client, history, Typed
<1>15. ASSUME NEW c \in 0 .. cursor, Resubscribe(c) PROVE Numbering'
  BY <1>4, <1>5, <1>15 DEF Resubscribe, client
<1>16. CASE UNCHANGED vars
  BY <1>4, <1>16 DEF vars, client, history
<1>. QED
  BY <1>1, <1>2, <1>3, <1>6, <1>7, <1>8, <1>9, <1>10, <1>11, <1>12, <1>13, <1>14, <1>15, <1>16
  DEF Next, Streams

LEMMA NumberingInit == Init => Numbering
<1> SUFFICES ASSUME Init PROVE Numbering
  OBVIOUS
<1>1. Records = {} /\ DOMAIN view = {}
  BY NothingTyped DEF SequencedRows,  Init, Records, OnTheirWay, Working, Idle, ToSet
<1>. QED  BY <1>1 DEF Numbering, AppliedOnce

-----------------------------------------------------------------------------
(* Under AlwaysRead a sequence is taken once: the counter is above every   *)
(* record there is, and a sequence still to be stored is not in the table. *)
Counted ==
  /\ counter = None => /\ inbox = <<>>
                       /\ \A t \in Emitters : ~Working(t)
  /\ counter # None => /\ \A r \in SequencedRows : r.seq <= counter
                       /\ \A i \in DOMAIN inbox : inbox[i].seq <= counter
                       /\ \A t \in Emitters : Working(t) => emitter[t].seq <= counter
Distinct ==
  /\ \A t, u \in Emitters :
       Working(t) /\ Working(u) /\ emitter[t].seq = emitter[u].seq => t = u
  /\ \A t \in Emitters, r \in SequencedRows : emitter[t].pc = "store" => r.seq # emitter[t].seq
  /\ \A r, s \in SequencedRows : r.seq = s.seq => r = s

LEMMA SequencesTyped ==
  ASSUME Typed
  PROVE  /\ \A r \in SequencedRows : r.seq \in Nat
         /\ \A i \in DOMAIN inbox : inbox[i].seq \in Nat
         /\ \A t \in Emitters : emitter[t].seq \in Nat
<1>1. \A i \in DOMAIN inbox : inbox[i] \in Sequenced
  BY DEF Typed, TypeOK
<1>2. \A r \in Sequenced : r.seq \in Nat
  BY DEF Sequenced
<1>3. SequencedRows \subseteq Sequenced /\ \A t \in Emitters : emitter[t].seq \in Nat
  BY RowsTyped DEF Typed, TypeOK
<1>. QED  BY <1>1, <1>2, <1>3

(* What EmitTakes gives out is beyond all that is under way.               *)
LEMMA NumberedBeyond ==
  ASSUME Typed, Counted
  PROVE  /\ Numbered \in Nat /\ \A r \in SequencedRows : r.seq < Numbered
         /\ \A i \in DOMAIN inbox : inbox[i].seq < Numbered
         /\ \A t \in Emitters : Working(t) => emitter[t].seq < Numbered
<1>1. counter \in Nat \cup {None}
  BY DEF Typed, TypeOK
<1>2. CASE counter = None
  BY <1>1, <1>2, NumberedTyped, RowsTyped DEF Counted, Typed
<1>3. CASE counter # None
  BY <1>1, <1>3, NumberedTyped, SequencesTyped DEF Counted
<1>. QED  BY <1>2, <1>3

LEMMA AlwaysReadBefore ==
  ASSUME Typed, [Next]_vars, AlwaysRead'
  PROVE  AlwaysRead
<1>1. \A n : \A w \in Bounded : Count(w, n) => used'["unread"] # 0 \/ used["unread"] = 0
  BY CountTyped DEF Bounded
<1>2. used' = used \/ \E n : \E w \in Bounded : Count(w, n)
  <2>1. "unread" \in Bounded /\ "fault" \in Bounded /\ "disconnect" \in Bounded
        /\ "restart" \in Bounded /\ "resubscribe" \in Bounded
    BY DEF Bounded
  <2>. QED
    BY <2>1 DEF Next, Streams, EmitTakes, EmitStores, EmitSends, Connect, Subscribe, ReadReplay,
       ReplaySends, ReplayEnds, LiveReceives, Disconnect, Restart, RecordsEvent, Resubscribe,
       vars, history
<1>. QED  BY <1>1, <1>2 DEF AlwaysRead

LEMMA DistinctStep ==
  ASSUME Typed, Counted, Distinct, [Next]_vars, AlwaysRead'
  PROVE  Counted' /\ Distinct'
<1>. rows' = rows => SequencedRows' = SequencedRows
  BY SameRows
<1>1. ASSUME NEW t \in Emitters, NEW e \in Events, EmitTakes(t, e)
      PROVE  Counted' /\ Distinct'
  <2>1. counter' = Numbered
    <3>1. counter' = Numbered \/ Count("unread", MaxUnread)
      BY <1>1 DEF EmitTakes
    <3>. QED  BY <3>1, CountTyped DEF Bounded, AlwaysRead
  <2>2. /\ ~Working(t) /\ UNCHANGED <<SequencedRows, inbox>>
        /\ emitter'[t].seq = counter' /\ \A u \in Emitters \ {t} : emitter'[u] = emitter[u]
    BY <1>1 DEF EmitTakes, Working, Typed, TypeOK
  <2>3. /\ \A r \in SequencedRows : r.seq \in Nat
        /\ \A i \in DOMAIN inbox : inbox[i].seq \in Nat
        /\ \A u \in Emitters : emitter[u].seq \in Nat
    BY SequencesTyped
  <2>4. counter' # None
    BY <2>1, NumberedBeyond, NoneIsNoEvent
  <2>5. \A u \in Emitters : u # t => (Working(u)' <=> Working(u))
    BY <2>2 DEF Working
  <2>6. Counted'
    BY <2>1, <2>2, <2>3, <2>4, <2>5, NumberedBeyond DEF Counted
  <2>7. Distinct'
    BY <2>1, <2>2, <2>3, <2>5, NumberedBeyond DEF Distinct
  <2>. QED  BY <2>6, <2>7
<1>2. ASSUME NEW t \in Emitters, EmitStores(t) PROVE Counted' /\ Distinct'
  <2>1. /\ Working(t) /\ emitter[t].pc = "store" /\ UNCHANGED <<counter, inbox>>
        /\ emitter' = [emitter EXCEPT ![t].pc = "send"]
        /\ SequencedRows' \subseteq SequencedRows \cup {Taken(t)}
    BY <1>2, StoredRows DEF EmitStores, Working, Taken
  <2>2. /\ \A u \in Emitters : emitter'[u].seq = emitter[u].seq /\ (Working(u)' <=> Working(u))
        /\ \A u \in Emitters \ {t} : emitter'[u] = emitter[u]
        /\ emitter'[t].pc = "send" /\ Taken(t).seq = emitter[t].seq
    BY <2>1 DEF Working, Taken, Typed, TypeOK
  <2>3. Counted'
    BY <2>1, <2>2 DEF Counted
  <2>4. Distinct'
    BY <2>1, <2>2 DEF Distinct, Working
  <2>. QED  BY <2>3, <2>4
<1>3. ASSUME NEW t \in Emitters, EmitSends(t) PROVE Counted' /\ Distinct'
  <2>1. /\ Working(t) /\ UNCHANGED <<counter, SequencedRows>>
        /\ emitter' = [emitter EXCEPT ![t] = Idle]
        /\ inbox' = inbox \/ inbox' = Received(Taken(t))
    BY <1>3 DEF EmitSends, Working, Taken
  <2>2. /\ \A u \in Emitters : Working(u)' => u # t /\ emitter'[u] = emitter[u] /\ Working(u)
        /\ emitter'[t].pc = "idle"
    BY <2>1 DEF Working, Idle, Typed, TypeOK
  <2>3. \A i \in DOMAIN inbox' : inbox'[i] \in ToSet(inbox) \cup {Taken(t)}
    <3>1. Taken(t) \in Sequenced
      BY <2>1 DEF Taken, Typed, TypeOK, Sequenced
    <3>. QED  BY <2>1, <3>1, InboxRecords DEF ToSet
  <2>4. counter # None
    BY <2>1 DEF Counted
  <2>5. Counted'
    BY <2>1, <2>2, <2>3, <2>4 DEF Counted, ToSet, Taken
  <2>6. Distinct'
    BY <2>1, <2>2 DEF Distinct, Working
  <2>. QED  BY <2>5, <2>6
<1>4. ASSUME UNCHANGED <<counter, SequencedRows, emitter>>, ToSet(inbox') \subseteq ToSet(inbox),
             inbox = <<>> => inbox' = <<>>
      PROVE  Counted' /\ Distinct'
  <2>1. \A i \in DOMAIN inbox' : \E j \in DOMAIN inbox : inbox[j] = inbox'[i]
    BY <1>4 DEF ToSet
  <2>2. Counted'
    BY <1>4, <2>1 DEF Counted, Working
  <2>. QED  BY <1>4, <2>2 DEF Distinct, Working
<1>5. ToSet(<<>>) = {}
  BY DEF ToSet
<1>6. CASE Connect
  BY <1>4, <1>6 DEF Connect
<1>7. CASE Subscribe
  BY <1>4, <1>5, <1>7 DEF Subscribe
<1>8. CASE ReadReplay
  <2>1. inbox' = inbox \/ inbox' = <<>>
    BY <1>8 DEF ReadReplay
  <2>. QED  BY <1>4, <1>5, <1>8, <2>1 DEF ReadReplay
<1>9. CASE ReplaySends
  BY <1>4, <1>9 DEF ReplaySends
<1>10. CASE ReplayEnds
  BY <1>4, <1>10 DEF ReplayEnds
<1>11. CASE LiveReceives
  <2>1. inbox # <<>> /\ inbox' = Tail(inbox)
    BY <1>11 DEF LiveReceives
  <2>2. Head(inbox) \in Sequenced
    BY <2>1 DEF Typed, TypeOK
  <2>3. ToSet(inbox') \subseteq ToSet(inbox)
    BY <2>1, <2>2, InboxRecords
  <2>. QED  BY <1>4, <1>11, <2>1, <2>3 DEF LiveReceives
<1>12. CASE Disconnect
  BY <1>4, <1>5, <1>12 DEF Disconnect
<1>13. CASE Restart
  <2>1. counter' = None /\ inbox' = <<>> /\ SequencedRows' = SequencedRows
        /\ \A t \in Emitters : emitter'[t].pc = "idle"
    BY <1>13 DEF Restart, Idle
  <2>. QED  BY <2>1 DEF Counted, Distinct, Working
<1>14. ASSUME NEW e \in Recorded, RecordsEvent(e) PROVE Counted' /\ Distinct'
  BY <1>4, <1>14, RecordedKeeps DEF RecordsEvent, Typed
<1>15. ASSUME NEW c \in 0 .. cursor, Resubscribe(c) PROVE Counted' /\ Distinct'
  BY <1>4, <1>5, <1>15 DEF Resubscribe
<1>16. CASE UNCHANGED vars
  BY <1>4, <1>16 DEF vars
<1>. QED
  BY <1>1, <1>2, <1>3, <1>6, <1>7, <1>8, <1>9, <1>10, <1>11, <1>12, <1>13, <1>14, <1>15, <1>16
  DEF Next, Streams

LEMMA DistinctInit == Init => Counted /\ Distinct
  BY DEF Init, Counted, Distinct, Working, Idle, SequencedRows

-----------------------------------------------------------------------------
(* A record the client has not applied and nothing excuses it of, and the  *)
(* events that are only to be broadcast.                                   *)
Owed(r) == r.event \notin ToSet(view) /\ r.event \notin excused
ToSend == {Taken(t) : t \in {u \in Emitters : emitter[u].pc = "send"}}

(* What is owed lies beyond the client's counter and beyond all that can   *)
(* raise the counter before it.                                            *)
OwedAhead == \A r \in SequencedRows : Owed(r) => r.seq > cursor
StoringAhead ==
  \A t \in Emitters : emitter[t].pc = "store" /\ Owed(Taken(t)) =>
    emitter[t].seq > cursor /\ \A r \in SequencedRows : r.seq < emitter[t].seq
SendingAhead ==
  \A t \in Emitters : Working(t) /\ Owed(Taken(t)) =>
    \A i \in DOMAIN inbox : inbox[i].seq < emitter[t].seq
InboxInOrder ==
  \A i, j \in DOMAIN inbox : i < j /\ Owed(inbox[j]) => inbox[i].seq < inbox[j].seq
ReplayFirst ==
  /\ stream.replay \subseteq SequencedRows
  /\ stream.pc = "live" => stream.replay = {}
  /\ stream.pc = "replay" =>
       \A r \in SequencedRows \ stream.replay, s \in stream.replay : Owed(r) => s.seq < r.seq

(* Once the replay was read, what is owed is in it, in the channel or      *)
(* about to be sent; and the subscription is not ahead of the client.      *)
OwedComes ==
  stream.pc \in {"replay", "live"} =>
    \A r \in SequencedRows : Owed(r) => r \in stream.replay \cup ToSet(inbox) \cup ToSend
CursorBehind == stream.pc # "off" => stream.cursor <= cursor

Following ==
  /\ OwedAhead /\ StoringAhead /\ SendingAhead /\ InboxInOrder
  /\ ReplayFirst /\ OwedComes /\ CursorBehind

LEMMA OwedShrinks ==
  ASSUME Typed, UNCHANGED view, excused \subseteq excused'
  PROVE  \A r : Owed(r)' => Owed(r)
  BY DEF Owed

LEMMA TakesFollows ==
  ASSUME Typed, Counted, Following, AlwaysRead',
         NEW t \in Emitters, NEW e \in Events, EmitTakes(t, e)
  PROVE  Following'
<1>. rows' = rows => SequencedRows' = SequencedRows
  BY SameRows
<1>1. counter' = Numbered
  <2>1. counter' = Numbered \/ Count("unread", MaxUnread)
    BY DEF EmitTakes
  <2>. QED  BY <2>1, CountTyped DEF Bounded, AlwaysRead
<1>2. /\ ~Working(t) /\ UNCHANGED <<SequencedRows, inbox, stream, cursor, view>>
      /\ emitter'[t].seq = counter' /\ emitter'[t].event = e
      /\ \A u \in Emitters \ {t} : emitter'[u] = emitter[u]
      /\ excused' = IF counter' <= cursor THEN excused \cup {e} ELSE excused
  BY DEF EmitTakes, Working, Typed, TypeOK, client
<1>3. \A r : Owed(r)' => Owed(r)
  BY <1>2, OwedShrinks
<1>4. cursor \in Nat /\ counter' \in Nat /\ Taken(t)'.event = e
  BY <1>1, <1>2, NumberedBeyond DEF Typed, TypeOK, Taken
<1>5. Owed(Taken(t))' => counter' > cursor
  BY <1>2, <1>4 DEF Owed
<1>6. \A u \in Emitters \ {t} : Taken(u)' = Taken(u) /\ (Working(u)' <=> Working(u))
  BY <1>2 DEF Taken, Working
<1>7. OwedAhead' /\ InboxInOrder' /\ ReplayFirst' /\ CursorBehind'
  BY <1>2, <1>3 DEF Following, OwedAhead, InboxInOrder, ReplayFirst, CursorBehind
<1>8. StoringAhead'
  BY <1>1, <1>2, <1>3, <1>5, <1>6, NumberedBeyond DEF Following, StoringAhead
<1>9. SendingAhead'
  BY <1>1, <1>2, <1>3, <1>6, NumberedBeyond DEF Following, SendingAhead
<1>10. ToSend \subseteq ToSend'
  BY <1>2, <1>6 DEF ToSend, Working
<1>11. OwedComes'
  BY <1>2, <1>3, <1>10 DEF Following, OwedComes
<1>. QED  BY <1>7, <1>8, <1>9, <1>11 DEF Following

LEMMA StoresFollows ==
  ASSUME Typed, Distinct, Following, NEW t \in Emitters, EmitStores(t)
  PROVE  Following'
<1>1. /\ emitter[t].pc = "store" /\ UNCHANGED <<inbox, stream, cursor, view>>
      /\ emitter' = [emitter EXCEPT ![t].pc = "send"]
      /\ SequencedRows' = SequencedRows \/ SequencedRows' = SequencedRows \cup {Taken(t)}
      /\ excused' = excused \cup Overtaken(t, {"store"})
  BY StoredRows DEF EmitStores, Taken, client
<1>2. /\ emitter'[t].pc = "send" /\ \A u \in Emitters \ {t} : emitter'[u] = emitter[u]
      /\ \A u \in Emitters : Taken(u)' = Taken(u) /\ (Working(u)' <=> Working(u))
                             /\ emitter'[u].seq = emitter[u].seq /\ emitter[u].seq \in Nat
      /\ Taken(t).seq = emitter[t].seq
  BY <1>1 DEF Working, Taken, Typed, TypeOK
<1>3. \A r : Owed(r)' => Owed(r)
  BY <1>1, OwedShrinks
<1>4. OwedAhead'
  BY <1>1, <1>2, <1>3 DEF Following, OwedAhead, StoringAhead
<1>5. SendingAhead' /\ InboxInOrder' /\ CursorBehind'
  BY <1>1, <1>2, <1>3 DEF Following, SendingAhead, InboxInOrder, CursorBehind
<1>6. StoringAhead'
  <2> SUFFICES ASSUME NEW u \in Emitters, emitter'[u].pc = "store", Owed(Taken(u))'
               PROVE  emitter'[u].seq > cursor' /\ \A r \in SequencedRows' : r.seq < emitter'[u].seq
    BY DEF StoringAhead
  <2>1. u # t /\ emitter[u].pc = "store" /\ Owed(Taken(u))
    BY <1>2, <1>3
  <2>2. emitter[u].seq > cursor /\ \A r \in SequencedRows : r.seq < emitter[u].seq
    BY <2>1 DEF Following, StoringAhead
  <2>3. emitter[u].event \notin Overtaken(t, {"store"})
    BY <1>1, <1>2 DEF Owed, Taken
  <2>4. ~(emitter[u].seq < emitter[t].seq)
    BY <2>1, <2>3 DEF Overtaken
  <2>5. emitter[u].seq # emitter[t].seq
    BY <1>1, <2>1 DEF Distinct, Working
  <2>. QED  BY <1>1, <1>2, <2>2, <2>4, <2>5
<1>7. ReplayFirst'
  BY <1>1, <1>2, <1>3 DEF Following, ReplayFirst, StoringAhead
<1>8. ToSend' = ToSend \cup {Taken(t)}
  BY <1>1, <1>2 DEF ToSend
<1>9. OwedComes'
  BY <1>1, <1>3, <1>8 DEF Following, OwedComes
<1>. QED  BY <1>4, <1>5, <1>6, <1>7, <1>9 DEF Following

(* The channel after a broadcast: what it held before, but for what it     *)
(* forgot, and the new event last.                                         *)
LEMMA ReceivedInOrder ==
  ASSUME Typed, NEW r \in Sequenced
  PROVE  /\ \A x \in ToSet(inbox) : x \in ToSet(Received(r)) \/ x.event \in Forgotten
         /\ r \in ToSet(Received(r))
         /\ \A i, j \in DOMAIN Received(r) : i < j =>
              /\ \E m \in DOMAIN inbox : Received(r)[i] = inbox[m]
              /\ \/ Received(r)[j] = r
                 \/ \E m, n \in DOMAIN inbox : /\ m < n /\ Received(r)[i] = inbox[m]
                                               /\ Received(r)[j] = inbox[n]
<1> DEFINE s == Received(r)
<1>0. inbox \in Seq(Sequenced) /\ Len(inbox) \in Nat
  BY DEF Typed, TypeOK
<1>1. PICK d \in {0, 1} :
        /\ s \in Seq(Sequenced) /\ Len(s) = Len(inbox) + 1 - d /\ d <= Len(inbox)
        /\ \A i \in 1..(Len(inbox) - d) : s[i] = inbox[i + d]
        /\ s[Len(s)] = r
        /\ d = 1 => inbox # <<>> /\ Forgotten = {inbox[1].event}
  <2>1. CASE Len(inbox) < Capacity
    BY <1>0, <2>1 DEF Received
  <2>2. CASE ~(Len(inbox) < Capacity)
    <3>1. inbox # <<>> /\ Forgotten = {inbox[1].event}
      BY <1>0, <2>2, CapacityPositive DEF Forgotten
    <3>2. s = Append(Tail(inbox), r)
      BY <2>2 DEF Received
    <3>3. /\ Tail(inbox) \in Seq(Sequenced) /\ Len(Tail(inbox)) = Len(inbox) - 1
          /\ \A i \in 1..(Len(inbox) - 1) : Tail(inbox)[i] = inbox[i + 1]
          /\ Len(inbox) >= 1
      BY <1>0, <3>1
    <3>4. /\ s \in Seq(Sequenced) /\ Len(s) = Len(inbox)
          /\ \A i \in 1..(Len(inbox) - 1) : s[i] = inbox[i + 1]
          /\ s[Len(s)] = r
      BY <1>0, <3>2, <3>3
    <3> HIDE DEF s
    <3>5. /\ Len(s) = Len(inbox) + 1 - 1 /\ 1 <= Len(inbox)
          /\ \A i \in 1..(Len(inbox) - 1) : s[i] = inbox[i + 1]
      BY <1>0, <3>3, <3>4
    <3>. QED  BY <3>1, <3>4, <3>5
  <2>. QED  BY <2>1, <2>2
<1>2. DOMAIN s = 1..Len(s) /\ DOMAIN inbox = 1..Len(inbox)
  BY <1>0, <1>1
<1> HIDE DEF s
<1>3. \A i \in DOMAIN s : i = Len(s) \/ i \in 1..(Len(inbox) - d)
  BY <1>0, <1>1, <1>2
<1>4. \A i \in 1..(Len(inbox) - d) : i + d \in DOMAIN inbox /\ i \in DOMAIN s
  BY <1>0, <1>1, <1>2
<1>5. ASSUME NEW x \in ToSet(inbox) PROVE x \in ToSet(s) \/ x.event \in Forgotten
  <2>1. PICK m \in DOMAIN inbox : x = inbox[m]
    BY <1>5 DEF ToSet
  <2>2. CASE m = 1 /\ d = 1
    BY <1>1, <2>1, <2>2
  <2>3. CASE ~(m = 1 /\ d = 1)
    <3>1. m - d \in 1..(Len(inbox) - d) /\ (m - d) + d = m
      BY <1>0, <1>2, <2>3
    <3>2. s[m - d] = inbox[m] /\ m - d \in DOMAIN s
      BY <1>1, <1>4, <3>1
    <3>. QED  BY <2>1, <3>2 DEF ToSet
  <2>. QED  BY <2>2, <2>3
<1>6. r \in ToSet(s)
  <2>1. Len(s) \in DOMAIN s
    BY <1>0, <1>1, <1>2
  <2>. QED  BY <1>1, <2>1 DEF ToSet
<1>7. ASSUME NEW i \in DOMAIN s, NEW j \in DOMAIN s, i < j
      PROVE  /\ \E m \in DOMAIN inbox : s[i] = inbox[m]
             /\ \/ s[j] = r
                \/ \E m, n \in DOMAIN inbox : /\ m < n /\ s[i] = inbox[m] /\ s[j] = inbox[n]
  <2>0. i # Len(s)
    <3>1. Len(s) \in Nat
      BY <1>1
    <3>. QED  BY <1>2, <1>7, <3>1
  <2>1. i \in 1..(Len(inbox) - d) /\ i + d \in DOMAIN inbox /\ s[i] = inbox[i + d]
    BY <1>1, <1>3, <1>4, <2>0
  <2>2. CASE j = Len(s)
    BY <1>1, <2>1, <2>2
  <2>3. CASE j \in 1..(Len(inbox) - d)
    <3>1. j + d \in DOMAIN inbox /\ s[j] = inbox[j + d]
      BY <1>1, <1>4, <2>3
    <3>2. i + d < j + d
      BY <1>1, <1>7, <2>1, <2>3
    <3>. QED  BY <2>1, <3>1, <3>2
  <2>. QED  BY <1>3, <2>2, <2>3
<1>. QED  BY <1>5, <1>6, <1>7 DEF s

LEMMA SendsFollows ==
  ASSUME Typed, Distinct, Following, NEW t \in Emitters, EmitSends(t)
  PROVE  Following'
<1>. rows' = rows => SequencedRows' = SequencedRows
  BY SameRows
<1>1. /\ emitter[t].pc = "send" /\ UNCHANGED <<SequencedRows, stream, cursor, view>>
      /\ emitter' = [emitter EXCEPT ![t] = Idle]
      /\ inbox' = IF Receiving THEN Received(Taken(t)) ELSE inbox
      /\ excused' = excused \cup Overtaken(t, {"store", "send"})
                    \cup (IF Receiving THEN Forgotten ELSE {})
  BY DEF EmitSends, Taken, client
<1>2. /\ \A u \in Emitters : Working(u)' =>
           /\ u # t /\ emitter'[u] = emitter[u] /\ Taken(u)' = Taken(u) /\ Working(u)
           /\ emitter[u].pc \in {"store", "send"}
      /\ emitter'[t].pc = "idle" /\ Taken(t) \in Sequenced /\ Taken(t).seq = emitter[t].seq
      /\ \A u \in Emitters : emitter[u].seq \in Nat
  BY <1>1 DEF Working, Idle, Taken, Typed, TypeOK, Sequenced
<1>3. \A r : Owed(r)' => Owed(r)
  BY <1>1, OwedShrinks
<1>4. OwedAhead' /\ ReplayFirst' /\ CursorBehind'
  BY <1>1, <1>3 DEF Following, OwedAhead, ReplayFirst, CursorBehind
<1>5. StoringAhead'
  BY <1>1, <1>2, <1>3 DEF Following, StoringAhead, Working
<1>6. \A i \in DOMAIN inbox' : inbox'[i] \in ToSet(inbox) \cup {Taken(t)}
  BY <1>1, <1>2, InboxRecords DEF ToSet
<1>7. SendingAhead'
  <2> SUFFICES ASSUME NEW u \in Emitters, Working(u)', Owed(Taken(u))',
                      NEW i \in DOMAIN inbox'
               PROVE  inbox'[i].seq < emitter'[u].seq
    BY DEF SendingAhead
  <2>1. u # t /\ Working(u) /\ emitter'[u] = emitter[u] /\ Owed(Taken(u))
        /\ emitter[u].pc \in {"store", "send"}
    BY <1>2, <1>3
  <2>2. \A m \in DOMAIN inbox : inbox[m].seq < emitter[u].seq
    BY <2>1 DEF Following, SendingAhead
  <2>3. emitter[u].event \notin Overtaken(t, {"store", "send"})
    <3>1. Taken(u)'.event = emitter[u].event
      BY <2>1 DEF Taken
    <3>2. Taken(u)'.event \notin excused'
      BY DEF Owed
    <3>. QED  BY <1>1, <3>1, <3>2
  <2>4. ~(emitter[u].seq < emitter[t].seq)
    BY <2>1, <2>3 DEF Overtaken
  <2>5. emitter[u].seq # emitter[t].seq
    BY <1>1, <2>1 DEF Distinct, Working
  <2>6. emitter[t].seq < emitter[u].seq
    BY <1>2, <2>4, <2>5
  <2>. QED  BY <1>2, <1>6, <2>1, <2>2, <2>6 DEF ToSet
<1>8. InboxInOrder'
  <2>1. CASE ~Receiving
    BY <1>1, <1>3, <2>1 DEF Following, InboxInOrder
  <2>2. CASE Receiving
    <3> SUFFICES ASSUME NEW i \in DOMAIN inbox', NEW j \in DOMAIN inbox', i < j,
                        Owed(inbox[j])'
                 PROVE  inbox'[i].seq < inbox'[j].seq
      BY DEF InboxInOrder
    <3>1. inbox' = Received(Taken(t)) /\ Owed(inbox'[j])
      <4>1. inbox'[j].event \notin ToSet(view') /\ inbox'[j].event \notin excused'
        BY DEF Owed
      <4>2. excused \subseteq excused' /\ view' = view
        BY <1>1
      <4>. QED  BY <1>1, <2>2, <4>1, <4>2 DEF Owed
    <3>2. PICK m \in DOMAIN inbox : inbox'[i] = inbox[m]
      BY <1>2, <3>1, ReceivedInOrder
    <3>3. CASE inbox'[j] = Taken(t)
      <4>1. \A k \in DOMAIN inbox : inbox[k].seq < emitter[t].seq
        BY <1>1, <3>1, <3>3 DEF Following, SendingAhead, Working
      <4>. QED  BY <1>2, <3>2, <3>3, <4>1
    <3>4. CASE \E k, n \in DOMAIN inbox : k < n /\ inbox'[i] = inbox[k] /\ inbox'[j] = inbox[n]
      BY <3>1, <3>4 DEF Following, InboxInOrder
    <3>. QED  BY <1>2, <3>1, <3>3, <3>4, ReceivedInOrder
  <2>. QED  BY <2>1, <2>2
<1>9. OwedComes'
  <2> SUFFICES ASSUME stream'.pc \in {"replay", "live"}, NEW r \in SequencedRows', Owed(r)'
               PROVE  r \in stream'.replay \cup ToSet(inbox') \cup ToSend'
    BY DEF OwedComes
  <2>1. Receiving /\ inbox' = Received(Taken(t)) /\ r.event \notin Forgotten
    BY <1>1 DEF Receiving, Owed
  <2>2. r \in stream.replay \cup ToSet(inbox) \cup ToSend
    BY <1>1, <1>3 DEF Following, OwedComes
  <2>3. CASE r \in stream.replay
    BY <1>1, <2>3
  <2>4. CASE r \in ToSet(inbox)
    BY <1>2, <2>1, <2>4, ReceivedInOrder
  <2>5. CASE r \in ToSend
    <3>1. PICK u \in Emitters : emitter[u].pc = "send" /\ r = Taken(u)
      BY <2>5 DEF ToSend
    <3>2. CASE u = t
      BY <1>2, <2>1, <3>1, <3>2, ReceivedInOrder
    <3>3. CASE u # t
      <4>1. emitter'[u] = emitter[u] /\ Taken(u)' = Taken(u)
        BY <1>1, <3>3 DEF Typed, TypeOK, Taken
      <4>. QED  BY <3>1, <4>1 DEF ToSend
    <3>. QED  BY <3>2, <3>3
  <2>. QED  BY <2>2, <2>3, <2>4, <2>5
<1>. QED  BY <1>4, <1>5, <1>7, <1>8, <1>9 DEF Following

(* A record passes to the client that nothing owed precedes.               *)
LEMMA PassesFollows ==
  ASSUME Typed, Following, NEW s \in Sequenced, Passes(s), stream.pc # "off",
         UNCHANGED <<SequencedRows, emitter, excused>>,
         \A r \in SequencedRows : Owed(r) => r = s \/ s.seq < r.seq,
         \A t \in Emitters : emitter[t].pc = "store" /\ Owed(Taken(t)) => s.seq < emitter[t].seq
  PROVE  /\ OwedAhead' /\ StoringAhead' /\ CursorBehind'
         /\ \A r : Owed(r)' => Owed(r)
         /\ \A r \in SequencedRows : Owed(r)' => r # s
<1>1. /\ stream'.pc = stream.pc /\ stream.cursor <= cursor
      /\ stream'.cursor = (IF s.seq > stream.cursor THEN s.seq ELSE stream.cursor)
      /\ IF s.seq > stream.cursor /\ s.seq > cursor
         THEN cursor' = s.seq /\ view' = Append(view, s.event)
         ELSE cursor' = cursor /\ view' = view
  BY PassesTyped DEF Following, CursorBehind
<1>2. s.seq \in Nat /\ cursor \in Nat /\ view \in Seq(Events) /\ s.event \in Events
      /\ stream.cursor \in Nat
      /\ \A r \in SequencedRows : r.seq \in Nat
      /\ \A t \in Emitters : emitter[t].seq \in Nat
  BY SequencesTyped DEF Typed, TypeOK, Sequenced
<1>3. ToSet(view) \subseteq ToSet(view') /\ (s.seq > cursor => s.event \in ToSet(view'))
  <2>1. CASE s.seq > cursor
    <3>1. view' = Append(view, s.event)
      BY <1>1, <1>2, <2>1
    <3>2. /\ DOMAIN view = 1..Len(view) /\ DOMAIN view' = 1..(Len(view) + 1)
          /\ Len(view) \in Nat
          /\ \A i \in 1..Len(view) : view'[i] = view[i] /\ view'[Len(view) + 1] = s.event
          /\ view'[Len(view) + 1] = s.event
      BY <1>2, <3>1
    <3>. QED  BY <3>2 DEF ToSet
  <2>2. CASE ~(s.seq > cursor)
    BY <1>1, <2>2
  <2>. QED  BY <2>1, <2>2
<1>4. \A r : Owed(r)' => Owed(r)
  BY <1>3 DEF Owed
<1>5. ASSUME NEW r \in SequencedRows, Owed(r)' PROVE r # s /\ s.seq < r.seq /\ r.seq > cursor
  <2>1. r.seq > cursor
    BY <1>4, <1>5 DEF Following, OwedAhead
  <2>2. r # s
    BY <1>3, <1>5, <2>1 DEF Owed
  <2>. QED  BY <1>4, <1>5, <2>1, <2>2
<1>6. cursor' = cursor \/ cursor' = s.seq
  BY <1>1
<1>7. OwedAhead'
  BY <1>2, <1>5, <1>6 DEF OwedAhead
<1>8. StoringAhead'
  <2> SUFFICES ASSUME NEW t \in Emitters, emitter'[t].pc = "store", Owed(Taken(t))'
               PROVE  emitter'[t].seq > cursor' /\ \A r \in SequencedRows' : r.seq < emitter'[t].seq
    BY DEF StoringAhead
  <2>1. emitter[t].pc = "store" /\ Owed(Taken(t))
    BY <1>4 DEF Taken, Owed
  <2>. QED  BY <1>2, <1>6, <2>1 DEF Following, StoringAhead
<1>9. CursorBehind'
  BY <1>1, <1>2 DEF CursorBehind
<1>. QED  BY <1>4, <1>5, <1>7, <1>8, <1>9

LEMMA ReplayFollows ==
  ASSUME Typed, Distinct, Following, ReplaySends
  PROVE  Following'
<1>. rows' = rows => SequencedRows' = SequencedRows
  BY SameRows
<1>1. PICK s \in stream.replay : (\A q \in stream.replay : s.seq <= q.seq) /\ Passes(s)
  BY DEF ReplaySends
<1>2. stream.pc = "replay" /\ UNCHANGED <<SequencedRows, emitter, inbox, excused>>
  BY DEF ReplaySends, history
<1>3. s \in SequencedRows /\ s \in Sequenced /\ \A r \in SequencedRows : r.seq \in Nat
  BY SequencesTyped DEF Following, ReplayFirst, Typed, TypeOK
<1>4. ASSUME NEW r \in SequencedRows, Owed(r) PROVE r = s \/ s.seq < r.seq
  <2>1. CASE r \in stream.replay
    <3>1. s.seq <= r.seq /\ (s.seq = r.seq => r = s)
      BY <1>1, <1>3, <2>1 DEF Distinct
    <3>. QED  BY <1>3, <3>1
  <2>2. CASE r \notin stream.replay
    BY <1>2, <1>4, <2>2 DEF Following, ReplayFirst
  <2>. QED  BY <2>1, <2>2
<1>5. \A t \in Emitters : emitter[t].pc = "store" /\ Owed(Taken(t)) => s.seq < emitter[t].seq
  BY <1>3 DEF Following, StoringAhead
<1>6. /\ OwedAhead' /\ StoringAhead' /\ CursorBehind'
      /\ \A r : Owed(r)' => Owed(r)
      /\ \A r \in SequencedRows : Owed(r)' => r # s
  BY <1>1, <1>2, <1>3, <1>4, <1>5, PassesFollows
<1>7. stream'.pc = "replay" /\ stream'.replay = stream.replay \ {s}
  BY <1>1, <1>2, <1>3, PassesTyped
<1>8. ToSend' = ToSend /\ \A t \in Emitters : Taken(t)' = Taken(t) /\ (Working(t)' <=> Working(t))
  BY <1>2 DEF ToSend, Taken, Working
<1>9. SendingAhead' /\ InboxInOrder'
  BY <1>2, <1>6, <1>8 DEF Following, SendingAhead, InboxInOrder
<1>10. ReplayFirst'
  BY <1>2, <1>6, <1>7 DEF Following, ReplayFirst
<1>11. OwedComes'
  BY <1>2, <1>6, <1>7, <1>8 DEF Following, OwedComes
<1>. QED  BY <1>6, <1>9, <1>10, <1>11 DEF Following

LEMMA LiveFollows ==
  ASSUME Typed, Distinct, Following, LiveReceives
  PROVE  Following'
<1>. rows' = rows => SequencedRows' = SequencedRows
  BY SameRows
<1> DEFINE s == inbox[1]
<1>1. /\ stream.pc = "live" /\ UNCHANGED <<SequencedRows, emitter, excused>>
      /\ inbox # <<>> /\ inbox' = Tail(inbox) /\ Passes(Head(inbox))
  BY DEF LiveReceives, history
<1>2. /\ Head(inbox) = s /\ s \in Sequenced /\ 1 \in DOMAIN inbox
      /\ \A i \in DOMAIN inbox' : i + 1 \in DOMAIN inbox /\ inbox'[i] = inbox[i + 1]
      /\ \A i \in DOMAIN inbox : i # 1 => 1 < i /\ i - 1 \in DOMAIN inbox' /\ inbox'[i - 1] = inbox[i]
      /\ \A i, j \in DOMAIN inbox' : i < j => i + 1 < j + 1
  BY <1>1 DEF Typed, TypeOK
<1>3. stream.replay = {} /\ \A r \in SequencedRows : Owed(r) => r \in ToSet(inbox) \cup ToSend
  BY <1>1 DEF Following, ReplayFirst, OwedComes
<1> HIDE DEF s
<1>4. Passes(s) /\ inbox[1] = s
  BY <1>1, <1>2 DEF s
<1>5. ASSUME NEW r \in SequencedRows, Owed(r) PROVE r = s \/ s.seq < r.seq
  <2>1. CASE r \in ToSet(inbox)
    <3>1. PICK i \in DOMAIN inbox : r = inbox[i]
      BY <2>1 DEF ToSet
    <3>. QED  BY <1>2, <1>4, <1>5, <3>1 DEF Following, InboxInOrder
  <2>2. CASE r \in ToSend
    <3>1. PICK t \in Emitters : emitter[t].pc = "send" /\ r = Taken(t) /\ r.seq = emitter[t].seq
      BY <2>2 DEF ToSend, Taken
    <3>. QED  BY <1>2, <1>4, <1>5, <3>1 DEF Following, SendingAhead, Working
  <2>. QED  BY <1>3, <1>5, <2>1, <2>2
<1>6. \A t \in Emitters : emitter[t].pc = "store" /\ Owed(Taken(t)) => s.seq < emitter[t].seq
  BY <1>2, <1>4 DEF Following, SendingAhead, Working
<1>7. /\ OwedAhead' /\ StoringAhead' /\ CursorBehind'
      /\ \A r : Owed(r)' => Owed(r)
      /\ \A r \in SequencedRows : Owed(r)' => r # s
  BY <1>1, <1>2, <1>4, <1>5, <1>6, PassesFollows
<1>8. stream'.pc = "live" /\ stream'.replay = {}
  BY <1>1, <1>2, <1>3, <1>4, PassesTyped
<1>9. ToSend' = ToSend /\ \A t \in Emitters : Taken(t)' = Taken(t) /\ (Working(t)' <=> Working(t))
  BY <1>1 DEF ToSend, Taken, Working
<1>10. SendingAhead'
  BY <1>1, <1>2, <1>7, <1>9 DEF Following, SendingAhead
<1>11. InboxInOrder'
  BY <1>2, <1>7 DEF Following, InboxInOrder
<1>12. ReplayFirst'
  BY <1>8 DEF ReplayFirst
<1>13. \A x \in ToSet(inbox) : x = s \/ x \in ToSet(inbox')
  BY <1>2, <1>4 DEF ToSet
<1>14. OwedComes'
  BY <1>1, <1>3, <1>7, <1>9, <1>13 DEF OwedComes
<1>. QED  BY <1>7, <1>10, <1>11, <1>12, <1>14 DEF Following

LEMMA FollowingStep ==
  ASSUME Typed, Counted, Distinct, Following, [Next]_vars, AlwaysRead'
  PROVE  Following'
<1>. rows' = rows => SequencedRows' = SequencedRows
  BY SameRows
<1>1. ASSUME UNCHANGED <<SequencedRows, emitter, cursor, view, excused>>,
             inbox' = inbox \/ inbox' = <<>>, ReplayFirst', CursorBehind', OwedComes'
      PROVE  Following'
  <2>1. /\ \A r : Owed(r)' <=> Owed(r)
        /\ \A t \in Emitters : Taken(t)' = Taken(t) /\ (Working(t)' <=> Working(t))
    BY <1>1 DEF Owed, Taken, Working
  <2>2. OwedAhead' /\ StoringAhead'
    BY <1>1, <2>1 DEF Following, OwedAhead, StoringAhead
  <2>3. SendingAhead' /\ InboxInOrder'
    BY <1>1, <2>1 DEF Following, SendingAhead, InboxInOrder
  <2>. QED  BY <1>1, <2>2, <2>3 DEF Following
<1>2. CASE Connect
  <2>1. stream'.pc = "subscribe" /\ stream'.cursor = cursor /\ stream'.replay = {}
    BY <1>2 DEF Connect
  <2>2. ReplayFirst' /\ CursorBehind' /\ OwedComes'
    BY <1>2, <2>1 DEF Connect, Typed, TypeOK, ReplayFirst, CursorBehind, OwedComes
  <2>. QED
    BY <1>1, <1>2, <2>2 DEF Connect, history
<1>3. CASE Subscribe
  <2>1. /\ stream'.pc = "read" /\ stream'.cursor = stream.cursor
        /\ stream'.replay = stream.replay /\ stream.pc = "subscribe"
    BY <1>3 DEF Subscribe, Typed, TypeOK
  <2>2. ReplayFirst' /\ CursorBehind' /\ OwedComes'
    BY <1>3, <2>1
    DEF Subscribe, client, Following, ReplayFirst, CursorBehind, OwedComes
  <2>. QED  BY <1>1, <1>3, <2>2 DEF Subscribe, history, client
<1>4. ASSUME stream' = Off, UNCHANGED SequencedRows PROVE ReplayFirst' /\ CursorBehind' /\ OwedComes'
  BY <1>4, NothingTyped DEF ReplayFirst, CursorBehind, OwedComes
<1>5. CASE ReadReplay
  <2>1. /\ UNCHANGED <<SequencedRows, emitter, cursor, view, excused>> /\ stream.pc = "read"
        /\ inbox' = inbox \/ inbox' = <<>>
    BY <1>5 DEF ReadReplay, client
  <2>2. CASE stream' = Off
    BY <1>1, <1>4, <2>1, <2>2
  <2>3. CASE stream' = [stream EXCEPT !.pc = "replay", !.replay = From(stream.cursor)]
    <3>1. /\ stream'.pc = "replay" /\ stream'.cursor = stream.cursor /\ stream.cursor <= cursor
          /\ stream'.replay = {r \in SequencedRows : r.seq > stream.cursor}
      BY <2>1, <2>3, RowsTyped DEF Typed, TypeOK, Following, CursorBehind
    <3>2. \A r \in SequencedRows : Owed(r)' => r \in stream'.replay
      <4>1. stream.cursor \in Nat /\ cursor \in Nat /\ \A r \in SequencedRows : r.seq \in Nat
        BY RowsTyped DEF Typed, TypeOK
      <4>. QED  BY <2>1, <3>1, <4>1 DEF Owed, Following, OwedAhead
    <3>3. ReplayFirst' /\ CursorBehind' /\ OwedComes'
      BY <2>1, <3>1, <3>2 DEF ReplayFirst, CursorBehind, OwedComes
    <3>. QED  BY <1>1, <2>1, <3>3
  <2>. QED  BY <1>5, <2>2, <2>3 DEF ReadReplay
<1>6. CASE ReplayEnds
  <2>1. /\ stream.pc = "replay" /\ stream.replay = {}
        /\ stream'.pc = "live" /\ stream'.cursor = stream.cursor /\ stream'.replay = {}
    BY <1>6 DEF ReplayEnds, Typed, TypeOK
  <2>2. UNCHANGED <<SequencedRows, emitter, inbox, cursor, view, excused>>
    BY <1>6 DEF ReplayEnds, client, history
  <2>3. ReplayFirst' /\ CursorBehind'
    BY <2>1, <2>2 DEF Following, ReplayFirst, CursorBehind
  <2>4. OwedComes'
    <3>1. ToSend' = ToSend /\ ToSet(inbox') = ToSet(inbox) /\ \A r : Owed(r)' <=> Owed(r)
      BY <2>2 DEF ToSend, Taken, Owed
    <3>. QED  BY <2>1, <2>2, <3>1 DEF Following, OwedComes
  <2>. QED  BY <1>1, <2>2, <2>3, <2>4
<1>7. CASE Disconnect
  <2>1. stream' = Off /\ inbox' = <<>> /\ UNCHANGED <<SequencedRows, emitter, cursor, view, excused>>
    BY <1>7 DEF Disconnect
  <2>. QED  BY <1>1, <1>4, <2>1
<1>8. CASE Restart
  <2>1. /\ stream' = Off /\ inbox' = <<>> /\ UNCHANGED <<SequencedRows, cursor, view, excused>>
        /\ \A t \in Emitters : emitter'[t].pc = "idle"
    BY <1>8 DEF Restart, Idle
  <2>2. ReplayFirst' /\ CursorBehind' /\ OwedComes'
    BY <1>4, <2>1
  <2>3. OwedAhead' /\ StoringAhead' /\ SendingAhead' /\ InboxInOrder'
    BY <2>1
    DEF Following, OwedAhead, StoringAhead, SendingAhead, InboxInOrder, Owed, Working
  <2>. QED  BY <2>2, <2>3 DEF Following
<1>9. ASSUME NEW e \in Recorded, RecordsEvent(e) PROVE Following'
  <2>1. /\ SequencedRows' = SequencedRows
        /\ UNCHANGED <<emitter, stream, inbox, cursor, view, excused>>
    BY <1>9, RecordedKeeps DEF RecordsEvent, client, history, Typed
  <2>. QED
    BY <2>1 DEF Following, OwedAhead, StoringAhead, SendingAhead, InboxInOrder,
       ReplayFirst, OwedComes, CursorBehind, Owed, ToSend, Taken, Working
<1>10. ASSUME NEW c \in 0 .. cursor, Resubscribe(c) PROVE Following'
  <2>1. stream'.pc = "subscribe" /\ stream'.cursor = c /\ stream'.replay = {} /\ c <= cursor
    BY <1>10 DEF Resubscribe
  <2>2. ReplayFirst' /\ CursorBehind' /\ OwedComes'
    BY <1>10, <2>1 DEF Resubscribe, client, ReplayFirst, CursorBehind, OwedComes
  <2>. QED
    BY <1>1, <1>10, <2>2 DEF Resubscribe, client
<1>11. CASE UNCHANGED vars
  BY <1>11
  DEF vars, client, history, Following, OwedAhead, StoringAhead, SendingAhead, InboxInOrder,
      ReplayFirst, OwedComes, CursorBehind, Owed, ToSend, Taken, Working
<1>. QED
  BY <1>2, <1>3, <1>5, <1>6, <1>7, <1>8, <1>9, <1>10, <1>11,
     TakesFollows, StoresFollows, SendsFollows, ReplayFollows, LiveFollows
  DEF Next, Streams

LEMMA FollowingInit == Init => Following
<1> SUFFICES ASSUME Init PROVE Following
  OBVIOUS
<1>1. stream.pc = "off" /\ stream.replay = {} /\ SequencedRows = {} /\ inbox = <<>>
      /\ \A t \in Emitters : emitter[t].pc = "idle"
  BY NothingTyped DEF Init, Idle, SequencedRows
<1>. QED
  BY <1>1 DEF Following, OwedAhead, StoringAhead, SendingAhead, InboxInOrder,
     ReplayFirst, OwedComes, CursorBehind, Working

-----------------------------------------------------------------------------
(* Every variable stays in its type.                                       *)
THEOREM TypeCorrect == Spec => []TypeOK
<1>1. Typed => TypeOK
  BY DEF Typed
<1>. QED  BY <1>1, TypeInit, TypeStep, PTL DEF Spec

(* However often the socket breaks, the server restarts, the page          *)
(* subscribes again and the replay overlaps the live channel, the client   *)
(* applies an event once.                                                  *)
THEOREM EventsAppliedOnce == Spec => []AppliedOnce
<1>1. Init => Typed /\ Numbering
  BY TypeInit, NumberingInit
<1>2. Typed /\ Numbering /\ [Next]_vars => Typed' /\ Numbering'
  BY TypeStep, NumberingStep
<1>3. Numbering => AppliedOnce
  BY DEF Numbering
<1>. QED  BY <1>1, <1>2, <1>3, PTL DEF Spec

(* Two rows of a session that EventBus::emit has stored never share a      *)
(* sequence, across restarts of the one process that emits, as long as the *)
(* highest stored one could be read. The rows of record_session_event,     *)
(* whose sequence is 0, are not meant.                                     *)
THEOREM StoredSequencesDistinct == Spec => []RowSequencesDistinct
<1> DEFINE Inv == Typed /\ (AlwaysRead => Counted /\ Distinct)
<1>1. Init => Inv
  BY TypeInit, DistinctInit
<1>2. Inv /\ [Next]_vars => Inv'
  BY TypeStep, DistinctStep, AlwaysReadBefore
<1>3. Inv => RowSequencesDistinct
  BY DEF Distinct, RowSequencesDistinct
<1>. QED  BY <1>1, <1>2, <1>3, PTL DEF Spec

(* The client's counter never passes a row that EventBus::emit has stored  *)
(* and that the client has not applied and nothing excuses.                *)
THEOREM NothingSkipped == Spec => []NoneSkipped
<1> DEFINE Inv == Typed /\ (AlwaysRead => Counted /\ Distinct /\ Following)
<1>1. Init => Inv
  BY TypeInit, DistinctInit, FollowingInit
<1>2. Inv /\ [Next]_vars => Inv'
  BY TypeStep, DistinctStep, FollowingStep, AlwaysReadBefore
<1>3. Inv => NoneSkipped
  <2> SUFFICES ASSUME Inv, AlwaysRead, NEW r \in SequencedRows, r.seq <= cursor
               PROVE  r.event \in ToSet(view) \/ r.event \in excused
    BY DEF NoneSkipped
  <2>1. r.seq \in Nat /\ cursor \in Nat /\ (Owed(r) => r.seq > cursor)
    BY SequencesTyped DEF Following, OwedAhead, Typed, TypeOK
  <2>. QED  BY <2>1 DEF Owed
<1>. QED  BY <1>1, <1>2, <1>3, PTL DEF Spec
=============================================================================
