---------------------------- MODULE EventStream ----------------------------
(***************************************************************************)
(* The events of one session on their way to a browser: EventBus::emit     *)
(* (agent/events.rs), the session_events table (storage/sqlite.rs), the    *)
(* subscription task of a websocket (web/routes/ws.rs) and the counter the *)
(* client keeps (frontend/js/tools.js, frontend/js/ws.js).                 *)
(*                                                                         *)
(* An emitter is any thread that emits: taking the sequence, storing the   *)
(* row and broadcasting are three steps under no common lock. What the     *)
(* socket still holds when it breaks is modelled as a break before those   *)
(* events were received. One server process uses the database: a second    *)
(* one would number the same session from a counter of its own. Operators  *)
(* whose name has a _ are not the code: each is the definition that        *)
(* follows it with one plausible mistake.                                  *)
(***************************************************************************)
EXTENDS Naturals, FiniteSets, Sequences, SequencesExt, FiniteSetsExt

CONSTANTS
  Emitters,       (* threads that emit at once: a bound                     *)
  Events,
  Deltas,         (* ThinkingDelta, ResponseChunk, ToolProgress             *)
  Recorded,       (* what record_session_event stores without a sequence    *)
  Capacity,       (* of the broadcast channel: 1000 in the code             *)
  MaxDisconnects, MaxResubscribes, MaxRestarts, MaxFaults, MaxUnread, MaxKinds,
                  (* bounds: how often the socket breaks, the page          *)
                  (* subscribes anew, the server restarts, an insert or a   *)
                  (* replay query fails, the highest stored sequence cannot  *)
                  (* be read, and how many kinds of these there are at most *)
  None

ASSUME DeltasAreEvents == Deltas \subseteq Events
ASSUME CapacityPositive == Capacity \in Nat \ {0}
ASSUME NoneIsNoEvent == None \notin Events /\ None \notin Nat
ASSUME RecordedAreNotEmitted == Recorded \cap Events = {}

VARIABLES
  counter,        (* the sequences entry of the session, None before use    *)
  rows,           (* session_events: events with their sequences            *)
  emitter,        (* per emitter: what it has still to do with its event    *)
  stream,         (* the subscription task: where it is, cursor and replay  *)
  inbox,          (* the part of the broadcast channel it has to receive    *)
  cursor,         (* the client's chain.eventSeqNumber                      *)
  view,           (* the events the client applied, in order                *)
  connected,      (* the client's socket is open                            *)
  emitted,        (* history: events whose emission began                   *)
  excused,        (* history: events a later one overtook on the way to the *)
                  (* table or the channel, that fell out of the channel, or *)
                  (* that got a sequence the client had seen                *)
  used            (* how many of each bounded event there were              *)

history == <<emitted, excused, used>>
client == <<cursor, view, connected>>
vars == <<counter, rows, emitter, stream, inbox, client, history>>

Bounded == {"disconnect", "resubscribe", "restart", "fault", "unread"}
Sequenced == [event : Events, seq : Nat]
Unsequenced == [event : Recorded, seq : {0}]
Idle == [pc |-> "idle", event |-> None, seq |-> 0]
Off == [pc |-> "off", cursor |-> 0, replay |-> {}]

(* latest_session_event_sequence                                           *)
Latest == Max({0} \cup {r.seq : r \in rows})

(* The rows EventBus::emit has stored.                                     *)
SequencedRows == {r \in rows : r.seq > 0}

(* list_session_events_from; ReplaySends takes them by their sequence      *)
From(c) == {r \in rows : r.seq > c}

Count(what, limit) ==
  /\ used[what] < limit
  /\ Cardinality({what} \cup {w \in Bounded : used[w] > 0}) <= MaxKinds
  /\ used' = [used EXCEPT ![what] = @ + 1]

Init ==
  /\ counter = None /\ rows = {}
  /\ emitter = [t \in Emitters |-> Idle]
  /\ stream = Off /\ inbox = <<>>
  /\ cursor = 0 /\ view = <<>> /\ connected = FALSE
  /\ emitted = {} /\ excused = {}
  /\ used = [w \in Bounded |-> 0]

-----------------------------------------------------------------------------
(* Emitters *)

Numbered_FromZero == (IF counter = None THEN 0 ELSE counter) + 1

Numbered == (IF counter = None THEN Latest ELSE counter) + 1

(* emit() takes the next sequence under the lock of the sequences map;     *)
(* when the highest stored one cannot be read it counts from 0.            *)
EmitTakes(t, e) ==
  /\ emitter[t].pc = "idle" /\ e \notin emitted
  /\ \/ counter' = Numbered /\ UNCHANGED used
     \/ counter = None /\ counter' = 1 /\ Count("unread", MaxUnread)
  /\ emitter' = [emitter EXCEPT ![t] = [pc |-> IF e \in Deltas THEN "send" ELSE "store",
                                        event |-> e, seq |-> counter']]
  /\ emitted' = emitted \cup {e}
  /\ excused' = IF counter' <= cursor THEN excused \cup {e} ELSE excused
  /\ UNCHANGED <<rows, stream, inbox, client>>

(* The events with a lower sequence that are still on their way.           *)
Overtaken(t, where) ==
  {emitter[u].event : u \in {v \in Emitters : /\ emitter[v].pc \in where
                                              /\ emitter[v].seq < emitter[t].seq}}

(* Deltas are not stored. A failing insert is ignored.                     *)
EmitStores(t) ==
  /\ emitter[t].pc = "store"
  /\ excused' = excused \cup Overtaken(t, {"store"})
  /\ \/ /\ rows' = rows \cup {[event |-> emitter[t].event, seq |-> emitter[t].seq]}
        /\ UNCHANGED used
     \/ /\ Count("fault", MaxFaults)
        /\ UNCHANGED rows
  /\ emitter' = [emitter EXCEPT ![t].pc = "send"]
  /\ UNCHANGED <<counter, stream, inbox, client, emitted>>

(* A full channel forgets its oldest event.                                *)
Received_Unbounded(r) == Append(inbox, r)

Received(r) == IF Len(inbox) < Capacity THEN Append(inbox, r) ELSE Append(Tail(inbox), r)
Forgotten == IF Len(inbox) < Capacity THEN {} ELSE {Head(inbox).event}

Receiving_AfterReplay == stream.pc = "live"

Receiving == stream.pc \in {"read", "replay", "live"}

EmitSends(t) ==
  LET r == [event |-> emitter[t].event, seq |-> emitter[t].seq] IN
  /\ emitter[t].pc = "send"
  /\ IF Receiving THEN inbox' = Received(r) ELSE UNCHANGED inbox
  /\ excused' = excused \cup Overtaken(t, {"store", "send"})
                \cup (IF Receiving THEN Forgotten ELSE {})
  /\ emitter' = [emitter EXCEPT ![t] = Idle]
  /\ UNCHANGED <<counter, rows, stream, client, emitted, used>>

(* append_session_event: a row with sequence 0 and no broadcast, which a   *)
(* turn, the tools, a subagent and the page's tool records store next to   *)
(* the emitted ones.                                                       *)
RecordsEvent(e) ==
  /\ [event |-> e, seq |-> 0] \notin rows
  /\ rows' = rows \cup {[event |-> e, seq |-> 0]}
  /\ UNCHANGED <<counter, emitter, stream, inbox, client, history>>

-----------------------------------------------------------------------------
(* The subscription *)

Connect ==
  /\ ~connected
  /\ connected' = TRUE
  /\ stream' = [pc |-> "subscribe", cursor |-> cursor, replay |-> {}]
  /\ UNCHANGED <<counter, rows, emitter, inbox, cursor, view, history>>

(* session.subscribe on a socket that is open: the page opens the session  *)
(* again, or a workflow view asks for all of it. The old task is aborted.  *)
(* The counter in the request is 0 or the page's own, which may have       *)
(* passed it when the server gets to the request.                          *)
Resubscribe(c) ==
  /\ connected /\ c <= cursor
  /\ Count("resubscribe", MaxResubscribes)
  /\ stream' = [pc |-> "subscribe", cursor |-> c, replay |-> {}]
  /\ inbox' = <<>>
  /\ UNCHANGED <<counter, rows, emitter, client, emitted, excused>>

(* An event is sent only to the receivers there are; the new one is empty. *)
Subscribe_LatestRows ==
  /\ stream.pc = "subscribe"
  /\ inbox' = <<>>
  /\ stream' = [stream EXCEPT !.pc = "live", !.cursor = IF Latest > @ THEN Latest ELSE @]
  /\ UNCHANGED <<counter, rows, emitter, client, history>>

(* subscribe_from: first the receiver ...                                  *)
Subscribe ==
  /\ stream.pc = "subscribe"
  /\ inbox' = <<>>
  /\ stream' = [stream EXCEPT !.pc = "read"]
  /\ UNCHANGED <<counter, rows, emitter, client, history>>

(* ... then the rows after the client's counter. When they cannot be read  *)
(* the subscription ends, and the socket stays open.                       *)
ReadReplay ==
  /\ stream.pc = "read"
  /\ \/ /\ stream' = [stream EXCEPT !.pc = "replay", !.replay = From(stream.cursor)]
        /\ UNCHANGED <<inbox, used>>
     \/ /\ Count("fault", MaxFaults)
        /\ stream' = Off /\ inbox' = <<>>
  /\ UNCHANGED <<counter, rows, emitter, client, emitted, excused>>

(* The client applies what is beyond its counter and drops the rest.       *)
ClientApplies_Always(r) ==
  /\ cursor' = IF r.seq > cursor THEN r.seq ELSE cursor
  /\ view' = Append(view, r.event)

ClientApplies(r) ==
  IF r.seq > cursor
  THEN cursor' = r.seq /\ view' = Append(view, r.event)
  ELSE UNCHANGED <<cursor, view>>

(* stream_session_events passes on what is beyond its own cursor.          *)
Passes(r) ==
  /\ stream' = [stream EXCEPT !.cursor = IF r.seq > @ THEN r.seq ELSE @,
                              !.replay = @ \ {r}]
  /\ IF r.seq > stream.cursor THEN ClientApplies(r) ELSE UNCHANGED <<cursor, view>>

ReplaySends ==
  /\ stream.pc = "replay"
  /\ \E r \in stream.replay : (\A q \in stream.replay : r.seq <= q.seq) /\ Passes(r)
  /\ UNCHANGED <<counter, rows, emitter, inbox, connected, history>>

ReplayEnds ==
  /\ stream.pc = "replay" /\ stream.replay = {}
  /\ stream' = [stream EXCEPT !.pc = "live"]
  /\ UNCHANGED <<counter, rows, emitter, inbox, client, history>>

(* rx.recv(): RecvError::Lagged is skipped.                                *)
LiveReceives ==
  /\ stream.pc = "live" /\ inbox # <<>>
  /\ inbox' = Tail(inbox)
  /\ Passes(Head(inbox))
  /\ UNCHANGED <<counter, rows, emitter, connected, history>>

Disconnect ==
  /\ connected
  /\ Count("disconnect", MaxDisconnects)
  /\ connected' = FALSE /\ stream' = Off /\ inbox' = <<>>
  /\ UNCHANGED <<counter, rows, emitter, cursor, view, emitted, excused>>

(* The server dies and is started again; the client keeps its counter.     *)
Restart ==
  /\ Count("restart", MaxRestarts)
  /\ counter' = None
  /\ emitter' = [t \in Emitters |-> Idle]
  /\ connected' = FALSE /\ stream' = Off /\ inbox' = <<>>
  /\ UNCHANGED <<rows, cursor, view, emitted, excused>>

Streams == Subscribe \/ ReadReplay \/ ReplaySends \/ ReplayEnds \/ LiveReceives

Next ==
  \/ \E t \in Emitters : EmitStores(t) \/ EmitSends(t) \/ \E e \in Events : EmitTakes(t, e)
  \/ \E e \in Recorded : RecordsEvent(e)
  \/ \E c \in 0 .. cursor : Resubscribe(c)
  \/ Connect \/ Streams \/ Disconnect \/ Restart

Spec == Init /\ [][Next]_vars

(* An emission that began goes on, tokio polls the subscription, and the   *)
(* client's timer reconnects.                                              *)
FairSpec ==
  /\ Spec
  /\ \A t \in Emitters : WF_vars(EmitStores(t) \/ EmitSends(t))
  /\ WF_vars(Connect) /\ WF_vars(Streams)

-----------------------------------------------------------------------------
(* Properties *)

(* The types of the variables.                                             *)
TypeOK ==
  /\ counter \in Nat \cup {None} /\ rows \subseteq Sequenced \cup Unsequenced
  /\ emitter \in [Emitters -> [pc : {"idle", "store", "send"}, event : Events \cup {None},
                               seq : Nat]]
  /\ stream \in [pc : {"off", "subscribe", "read", "replay", "live"}, cursor : Nat,
                 replay : SUBSET Sequenced]
  /\ inbox \in Seq(Sequenced) /\ Len(inbox) <= Capacity
  /\ cursor \in Nat /\ view \in Seq(Events) /\ connected \in BOOLEAN
  /\ emitted \subseteq Events /\ excused \subseteq Events
  /\ used \in [Bounded -> Nat]

AlwaysRead == used["unread"] = 0

(* Two events that EventBus::emit has stored never share a sequence, not   *)
(* even when the server restarts: the replay order is well defined, as     *)
(* long as the highest sequence could be read and one process emits. The   *)
(* rows of record_session_event all have sequence 0 and are never replayed.*)
RowSequencesDistinct ==
  AlwaysRead => \A r, s \in SequencedRows : r.seq = s.seq => r = s

(* However often the socket breaks, the page subscribes again and the      *)
(* replay overlaps the live channel, the client applies an event once.     *)
AppliedOnce ==
  \A i, j \in DOMAIN view : view[i] = view[j] => i = j

(* The client's counter hides no emitted row it has not applied, except    *)
(* one whose broadcast was overtaken, that fell out of the channel, or     *)
(* that got a sequence the client had already seen.                        *)
NoneSkipped ==
  AlwaysRead =>
    \A r \in SequencedRows : r.seq <= cursor => r.event \in ToSet(view) \/ r.event \in excused

(* An emitted row reaches a client that keeps reconnecting, with the same  *)
(* exceptions, unless a subscription of the client is refused.             *)
StoredReachClient ==
  \A e \in Events :
    (\E r \in SequencedRows : r.event = e)
      ~> (e \in ToSet(view) \/ e \in excused \/ ~AlwaysRead \/ (connected /\ stream.pc = "off"))
=============================================================================
