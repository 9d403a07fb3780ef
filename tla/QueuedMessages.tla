--------------------------- MODULE QueuedMessages ---------------------------
(***************************************************************************)
(* The queued_messages table of one session: the operations of             *)
(* src/src/storage/sqlite.rs on it, one action each. Every operation is    *)
(* one SQL statement or one transaction, so it is one step here. SQLite    *)
(* rejects a write whose snapshot is stale, which makes the transactions   *)
(* of concurrent connections serialisable.                                 *)
(*                                                                         *)
(* Nothing here is lost in a restart: the table is the durable state.      *)
(***************************************************************************)
EXTENDS Integers, Sequences, FiniteSets

CONSTANTS
  Ids,          (* row ids; each insert draws a fresh UUID             *)
  Clients,      (* client_message_id values the callers use            *)
  Contents,     (* message texts                                       *)
  Orders,       (* the id lists a reorder request may carry            *)
  Positions     (* bound: the positions a promotion may give a row;    *)
                (* any integer in the code                             *)

ASSUME IdsFinite == IsFiniteSet(Ids)
ASSUME SomeClientAndContent == Clients # {} /\ Contents # {}
ASSUME OrdersAreLists == Orders \subseteq Seq(Ids)

VARIABLES
  status,       (* per id: its row's status, "unborn" or "gone"        *)
  position,     (* per id: the row's position column                   *)
  client,       (* per id: the row's client_message_id                 *)
  content       (* per id: the row's content                           *)

vars == <<status, position, client, content>>

Statuses == {"unborn", "pending", "dispatching", "gone"}

Present == {m \in Ids : status[m] \in {"pending", "dispatching"}}
Pending == {m \in Ids : status[m] = "pending"}
Dispatching == {m \in Ids : status[m] = "dispatching"}

(* SELECT ... WHERE status = 'pending' ORDER BY position LIMIT 1. Rows     *)
(* with equal positions are ordered by created_at, a time in seconds, so   *)
(* a tie may come out either way.                                          *)
IsFirstPending(m) ==
  m \in Pending /\ \A n \in Pending : position[m] <= position[n]

(* COALESCE(MAX(position), 0) + 1 over all the rows of the session.        *)
NextPositions ==
  IF Present = {} THEN {1}
  ELSE {position[n] + 1 : n \in {x \in Present :
                                   \A y \in Present : position[y] <= position[x]}}

(* What the columns of an id without a row are said to hold. *)
NoClient == CHOOSE c \in Clients : TRUE
NoContent == CHOOSE t \in Contents : TRUE

Init ==
  /\ status = [m \in Ids |-> "unborn"]
  /\ position = [m \in Ids |-> 0]
  /\ client = [m \in Ids |-> NoClient]
  /\ content = [m \in Ids |-> NoContent]

-----------------------------------------------------------------------------

(* enqueue_message: a client_message_id that has a row is a retry and      *)
(* leaves the table alone.                                                 *)
Enqueue(m, c, text) ==
  /\ status[m] = "unborn"
  /\ \A n \in Present : client[n] # c
  /\ \E p \in NextPositions : position' = [position EXCEPT ![m] = p]
  /\ status' = [status EXCEPT ![m] = "pending"]
  /\ client' = [client EXCEPT ![m] = c]
  /\ content' = [content EXCEPT ![m] = text]

(* Operators whose name has a _ are not the code: each is the definition   *)
(* that follows it with one plausible mistake, used to see that a property *)
(* notices.                                                                *)
Claim_WrongStatus(m) ==
  /\ Dispatching = {}
  /\ IsFirstPending(m)
  /\ status' = [status EXCEPT ![m] = "dispatched"]
  /\ UNCHANGED <<position, client, content>>

(* claim_next_queued_message: a row that is already dispatching is handed  *)
(* out again, unchanged; otherwise the first pending row is taken.         *)
Claim(m) ==
  /\ Dispatching = {}
  /\ IsFirstPending(m)
  /\ status' = [status EXCEPT ![m] = "dispatching"]
  /\ UNCHANGED <<position, client, content>>

(* delete_queued_message and delete_session_queued_message: whatever the   *)
(* row's status.                                                           *)
Delete(m) ==
  /\ m \in Present
  /\ status' = [status EXCEPT ![m] = "gone"]
  /\ position' = [position EXCEPT ![m] = 0]
  /\ client' = [client EXCEPT ![m] = NoClient]
  /\ content' = [content EXCEPT ![m] = NoContent]

Promote_ToFirstPosition(m) ==
  /\ m \in Pending
  /\ \E n \in Pending : position[n] < position[m]
  /\ \E f \in Pending :
       IsFirstPending(f) /\ position' = [position EXCEPT ![m] = position[f]]
  /\ UNCHANGED <<status, client, content>>

(* promote_queued_message: false for a row that is not pending, nothing to *)
(* do for the one that is first already.                                   *)
Promote(m) ==
  /\ m \in Pending
  /\ \E n \in Pending : position[n] < position[m]
  /\ \E f \in Pending :
       /\ IsFirstPending(f)
       /\ position[f] - 1 \in Positions
       /\ position' = [position EXCEPT ![m] = position[f] - 1]
  /\ UNCHANGED <<status, client, content>>

(* update_session_queued_message_content: only while the row is pending.   *)
Edit(m, text) ==
  /\ m \in Pending
  /\ content' = [content EXCEPT ![m] = text]
  /\ UNCHANGED <<status, position, client>>

(* reorder_session_queued_messages: the pending rows, sorted as `ordered'  *)
(* in the code, are numbered from 0; the other rows keep their position.   *)
OccursFirst(ids, a, b) ==
  \E i \in DOMAIN ids : ids[i] = a /\ \A j \in 1..i : ids[j] # b

ReorderedBefore(ids, a, b) ==
  /\ a # b
  /\ \/ OccursFirst(ids, a, b)
     \/ /\ \A i \in DOMAIN ids : ids[i] \notin {a, b}
        /\ position[a] < position[b]

Reorder(ids) ==
  /\ position' = [m \in Ids |->
       IF m \in Pending
       THEN Cardinality({n \in Pending : ReorderedBefore(ids, n, m)})
       ELSE position[m]]
  /\ UNCHANGED <<status, client, content>>

Next ==
  \/ \E m \in Ids, c \in Clients, text \in Contents : Enqueue(m, c, text)
  \/ \E m \in Ids : Claim(m) \/ Delete(m) \/ Promote(m)
  \/ \E m \in Ids, text \in Contents : Edit(m, text)
  \/ \E ids \in Orders : Reorder(ids)

Spec == Init /\ [][Next]_vars

-----------------------------------------------------------------------------

TypeOK ==
  /\ status \in [Ids -> Statuses]
  /\ position \in [Ids -> Int]
  /\ client \in [Ids -> Clients]
  /\ content \in [Ids -> Contents]

(* No two pending rows share a position, through any history of enqueues,  *)
(* promotions below the current minimum, renumberings and deletions: the   *)
(* next claim is always determined and never falls to the created_at       *)
(* column, which only has a resolution of one second.                      *)
PendingPositionsDistinct ==
  \A a, b \in Pending : a # b => position[a] # position[b]

(* At most one row is dispatching: the claim hands an unfinished row out   *)
(* again rather than taking a second one, so after a crash there is        *)
(* exactly one message whose run may have been cut short.                  *)
AtMostOneDispatching == \A a, b \in Dispatching : a = b

(* A retried send never gets a second row next to the first one.           *)
OneRowPerClient ==
  \A a, b \in Present : client[a] = client[b] => a = b

Inv == PendingPositionsDistinct /\ AtMostOneDispatching /\ OneRowPerClient

(* The table implements the list: an enqueue appends, a promotion moves to *)
(* the front, a reorder gives the order asked for, and the claim takes the *)
(* head, whatever the position arithmetic did before.                      *)
Queue == INSTANCE MessageQueue WITH
  waiting <- Pending,
  before <- {p \in Pending \X Pending : position[p[1]] < position[p[2]]},
  claimed <- Dispatching
ImplementsQueue == Queue!Spec
=============================================================================
