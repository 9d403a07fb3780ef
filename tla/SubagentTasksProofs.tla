------------------------ MODULE SubagentTasksProofs ------------------------
(***************************************************************************)
(* Proofs about SubagentTasks for any tasks, sessions, requests and        *)
(* disturbances: its types, that a run that is over says so in its row,    *)
(* that a mark is only set on what was told, that an outcome is told once, *)
(* and that outcomes stay.                                                 *)
(***************************************************************************)
EXTENDS SubagentTasks, TLAPS

ChildRecords ==
  [at : {"none", "working", "counting", "backoff", "ending", "writing", "delivering",
         "dropping", "gone"},
   by : Callers, retries : 0..MaxRetries, outcome : Outcomes, copy : Rows, woke : BOOLEAN]
CallRecords ==
  [at : {"none", "checked", "spawned", "open", "waiting", "timedOut", "marking", "leaving"},
   session : Sessions \cup {None}, task : Tasks \cup {None},
   background : BOOLEAN, marks : Tasks \cup {None}, copy : Rows]
StopRecords == [at : {"none", "read", "aborting"}, copy : Rows]
DetachRecords == [at : {"none", "signalled", "marking"}, marks : Tasks \cup {None}, copy : Rows]
ParentRecords == [at : {"idle", "merging", "busy"}, merging : SUBSET Tasks]

RowsTyped == row \in [Tasks -> Rows] /\ overwritten \subseteq Tasks
BornTyped == born \in [Sessions -> Seq(Tasks)] /\ tied \subseteq Tasks
ChildrenTyped == child \in [Tasks -> ChildRecords]
ChannelsTyped ==
  /\ chan \in [Tasks -> {"none", "open", "sent", "taken", "dropped"}]
  /\ active \in [Sessions -> Tasks \cup {None}] /\ held \in [Sessions -> Tasks \cup {None}]
CallsTyped == call \in [Callers -> CallRecords]
RequestsTyped ==
  /\ stop \in [Tasks -> StopRecords] /\ detached \subseteq Tasks
  /\ detach \in [Sessions -> DetachRecords]
ParentTyped == parent \in ParentRecords /\ wake \in BOOLEAN
HistoryTyped == told \in [Tasks -> Nat] /\ used \in [events : Nat, turns : Nat]

(* TypeOK in parts.                                                        *)
Types ==
  /\ RowsTyped /\ BornTyped /\ ChildrenTyped /\ ChannelsTyped /\ CallsTyped
  /\ RequestsTyped /\ ParentTyped /\ HistoryTyped

LEMMA TypesAreTypeOK == Types <=> TypeOK
BY DEF Types, TypeOK, RowsTyped, BornTyped, ChildrenTyped, ChannelsTyped, CallsTyped,
   RequestsTyped, ParentTyped, HistoryTyped, ChildRecords, CallRecords, StopRecords,
   DetachRecords, ParentRecords

(* A task that was launched has a row, and so has what refers to it.       *)
Started(t) == row[t].status # "none"
CallsRefer ==
  \A c \in Callers :
    /\ call[c].at # "none" => call[c].session \in Sessions
    /\ call[c].at \notin {"none", "checked"} =>
         call[c].task \in Tasks /\ Started(call[c].task) /\ born[call[c].session] # <<>>
    /\ call[c].at = "marking" => /\ call[c].marks \in Tasks /\ Started(call[c].marks)
                                 /\ call[c].copy.status # "none"
BornStarted ==
  \A s \in Sessions : \A i \in DOMAIN born[s] : born[s][i] \in Tasks /\ Started(born[s][i])
HandlesRefer ==
  \A s \in Sessions :
    active[s] # None => active[s] \in Tasks /\ Started(active[s]) /\ born[s] # <<>>
DetachesRefer ==
  \A s \in Sessions :
    /\ detach[s].at # "none" => born[s] # <<>>
    /\ detach[s].at = "marking" => /\ detach[s].marks \in Tasks /\ Started(detach[s].marks)
                                   /\ detach[s].copy.status # "none"
ChildrenRefer ==
  \A t \in Tasks :
    /\ child[t].at # "none" => Started(t)
    /\ child[t].at = "counting" => child[t].copy.status # "none"
StopsRefer == \A t \in Tasks : stop[t].at # "none" => Started(t)
Refers ==
  /\ CallsRefer /\ BornStarted /\ HandlesRefer /\ DetachesRefer /\ ChildrenRefer /\ StopsRefer
Typed == Types /\ Refers

LEMMA NothingTyped ==
  /\ NoRow \in Rows /\ NoRow.status = "none"
  /\ NoChild \in ChildRecords /\ NoChild.at = "none"
  /\ NoCall \in CallRecords /\ NoCall.at = "none"
  /\ NoStop \in StopRecords /\ NoStop.at = "none"
  /\ NoDetach \in DetachRecords /\ NoDetach.at = "none"
<1>1. NoRow \in Rows /\ NoRow.status = "none"
  BY DEF NoRow, Rows, Statuses
<1>. QED
  BY <1>1, ConfigNat
  DEF NoChild, ChildRecords, NoCall, CallRecords, NoStop, StopRecords, NoDetach, DetachRecords,
      Callers, Outcomes

(* What the query for the newest task of a session may return is a task    *)
(* that was launched.                                                      *)
LEMMA NewestTyped ==
  ASSUME Typed, NEW s \in Sessions
  PROVE  \A n \in Newest(s) : n \in Tasks /\ Started(n)
BY DEF Newest, Typed, Refers, BornStarted

LEMMA WriteBackTyped ==
  ASSUME Types, NEW t \in Tasks, NEW copy \in Rows, NEW status \in Statuses,
         WriteBack(t, copy, status)
  PROVE  /\ row' \in [Tasks -> Rows] /\ overwritten' \subseteq Tasks
         /\ \A u \in Tasks : u # t => row'[u] = row[u]
         /\ row'[t].status = status
BY DEF WriteBack, Types, RowsTyped, Rows

LEMMA DisturbTyped ==
  ASSUME Types, NEW event, Disturb(event)
  PROVE  used' \in [events : Nat, turns : Nat]
BY DEF Disturb, Types, HistoryTyped

(* What the type of a row excludes, and what it lacks.                     *)
LEMMA StatusTyped ==
  /\ "none" \in Statuses /\ "cancelled" \in Statuses /\ "failed" \in Statuses
  /\ Outcomes \subseteq Statuses
  /\ \A r \in Rows : r.status \in Statuses
BY DEF Statuses, Outcomes, Rows

-----------------------------------------------------------------------------
LEMMA TypeStep == Typed /\ [Next]_vars => Types'
<1> SUFFICES ASSUME Typed, [Next]_vars PROVE Types'
  OBVIOUS
<1>0. Types /\ Refers /\ RowsTyped /\ BornTyped /\ ChildrenTyped /\ ChannelsTyped /\ CallsTyped /\ RequestsTyped /\ ParentTyped /\ HistoryTyped
  BY DEF Typed, Types
<1>1. ASSUME NEW s \in Sessions, NEW b \in BOOLEAN, SpawnBegins(Tool, s, b)
     PROVE  Types'
  <2>1. CallsTyped'
    BY <1>1, <1>0, NothingTyped DEF SpawnBegins, CallsTyped, CallRecords
  <2>2. UNCHANGED <<row, overwritten, born, tied, child, chan, active, held, stop,
    detached, detach, parent, wake, told, used>>
    BY <1>1 DEF SpawnBegins, channels, requests, memory, history
  <2>. QED
    BY <1>0, <2>1, <2>2 DEF RowsTyped, BornTyped, ChildrenTyped,
      ChannelsTyped, RequestsTyped, ParentTyped, HistoryTyped, Types
<1>2. ASSUME NEW c \in Callers, NEW s \in Sessions, NEW b \in BOOLEAN,
  ResumeChecks(c, s, b)
     PROVE  Types'
  <2>1. CallsTyped'
    BY <1>2, <1>0, NothingTyped DEF ResumeChecks, CallsTyped, CallRecords
  <2>2. HistoryTyped'
    BY <1>2, <1>0, NothingTyped, DisturbTyped DEF ResumeChecks, HistoryTyped
  <2>3. UNCHANGED <<row, overwritten, born, tied, child, chan, active, held, stop,
    detached, detach, parent, wake>>
    BY <1>2 DEF ResumeChecks, channels, requests, memory, history
  <2>. QED
    BY <1>0, <2>1, <2>2, <2>3 DEF RowsTyped, BornTyped, ChildrenTyped,
      ChannelsTyped, RequestsTyped, ParentTyped, Types
<1>3. ASSUME NEW c \in Callers, Registers(c)
     PROVE  Types'
  <2>1. ChannelsTyped'
    BY <1>3, <1>0 DEF Registers, ChannelsTyped, Refers, CallsRefer
  <2>2. CallsTyped'
    BY <1>3, <1>0, NothingTyped DEF Registers, CallsTyped, CallRecords
  <2>3. UNCHANGED <<row, overwritten, born, tied, child, stop, detached, detach,
    parent, wake, told, used>>
    BY <1>3 DEF Registers, channels, requests, memory, history
  <2>. QED
    BY <1>0, <2>1, <2>2, <2>3 DEF RowsTyped, BornTyped, ChildrenTyped,
      RequestsTyped, ParentTyped, HistoryTyped, Types
<1>4. ASSUME NEW c \in Callers, NEW t \in Tasks, Launches(c, t)
     PROVE  Types'
  <2>1. RowsTyped'
    <3>1. row[t] \in Rows /\ call[c].background \in BOOLEAN
      BY <1>0 DEF RowsTyped, CallsTyped, CallRecords
    <3>2. \A b \in BOOLEAN : [row[t] EXCEPT !.status = "running", !.background
      = b] \in Rows
      BY <3>1 DEF Rows, Statuses
    <3>3. row' = [row EXCEPT ![t] = [row[t] EXCEPT !.status = "running",
                                                   !.background =
                                                     ~~call[c].background]]
          /\ overwritten' = overwritten
      BY <1>4 DEF Launches, history
    <3>. QED  BY <1>0, <3>1, <3>2, <3>3 DEF RowsTyped
  <2>2. BornTyped'
    <3>1. call[c].session \in Sessions /\ \A s \in Sessions : Append(born[s],
      t) \in Seq(Tasks)
      BY <1>4, <1>0 DEF Launches, Refers, CallsRefer, BornTyped
    <3>. QED  BY <1>4, <1>0, <3>1 DEF Launches, BornTyped
  <2>3. ChildrenTyped'
    BY <1>4, <1>0, NothingTyped DEF Launches, ChildrenTyped, ChildRecords
  <2>4. ChannelsTyped'
    BY <1>4, <1>0, NothingTyped DEF Launches, ChannelsTyped
  <2>5. CallsTyped'
    BY <1>4, <1>0, NothingTyped DEF Launches, CallsTyped, CallRecords
  <2>6. UNCHANGED <<stop, detached, detach, parent, wake, told, used>>
    BY <1>4 DEF Launches, channels, requests, memory, history
  <2>. QED
    BY <1>0, <2>1, <2>2, <2>3, <2>4, <2>5, <2>6 DEF RequestsTyped,
      ParentTyped, HistoryTyped, Types
<1>5. ASSUME NEW t \in Tasks, ChildReadsRow(t)
     PROVE  Types'
  <2>1. ChildrenTyped'
    BY <1>5, <1>0 DEF ChildReadsRow, ChildrenTyped, ChildRecords, RowsTyped
  <2>2. UNCHANGED <<row, overwritten, born, tied, chan, active, held, call, stop,
    detached, detach, parent, wake, told, used>>
    BY <1>5 DEF ChildReadsRow, channels, requests, memory, history
  <2>. QED
    BY <1>0, <2>1, <2>2 DEF RowsTyped, BornTyped, ChannelsTyped, CallsTyped,
      RequestsTyped, ParentTyped, HistoryTyped, Types
<1>6. ASSUME NEW t \in Tasks, ChildCounts(t)
     PROVE  Types'
  <2>1. RowsTyped'
    <3>1. child[t].copy \in Rows /\ child[t].copy.status \in Statuses
      BY <1>0, StatusTyped DEF ChildrenTyped, ChildRecords
    <3>. QED  BY <1>6, <1>0, <3>1, WriteBackTyped DEF ChildCounts, RowsTyped
  <2>2. ChildrenTyped'
    BY <1>6, <1>0, NothingTyped DEF ChildCounts, ChildrenTyped, ChildRecords
  <2>3. UNCHANGED <<born, tied, chan, active, held, call, stop, detached, detach,
    parent, wake, told, used>>
    BY <1>6 DEF ChildCounts, channels, requests, memory, history
  <2>. QED
    BY <1>0, <2>1, <2>2, <2>3 DEF BornTyped, ChannelsTyped, CallsTyped,
      RequestsTyped, ParentTyped, HistoryTyped, Types
<1>7. ASSUME NEW t \in Tasks, ChildCompletes(t)
     PROVE  Types'
  <2>1. ChildrenTyped'
    BY <1>7, <1>0 DEF ChildCompletes, Ends, ChildrenTyped, ChildRecords,
      Outcomes
  <2>2. UNCHANGED <<row, overwritten, born, tied, chan, active, held, call, stop,
    detached, detach, parent, wake, told, used>>
    BY <1>7 DEF ChildCompletes, Ends, channels, requests, memory, history
  <2>. QED
    BY <1>0, <2>1, <2>2 DEF RowsTyped, BornTyped, ChannelsTyped, CallsTyped,
      RequestsTyped, ParentTyped, HistoryTyped, Types
<1>8. ASSUME NEW t \in Tasks, ChildFails(t)
     PROVE  Types'
  <2>1. ChildrenTyped'
    <3>1. CASE Ends(t, "failed")
      BY <1>0, <3>1 DEF Ends, ChildrenTyped, ChildRecords, Outcomes
    <3>2. CASE /\ child[t].retries < MaxRetries
               /\ child' = [child EXCEPT ![t] = [@ EXCEPT !.at = "backoff",
                 !.retries = child[t].retries + 1]]
      <4>1. child[t] \in ChildRecords /\ child[t].retries + 1 \in 0..MaxRetries
        BY <1>0, <3>2, ConfigNat DEF ChildrenTyped, ChildRecords
      <4> DEFINE retried == [child[t] EXCEPT !.at = "backoff", !.retries =
        child[t].retries + 1]
      <4>2. retried \in ChildRecords
        BY <4>1 DEF ChildRecords
      <4>3. child' = [child EXCEPT ![t] = retried]
        BY <3>2
      <4> HIDE DEF retried
      <4>. QED  BY <1>0, <4>2, <4>3 DEF ChildrenTyped
    <3>. QED  BY <1>8, <3>1, <3>2 DEF ChildFails
  <2>2. HistoryTyped'
    BY <1>8, <1>0, NothingTyped, DisturbTyped DEF ChildFails, Ends,
      HistoryTyped
  <2>3. UNCHANGED <<row, overwritten, born, tied, chan, active, held, call, stop,
    detached, detach, parent, wake>>
    BY <1>8 DEF ChildFails, Ends, channels, requests, memory, history
  <2>. QED
    BY <1>0, <2>1, <2>2, <2>3 DEF RowsTyped, BornTyped, ChannelsTyped,
      CallsTyped, RequestsTyped, ParentTyped, Types
<1>9. ASSUME NEW t \in Tasks, ChildRetries(t)
     PROVE  Types'
  <2>1. ChildrenTyped'
    BY <1>9, <1>0, NothingTyped DEF ChildRetries, ChildStep, ChildrenTyped,
      ChildRecords
  <2>2. UNCHANGED <<row, overwritten, born, tied, chan, active, held, call, stop,
    detached, detach, parent, wake, told, used>>
    BY <1>9 DEF ChildRetries, ChildStep, channels, requests, memory, history
  <2>. QED
    BY <1>0, <2>1, <2>2 DEF RowsTyped, BornTyped, ChannelsTyped, CallsTyped,
      RequestsTyped, ParentTyped, HistoryTyped, Types
<1>10. ASSUME NEW t \in Tasks, ChildCancelled(t)
     PROVE  Types'
  <2>1. ChildrenTyped'
    BY <1>10, <1>0 DEF ChildCancelled, Ends, ChildrenTyped, ChildRecords,
      Outcomes
  <2>2. UNCHANGED <<row, overwritten, born, tied, chan, active, held, call, stop,
    detached, detach, parent, wake, told, used>>
    BY <1>10 DEF ChildCancelled, Ends, channels, requests, memory, history
  <2>. QED
    BY <1>0, <2>1, <2>2 DEF RowsTyped, BornTyped, ChannelsTyped, CallsTyped,
      RequestsTyped, ParentTyped, HistoryTyped, Types
<1>11. ASSUME NEW t \in Tasks, ChildReadsLast(t)
     PROVE  Types'
  <2>1. ChildrenTyped'
    BY <1>11, <1>0 DEF ChildReadsLast, ChildrenTyped, ChildRecords, RowsTyped
  <2>2. UNCHANGED <<row, overwritten, born, tied, chan, active, held, call, stop,
    detached, detach, parent, wake, told, used>>
    BY <1>11 DEF ChildReadsLast, channels, requests, memory, history
  <2>. QED
    BY <1>0, <2>1, <2>2 DEF RowsTyped, BornTyped, ChannelsTyped, CallsTyped,
      RequestsTyped, ParentTyped, HistoryTyped, Types
<1>12. ASSUME NEW t \in Tasks, ChildWritesEnd(t)
     PROVE  Types'
  <2>1. RowsTyped'
    <3>1. child[t].copy \in Rows /\ child[t].outcome \in Statuses
      BY <1>0, StatusTyped DEF ChildrenTyped, ChildRecords
    <3>. QED  BY <1>12, <1>0, <3>1, WriteBackTyped DEF ChildWritesEnd,
      RowsTyped
  <2>2. ChildrenTyped'
    BY <1>12, <1>0, NothingTyped DEF ChildWritesEnd, ChildrenTyped,
      ChildRecords
  <2>3. UNCHANGED <<born, tied, chan, active, held, call, stop, detached, detach,
    parent, wake, told, used>>
    BY <1>12 DEF ChildWritesEnd, channels, requests, memory, history
  <2>. QED
    BY <1>0, <2>1, <2>2, <2>3 DEF BornTyped, ChannelsTyped, CallsTyped,
      RequestsTyped, ParentTyped, HistoryTyped, Types
<1>13. ASSUME NEW t \in Tasks, ChildDelivers(t)
     PROVE  Types'
  <2>1. ChannelsTyped'
    BY <1>13, <1>0, NothingTyped DEF ChildDelivers, Leave, Sent, ChannelsTyped
  <2>2. ParentTyped'
    BY <1>13, <1>0, NothingTyped DEF ChildDelivers, Leave, Sent, ParentTyped,
      ParentRecords
  <2>3. ChildrenTyped'
    BY <1>13, <1>0, NothingTyped DEF ChildDelivers, Leave, Sent,
      ChildrenTyped, ChildRecords
  <2>4. UNCHANGED <<row, overwritten, born, tied, call, stop, detached, detach,
    told, used>>
    BY <1>13 DEF ChildDelivers, Leave, Sent, channels, requests, memory,
      history
  <2>. QED
    BY <1>0, <2>1, <2>2, <2>3, <2>4 DEF RowsTyped, BornTyped, CallsTyped,
      RequestsTyped, HistoryTyped, Types
<1>14. ASSUME NEW t \in Tasks, ChildAborted(t)
     PROVE  Types'
  <2>1. ChannelsTyped'
    <3>1. CASE UNCHANGED <<chan, active, held>>
      BY <1>0, <3>1 DEF ChannelsTyped
    <3>2. CASE Leave(t, Sent(t), FALSE)
      BY <1>0, <3>2 DEF Leave, Sent, ChannelsTyped
    <3>. QED  BY <1>14, <3>1, <3>2 DEF ChildAborted, channels
  <2>2. ParentTyped'
    BY <1>14, <1>0, NothingTyped DEF ChildAborted, Leave, Sent, ParentTyped,
      ParentRecords
  <2>3. ChildrenTyped'
    <3>1. CASE child' = [child EXCEPT ![t] = [@ EXCEPT !.at = "dropping",
      !.copy = row[t]]]
      BY <1>0, <3>1 DEF ChildrenTyped, ChildRecords, RowsTyped
    <3>2. CASE Leave(t, Sent(t), FALSE)
      BY <1>0, <3>2, NothingTyped DEF Leave, ChildrenTyped, ChildRecords
    <3>. QED  BY <1>14, <3>1, <3>2 DEF ChildAborted
  <2>4. UNCHANGED <<row, overwritten, born, tied, call, stop, detached, detach,
    told, used>>
    BY <1>14 DEF ChildAborted, Leave, Sent, channels, requests, memory, history
  <2>. QED
    BY <1>0, <2>1, <2>2, <2>3, <2>4 DEF RowsTyped, BornTyped, CallsTyped,
      RequestsTyped, HistoryTyped, Types
<1>15. ASSUME NEW t \in Tasks, ChildDropped(t)
     PROVE  Types'
  <2>1. RowsTyped'
    <3>1. child[t].copy \in Rows
      BY <1>0 DEF ChildrenTyped, ChildRecords
    <3>. QED  BY <1>15, <1>0, <3>1, StatusTyped, WriteBackTyped DEF
      ChildDropped, RowsTyped
  <2>2. ChannelsTyped'
    BY <1>15, <1>0, NothingTyped DEF ChildDropped, Leave, Sent, ChannelsTyped
  <2>3. ParentTyped'
    BY <1>15, <1>0, NothingTyped DEF ChildDropped, Leave, Sent, ParentTyped,
      ParentRecords
  <2>4. ChildrenTyped'
    BY <1>15, <1>0, NothingTyped DEF ChildDropped, Leave, Sent, ChildrenTyped,
      ChildRecords
  <2>5. UNCHANGED <<born, tied, call, stop, detached, detach, told, used>>
    BY <1>15 DEF ChildDropped, Leave, Sent, channels, requests, memory, history
  <2>. QED
    BY <1>0, <2>1, <2>2, <2>3, <2>4, <2>5 DEF BornTyped, CallsTyped,
      RequestsTyped, HistoryTyped, Types
<1>16. CASE WaitBegins
  <2>1. ChannelsTyped'
    BY <1>16, <1>0, NothingTyped DEF WaitBegins, ChannelsTyped
  <2>2. CallsTyped'
    BY <1>16, <1>0, NothingTyped DEF WaitBegins, CallsTyped, CallRecords
  <2>3. UNCHANGED <<row, overwritten, born, tied, child, stop, detached, detach,
    parent, wake, told, used>>
    BY <1>16 DEF WaitBegins, channels, requests, memory, history
  <2>. QED
    BY <1>0, <2>1, <2>2, <2>3 DEF RowsTyped, BornTyped, ChildrenTyped,
      RequestsTyped, ParentTyped, HistoryTyped, Types
<1>17. CASE WaitReceives
  <2>1. RowsTyped'
    <3>1. \A n \in Newest(call[Tool].session) : n \in Tasks
      BY <1>17, <1>0, NewestTyped DEF WaitReceives, Typed, Refers, CallsRefer,
        Callers
    <3>. QED  BY <1>17, <1>0, <3>1 DEF WaitReceives, RowsTyped, Rows
  <2>2. ChannelsTyped'
    BY <1>17, <1>0, NothingTyped DEF WaitReceives, ChannelsTyped
  <2>3. HistoryTyped'
    <3>1. call[Tool].task \in Tasks
      BY <1>17, <1>0 DEF WaitReceives, Refers, CallsRefer, Callers
    <3>. QED  BY <1>17, <1>0, <3>1 DEF WaitReceives, HistoryTyped
  <2>4. CallsTyped'
    BY <1>17, <1>0, NothingTyped DEF WaitReceives, CallsTyped, CallRecords
  <2>5. UNCHANGED <<born, tied, child, stop, detached, detach, parent, wake>>
    BY <1>17 DEF WaitReceives, channels, requests, memory, history
  <2>. QED
    BY <1>0, <2>1, <2>2, <2>3, <2>4, <2>5 DEF BornTyped, ChildrenTyped,
      RequestsTyped, ParentTyped, Types
<1>18. CASE WaitTimesOut
  <2>1. CallsTyped'
    BY <1>18, <1>0, NothingTyped DEF WaitTimesOut, CallsTyped, CallRecords
  <2>2. HistoryTyped'
    BY <1>18, <1>0, NothingTyped, DisturbTyped DEF WaitTimesOut, HistoryTyped
  <2>3. UNCHANGED <<row, overwritten, born, tied, child, chan, active, held, stop,
    detached, detach, parent, wake>>
    BY <1>18 DEF WaitTimesOut, channels, requests, memory, history
  <2>. QED
    BY <1>0, <2>1, <2>2, <2>3 DEF RowsTyped, BornTyped, ChildrenTyped,
      ChannelsTyped, RequestsTyped, ParentTyped, Types
<1>19. CASE TimeoutReadsRow
  <2>1. CallsTyped'
    <3>1. \A n \in Newest(call[Tool].session) : n \in Tasks
      BY <1>19, <1>0, NewestTyped DEF TimeoutReadsRow, Typed, Refers,
        CallsRefer, Callers
    <3>2. PICK n \in Newest(call[Tool].session) :
            call' = [call EXCEPT ![Tool] = [@ EXCEPT !.at = "marking", !.marks = n,
                                                     !.copy = row[n]]]
      BY <1>19 DEF TimeoutReadsRow
    <3>. QED  BY <1>0, <3>1, <3>2 DEF CallsTyped, CallRecords, RowsTyped, Callers
  <2>2. UNCHANGED <<row, overwritten, born, tied, child, chan, active, held, stop,
    detached, detach, parent, wake, told, used>>
    BY <1>19 DEF TimeoutReadsRow, channels, requests, memory, history
  <2>. QED
    BY <1>0, <2>1, <2>2 DEF RowsTyped, BornTyped, ChildrenTyped,
      ChannelsTyped, RequestsTyped, ParentTyped, HistoryTyped, Types
<1>20. CASE TimeoutReturns
  <2>1. RowsTyped'
    <3>1. call[Tool].copy \in Rows /\ call[Tool].copy.status \in Statuses
          /\ call[Tool].marks \in Tasks
      BY <1>20, <1>0, StatusTyped
      DEF TimeoutReturns, CallsTyped, CallRecords, Refers, CallsRefer, Callers
    <3>. QED  BY <1>20, <1>0, <3>1, WriteBackTyped DEF TimeoutReturns,
      RowsTyped
  <2>2. ChannelsTyped'
    BY <1>20, <1>0, NothingTyped DEF TimeoutReturns, DropReceiver,
      ChannelsTyped
  <2>3. CallsTyped'
    BY <1>20, <1>0, NothingTyped DEF TimeoutReturns, DropReceiver, CallsTyped,
      CallRecords
  <2>4. UNCHANGED <<born, tied, child, stop, detached, detach, parent, wake, told,
    used>>
    BY <1>20 DEF TimeoutReturns, DropReceiver, channels, requests, memory,
      history
  <2>. QED
    BY <1>0, <2>1, <2>2, <2>3, <2>4 DEF BornTyped, ChildrenTyped,
      RequestsTyped, ParentTyped, HistoryTyped, Types
<1>21. CASE WaitSeesDetach
  <2>1. CallsTyped'
    BY <1>21, <1>0, NothingTyped DEF WaitSeesDetach, CallsTyped, CallRecords
  <2>2. UNCHANGED <<row, overwritten, born, tied, child, chan, active, held, stop,
    detached, detach, parent, wake, told, used>>
    BY <1>21 DEF WaitSeesDetach, channels, requests, memory, history
  <2>. QED
    BY <1>0, <2>1, <2>2 DEF RowsTyped, BornTyped, ChildrenTyped,
      ChannelsTyped, RequestsTyped, ParentTyped, HistoryTyped, Types
<1>22. CASE DetachReturns
  <2>1. ChannelsTyped'
    BY <1>22, <1>0, NothingTyped DEF DetachReturns, DropReceiver, ChannelsTyped
  <2>2. CallsTyped'
    BY <1>22, <1>0, NothingTyped DEF DetachReturns, DropReceiver, CallsTyped,
      CallRecords
  <2>3. UNCHANGED <<row, overwritten, born, tied, child, stop, detached, detach,
    parent, wake, told, used>>
    BY <1>22 DEF DetachReturns, DropReceiver, channels, requests, memory,
      history
  <2>. QED
    BY <1>0, <2>1, <2>2, <2>3 DEF RowsTyped, BornTyped, ChildrenTyped,
      RequestsTyped, ParentTyped, HistoryTyped, Types
<1>23. ASSUME NEW s \in Sessions, DetachAsks(s)
     PROVE  Types'
  <2>1. RequestsTyped'
    <3>1. active[s] \in Tasks
      BY <1>23, <1>0 DEF DetachAsks, ChannelsTyped
    <3>. QED  BY <1>23, <1>0, <3>1 DEF DetachAsks, RequestsTyped, DetachRecords
  <2>2. HistoryTyped'
    BY <1>23, <1>0, NothingTyped, DisturbTyped DEF DetachAsks, HistoryTyped
  <2>3. UNCHANGED <<row, overwritten, born, tied, child, chan, active, held, call,
    parent, wake>>
    BY <1>23 DEF DetachAsks, channels, requests, memory, history
  <2>. QED
    BY <1>0, <2>1, <2>2, <2>3 DEF RowsTyped, BornTyped, ChildrenTyped,
      ChannelsTyped, CallsTyped, ParentTyped, Types
<1>24. ASSUME NEW s \in Sessions, DetachReadsRow(s)
     PROVE  Types'
  <2>1. RequestsTyped'
    <3>1. \A n \in Newest(s) : n \in Tasks
      BY <1>24, <1>0, NewestTyped DEF DetachReadsRow, Typed, Refers,
        DetachesRefer
    <3>. QED  BY <1>24, <1>0, <3>1 DEF DetachReadsRow, RequestsTyped,
      DetachRecords, RowsTyped
  <2>2. UNCHANGED <<row, overwritten, born, tied, child, chan, active, held, call,
    parent, wake, told, used>>
    BY <1>24 DEF DetachReadsRow, channels, requests, memory, history
  <2>. QED
    BY <1>0, <2>1, <2>2 DEF RowsTyped, BornTyped, ChildrenTyped,
      ChannelsTyped, CallsTyped, ParentTyped, HistoryTyped, Types
<1>25. ASSUME NEW s \in Sessions, DetachWritesRow(s)
     PROVE  Types'
  <2>1. RowsTyped'
    <3>1. detach[s].copy \in Rows /\ detach[s].copy.status \in Statuses
          /\ detach[s].marks \in Tasks
      BY <1>25, <1>0, StatusTyped
      DEF DetachWritesRow, RequestsTyped, DetachRecords, Refers, DetachesRefer
    <3>. QED  BY <1>25, <1>0, <3>1, WriteBackTyped DEF DetachWritesRow,
      RowsTyped
  <2>2. RequestsTyped'
    BY <1>25, <1>0, NothingTyped DEF DetachWritesRow, RequestsTyped,
      StopRecords, DetachRecords
  <2>3. UNCHANGED <<born, tied, child, chan, active, held, call, parent, wake, told,
    used>>
    BY <1>25 DEF DetachWritesRow, channels, requests, memory, history
  <2>. QED
    BY <1>0, <2>1, <2>2, <2>3 DEF BornTyped, ChildrenTyped, ChannelsTyped,
      CallsTyped, ParentTyped, HistoryTyped, Types
<1>26. ASSUME NEW t \in Tasks, StopBegins(t)
     PROVE  Types'
  <2>1. RequestsTyped'
    BY <1>26, <1>0 DEF StopBegins, RequestsTyped, StopRecords, RowsTyped
  <2>2. ChannelsTyped'
    BY <1>26, <1>0, NothingTyped DEF StopBegins, ChannelsTyped
  <2>3. HistoryTyped'
    BY <1>26, <1>0, NothingTyped, DisturbTyped DEF StopBegins, HistoryTyped
  <2>4. UNCHANGED <<row, overwritten, born, tied, child, call, parent, wake>>
    BY <1>26 DEF StopBegins, channels, requests, memory, history
  <2>. QED
    BY <1>0, <2>1, <2>2, <2>3, <2>4 DEF RowsTyped, BornTyped, ChildrenTyped,
      CallsTyped, ParentTyped, Types
<1>27. ASSUME NEW t \in Tasks, StopWritesRow(t)
     PROVE  Types'
  <2>1. RowsTyped'
    <3>1. stop[t].copy \in Rows
      BY <1>0 DEF RequestsTyped, StopRecords
    <3>. QED  BY <1>27, <1>0, <3>1, StatusTyped, WriteBackTyped DEF
      StopWritesRow, RowsTyped
  <2>2. RequestsTyped'
    BY <1>27, <1>0, NothingTyped DEF StopWritesRow, RequestsTyped,
      StopRecords, DetachRecords
  <2>3. UNCHANGED <<born, tied, child, chan, active, held, call, parent, wake, told,
    used>>
    BY <1>27 DEF StopWritesRow, channels, requests, memory, history
  <2>. QED
    BY <1>0, <2>1, <2>2, <2>3 DEF BornTyped, ChildrenTyped, ChannelsTyped,
      CallsTyped, ParentTyped, HistoryTyped, Types
<1>28. ASSUME NEW t \in Tasks, StopReturns(t)
     PROVE  Types'
  <2>1. RequestsTyped'
    BY <1>28, <1>0, NothingTyped DEF StopReturns, RequestsTyped, StopRecords,
      DetachRecords
  <2>2. UNCHANGED <<row, overwritten, born, tied, child, chan, active, held, call,
    parent, wake, told, used>>
    BY <1>28 DEF StopReturns, channels, requests, memory, history
  <2>. QED
    BY <1>0, <2>1, <2>2 DEF RowsTyped, BornTyped, ChildrenTyped,
      ChannelsTyped, CallsTyped, ParentTyped, HistoryTyped, Types
<1>29. CASE TurnBegins
  <2>1. ParentTyped'
    BY <1>29, <1>0 DEF TurnBegins, ParentTyped, ParentRecords, Unannounced
  <2>2. HistoryTyped'
    BY <1>29, <1>0, NothingTyped, DisturbTyped DEF TurnBegins, HistoryTyped
  <2>3. UNCHANGED <<row, overwritten, born, tied, child, chan, active, held, call,
    stop, detached, detach>>
    BY <1>29 DEF TurnBegins, channels, requests, memory, history
  <2>. QED
    BY <1>0, <2>1, <2>2, <2>3 DEF RowsTyped, BornTyped, ChildrenTyped,
      ChannelsTyped, CallsTyped, RequestsTyped, Types
<1>30. CASE WakeFindsNothing
  <2>1. ParentTyped'
    BY <1>30, <1>0, NothingTyped DEF WakeFindsNothing, ParentTyped,
      ParentRecords
  <2>2. UNCHANGED <<row, overwritten, born, tied, child, chan, active, held, call,
    stop, detached, detach, told, used>>
    BY <1>30 DEF WakeFindsNothing, channels, requests, memory, history
  <2>. QED
    BY <1>0, <2>1, <2>2 DEF RowsTyped, BornTyped, ChildrenTyped,
      ChannelsTyped, CallsTyped, RequestsTyped, HistoryTyped, Types
<1>31. ASSUME NEW t \in Tasks, Merges(t)
     PROVE  Types'
  <2>1. RowsTyped'
    BY <1>31, <1>0 DEF Merges, RowsTyped, Rows, history
  <2>2. ParentTyped'
    BY <1>31, <1>0, NothingTyped DEF Merges, ParentTyped, ParentRecords
  <2>3. HistoryTyped'
    BY <1>31, <1>0, NothingTyped, DisturbTyped DEF Merges, HistoryTyped
  <2>4. UNCHANGED <<born, tied, child, chan, active, held, call, stop, detached,
    detach>>
    BY <1>31 DEF Merges, channels, requests, memory, history
  <2>. QED
    BY <1>0, <2>1, <2>2, <2>3, <2>4 DEF BornTyped, ChildrenTyped,
      ChannelsTyped, CallsTyped, RequestsTyped, Types
<1>32. CASE TurnMerged
  <2>1. ParentTyped'
    BY <1>32, <1>0, NothingTyped DEF TurnMerged, ParentTyped, ParentRecords
  <2>2. UNCHANGED <<row, overwritten, born, tied, child, chan, active, held, call,
    stop, detached, detach, told, used>>
    BY <1>32 DEF TurnMerged, channels, requests, memory, history
  <2>. QED
    BY <1>0, <2>1, <2>2 DEF RowsTyped, BornTyped, ChildrenTyped,
      ChannelsTyped, CallsTyped, RequestsTyped, HistoryTyped, Types
<1>33. CASE TurnEnds
  <2>1. ParentTyped'
    BY <1>33, <1>0, NothingTyped DEF TurnEnds, ParentTyped, ParentRecords
  <2>2. UNCHANGED <<row, overwritten, born, tied, child, chan, active, held, call,
    stop, detached, detach, told, used>>
    BY <1>33 DEF TurnEnds, channels, requests, memory, history
  <2>. QED
    BY <1>0, <2>1, <2>2 DEF RowsTyped, BornTyped, ChildrenTyped,
      ChannelsTyped, CallsTyped, RequestsTyped, HistoryTyped, Types
<1>34. CASE TurnCancelled
  <2>1. HistoryTyped'
    BY <1>34, <1>0, NothingTyped, DisturbTyped DEF TurnCancelled,
      DropReceiver, HistoryTyped
  <2>2. ChannelsTyped'
    BY <1>34, <1>0, NothingTyped DEF TurnCancelled, DropReceiver, ChannelsTyped
  <2>3. CallsTyped'
    BY <1>34, <1>0, NothingTyped DEF TurnCancelled, DropReceiver, CallsTyped,
      CallRecords
  <2>4. ParentTyped'
    BY <1>34, <1>0, NothingTyped DEF TurnCancelled, DropReceiver, ParentTyped,
      ParentRecords
  <2>5. UNCHANGED <<row, overwritten, born, tied, child, stop, detached, detach>>
    BY <1>34 DEF TurnCancelled, DropReceiver, channels, requests, memory,
      history
  <2>. QED
    BY <1>0, <2>1, <2>2, <2>3, <2>4, <2>5 DEF RowsTyped, BornTyped,
      ChildrenTyped, RequestsTyped, Types
<1>35. CASE CrashAndRestart
  <2>1. RowsTyped'
    <3>1. \A r \in Rows : Recovered(r) \in Rows
      BY DEF Recovered, Rows, Statuses
    <3>. QED  BY <1>35, <1>0, <3>1 DEF CrashAndRestart, RowsTyped
  <2>2. ChildrenTyped'
    BY <1>35, <1>0, NothingTyped DEF CrashAndRestart, Recovered,
      ChildrenTyped, ChildRecords
  <2>3. ChannelsTyped'
    BY <1>35, <1>0, NothingTyped DEF CrashAndRestart, Recovered, ChannelsTyped
  <2>4. CallsTyped'
    BY <1>35, <1>0, NothingTyped DEF CrashAndRestart, Recovered, CallsTyped,
      CallRecords
  <2>5. RequestsTyped'
    BY <1>35, <1>0, NothingTyped DEF CrashAndRestart, Recovered,
      RequestsTyped, StopRecords, DetachRecords
  <2>6. ParentTyped'
    BY <1>35, <1>0, NothingTyped DEF CrashAndRestart, Recovered, ParentTyped,
      ParentRecords
  <2>7. HistoryTyped'
    BY <1>35, <1>0, NothingTyped, DisturbTyped DEF CrashAndRestart, Recovered,
      HistoryTyped
  <2>8. UNCHANGED <<born, tied>>
    BY <1>35 DEF CrashAndRestart, Recovered, channels, requests, memory,
      history
  <2>. QED
    BY <1>0, <2>1, <2>2, <2>3, <2>4, <2>5, <2>6, <2>7, <2>8 DEF BornTyped,
      Types
<1>36. CASE UNCHANGED vars
  BY <1>36, <1>0 DEF vars, channels, requests, memory, history, Types,
    RowsTyped, BornTyped, ChildrenTyped, ChannelsTyped, CallsTyped,
    RequestsTyped, ParentTyped, HistoryTyped
<1>. QED
  BY <1>1, <1>2, <1>3, <1>4, <1>5, <1>6, <1>7, <1>8, <1>9, <1>10, <1>11,
    <1>12, <1>13, <1>14, <1>15, <1>16, <1>17, <1>18, <1>19, <1>20, <1>21,
    <1>22, <1>23, <1>24, <1>25, <1>26, <1>27, <1>28, <1>29, <1>30, <1>31,
    <1>32, <1>33, <1>34, <1>35, <1>36 DEF Next, Runs, Waits, Turn

-----------------------------------------------------------------------------
(* What was launched stays launched.                                       *)
LEMMA StartedStays ==
  ASSUME Typed, [Next]_vars
  PROVE  \A t \in Tasks : Started(t) => Started(t)'
<1> DEFINE Stays == \A u \in Tasks : Started(u) => Started(u)'
<1>0. Types /\ Refers /\ RowsTyped
  BY DEF Typed, Types
<1>1. ASSUME NEW t \in Tasks, NEW copy \in Rows, NEW status \in Statuses \ {"none"},
             WriteBack(t, copy, status)
      PROVE  Stays
  BY <1>0, <1>1, WriteBackTyped DEF Started
<1>2. ASSUME NEW t \in Tasks, row' = [row EXCEPT ![t].told = TRUE] PROVE Stays
  BY <1>0, <1>2 DEF Started, RowsTyped, Rows
<1>3. ASSUME UNCHANGED row PROVE Stays
  BY <1>3 DEF Started
<1>4. ASSUME NEW c \in Callers, NEW t \in Tasks, Launches(c, t) PROVE Stays
  BY <1>0, <1>4 DEF Launches, Started, RowsTyped, Rows
<1>5. ASSUME NEW t \in Tasks, ChildCounts(t) PROVE Stays
  <2>1. child[t].copy \in Rows /\ child[t].copy.status \in Statuses \ {"none"}
    BY <1>0, <1>5, StatusTyped
    DEF ChildCounts, Types, ChildrenTyped, ChildRecords, Refers, ChildrenRefer
  <2>. QED  BY <1>1, <1>5, <2>1 DEF ChildCounts
<1>6. ASSUME NEW t \in Tasks, ChildWritesEnd(t) PROVE Stays
  <2>1. child[t].copy \in Rows /\ child[t].outcome \in Statuses \ {"none"}
    BY <1>0 DEF Types, ChildrenTyped, ChildRecords, Outcomes, Statuses
  <2>. QED  BY <1>1, <1>6, <2>1 DEF ChildWritesEnd
<1>7. ASSUME NEW t \in Tasks, ChildDropped(t) PROVE Stays
  <2>1. child[t].copy \in Rows
    BY <1>0 DEF Types, ChildrenTyped, ChildRecords
  <2>. QED  BY <1>1, <1>7, <2>1, StatusTyped DEF ChildDropped
<1>8. CASE WaitReceives
  <2>1. \A n \in Newest(call[Tool].session) : n \in Tasks
    BY <1>0, <1>8, NewestTyped DEF WaitReceives, Typed, Refers, CallsRefer, Callers
  <2>. QED  BY <1>2, <1>3, <1>8, <2>1 DEF WaitReceives
<1>9. CASE TimeoutReturns
  <2>1. /\ call[Tool].copy \in Rows /\ call[Tool].copy.status \in Statuses \ {"none"}
        /\ call[Tool].marks \in Tasks
    BY <1>0, <1>9, StatusTyped
    DEF TimeoutReturns, Types, CallsTyped, CallRecords, Refers, CallsRefer, Callers
  <2>. QED  BY <1>1, <1>3, <1>9, <2>1 DEF TimeoutReturns
<1>10. ASSUME NEW s \in Sessions, DetachWritesRow(s) PROVE Stays
  <2>1. /\ detach[s].copy \in Rows /\ detach[s].copy.status \in Statuses \ {"none"}
        /\ detach[s].marks \in Tasks
    BY <1>0, <1>10, StatusTyped
    DEF DetachWritesRow, Types, RequestsTyped, DetachRecords, Refers, DetachesRefer
  <2>. QED  BY <1>1, <1>3, <1>10, <2>1 DEF DetachWritesRow
<1>11. ASSUME NEW t \in Tasks, StopWritesRow(t) PROVE Stays
  <2>1. stop[t].copy \in Rows
    BY <1>0 DEF Types, RequestsTyped, StopRecords
  <2>. QED  BY <1>1, <1>11, <2>1, StatusTyped DEF StopWritesRow
<1>12. ASSUME NEW t \in Tasks, Merges(t) PROVE Stays
  BY <1>2, <1>12 DEF Merges
<1>13. CASE CrashAndRestart
  BY <1>0, <1>13 DEF CrashAndRestart, Recovered, Started, RowsTyped, Rows
<1>14. ASSUME NEW t \in Tasks, ChildAborted(t) PROVE Stays
  BY <1>3, <1>14 DEF ChildAborted
<1>15. CASE \E t \in Tasks : Runs(t) \/ ChildFails(t)
  BY <1>3, <1>5, <1>6, <1>7, <1>14, <1>15
  DEF Runs, ChildFails, ChildReadsRow, ChildCompletes, ChildRetries, ChildCancelled,
      ChildReadsLast, ChildDelivers, Ends, ChildStep
<1>16. CASE Waits \/ WaitTimesOut
  BY <1>3, <1>8, <1>9, <1>16
  DEF Waits, WaitTimesOut, WaitBegins, TimeoutReadsRow, WaitSeesDetach, DetachReturns
<1>17. CASE TurnBegins \/ Turn \/ TurnCancelled
  BY <1>3, <1>12, <1>17
  DEF Turn, TurnBegins, TurnMerged, TurnEnds, TurnCancelled, WakeFindsNothing
<1>18. CASE UNCHANGED vars
  BY <1>3, <1>18 DEF vars
<1>. QED
  BY <1>3, <1>4, <1>10, <1>11, <1>13, <1>15, <1>16, <1>17, <1>18
  DEF Next, SpawnBegins, ResumeChecks, Registers, DetachAsks, DetachReadsRow, StopBegins,
      StopReturns

(* A launch appends its task to those of the session.                      *)
LEMMA BornGrows ==
  ASSUME Typed, NEW c \in Callers, NEW t \in Tasks, Launches(c, t)
  PROVE  /\ call[c].session \in Sessions /\ call[c].at = "checked"
         /\ born'[call[c].session] = Append(born[call[c].session], t)
         /\ born'[call[c].session] # <<>>
         /\ \A s \in Sessions :
              /\ s # call[c].session => born'[s] = born[s]
              /\ born[s] # <<>> => born'[s] # <<>>
              /\ \A i \in DOMAIN born'[s] :
                   (i \in DOMAIN born[s] /\ born'[s][i] = born[s][i]) \/ born'[s][i] = t
         /\ ~Started(t) /\ Started(t)'
<1>1. call[c].session \in Sessions /\ call[c].at = "checked"
      /\ born \in [Sessions -> Seq(Tasks)] /\ row \in [Tasks -> Rows]
  BY DEF Launches, Typed, Types, Refers, CallsRefer, BornTyped, RowsTyped
<1>2. \A q \in Seq(Tasks) :
        /\ Append(q, t) # <<>>
        /\ \A i \in DOMAIN Append(q, t) :
             (i \in DOMAIN q /\ Append(q, t)[i] = q[i]) \/ Append(q, t)[i] = t
  <2> TAKE q \in Seq(Tasks)
  <2>1. Len(Append(q, t)) = Len(q) + 1 /\ Len(q) \in Nat /\ Len(<<>>) = 0
    OBVIOUS
  <2>2. \A i \in DOMAIN Append(q, t) :
          (i \in DOMAIN q /\ Append(q, t)[i] = q[i]) \/ Append(q, t)[i] = t
    OBVIOUS
  <2>. QED  BY <2>1, <2>2
<1>3. born' = [born EXCEPT ![call[c].session] = Append(born[call[c].session], t)]
  BY DEF Launches
<1>4. ~Started(t) /\ Started(t)'
  BY <1>1 DEF Launches, Started, Rows
<1>. QED  BY <1>1, <1>2, <1>3, <1>4

(* What a step does not touch still refers to started tasks.               *)
LEMMA ReferencesKept ==
  ASSUME Typed, [Next]_vars
  PROVE  /\ UNCHANGED <<call, born>> => CallsRefer'
         /\ UNCHANGED born => BornStarted'
         /\ UNCHANGED <<active, born>> => HandlesRefer'
         /\ UNCHANGED <<detach, born>> => DetachesRefer'
         /\ UNCHANGED child => ChildrenRefer'
         /\ UNCHANGED stop => StopsRefer'
<1>1. \A t \in Tasks : Started(t) => Started(t)'
  BY StartedStays
<1>2. Refers
  BY DEF Typed
<1>3. UNCHANGED <<call, born>> => CallsRefer'
  BY <1>1, <1>2 DEF Refers, CallsRefer
<1>4. UNCHANGED born => BornStarted'
  BY <1>1, <1>2 DEF Refers, BornStarted
<1>5. UNCHANGED <<active, born>> => HandlesRefer'
  BY <1>1, <1>2 DEF Refers, HandlesRefer
<1>6. UNCHANGED <<detach, born>> => DetachesRefer'
  BY <1>1, <1>2 DEF Refers, DetachesRefer
<1>7. UNCHANGED child => ChildrenRefer'
  BY <1>1, <1>2 DEF Refers, ChildrenRefer
<1>8. UNCHANGED stop => StopsRefer'
  BY <1>1, <1>2 DEF Refers, StopsRefer
<1>. QED  BY <1>3, <1>4, <1>5, <1>6, <1>7, <1>8

LEMMA RefersStep == Typed /\ [Next]_vars => Refers'
<1> SUFFICES ASSUME Typed, [Next]_vars PROVE Refers'
  OBVIOUS
<1>0. Types /\ Refers /\ RowsTyped /\ BornTyped /\ ChildrenTyped /\ ChannelsTyped /\ CallsTyped /\ RequestsTyped /\ ParentTyped /\ HistoryTyped
  BY DEF Typed, Types
<1>1. ASSUME NEW s \in Sessions, NEW b \in BOOLEAN, SpawnBegins(Tool, s, b)
     PROVE  Refers'
  <2>1. CallsRefer'
    BY <1>1, <1>0, StartedStays, NothingTyped DEF SpawnBegins, CallsRefer,
      Refers, CallsTyped, CallRecords
  <2>. QED
    BY <1>1, <2>1, ReferencesKept DEF SpawnBegins, channels, requests, memory,
      history, Refers
<1>2. ASSUME NEW c \in Callers, NEW s \in Sessions, NEW b \in BOOLEAN,
  ResumeChecks(c, s, b)
     PROVE  Refers'
  <2>1. CallsRefer'
    BY <1>2, <1>0, StartedStays, NothingTyped DEF ResumeChecks, CallsRefer,
      Refers, CallsTyped, CallRecords
  <2>. QED
    BY <1>2, <2>1, ReferencesKept DEF ResumeChecks, channels, requests,
      memory, history, Refers
<1>3. ASSUME NEW c \in Callers, Registers(c)
     PROVE  Refers'
  <2>1. HandlesRefer'
    BY <1>3, <1>0, StartedStays DEF Registers, HandlesRefer, Refers,
      CallsRefer, ChannelsTyped
  <2>2. CallsRefer'
    BY <1>3, <1>0, StartedStays, NothingTyped DEF Registers, CallsRefer,
      Refers, CallsTyped, CallRecords
  <2>. QED
    BY <1>3, <2>1, <2>2, ReferencesKept DEF Registers, channels, requests,
      memory, history, Refers
<1>4. ASSUME NEW c \in Callers, NEW t \in Tasks, Launches(c, t)
     PROVE  Refers'
  <2>1. CallsRefer'
    <3>1. call' = [call EXCEPT ![c] = [call[c] EXCEPT !.at = "spawned", !.task
      = t]]
      BY <1>4 DEF Launches
    <3>. QED
      BY <1>4, <1>0, <3>1, BornGrows, StartedStays
      DEF CallsRefer, Refers, CallsTyped, CallRecords
  <2>2. BornStarted'
    BY <1>4, <1>0, BornGrows, StartedStays DEF BornStarted, Refers
  <2>3. HandlesRefer'
    BY <1>4, <1>0, BornGrows, StartedStays DEF Launches, HandlesRefer, Refers
  <2>4. DetachesRefer'
    BY <1>4, <1>0, BornGrows, StartedStays DEF Launches, requests,
      DetachesRefer, Refers
  <2>5. ChildrenRefer'
    <3>1. child' = [child EXCEPT ![t] = [child[t] EXCEPT !.at = "working",
      !.by = c]]
      BY <1>4 DEF Launches
    <3>. QED
      BY <1>4, <1>0, <3>1, BornGrows, StartedStays
      DEF ChildrenRefer, Refers, ChildrenTyped, ChildRecords
  <2>. QED
    BY <1>4, <2>1, <2>2, <2>3, <2>4, <2>5, ReferencesKept DEF Launches,
      channels, requests, memory, history, Refers
<1>5. ASSUME NEW t \in Tasks, ChildReadsRow(t)
     PROVE  Refers'
  <2>1. ChildrenRefer'
    BY <1>5, <1>0, StartedStays
    DEF ChildReadsRow, ChildrenRefer, Refers, ChildrenTyped, ChildRecords,
      Started
  <2>. QED
    BY <1>5, <2>1, ReferencesKept DEF ChildReadsRow, channels, requests,
      memory, history, Refers
<1>6. ASSUME NEW t \in Tasks, ChildCounts(t)
     PROVE  Refers'
  <2>1. ChildrenRefer'
    BY <1>6, <1>0, StartedStays, NothingTyped DEF ChildCounts, ChildrenRefer,
      Refers, ChildrenTyped, ChildRecords
  <2>. QED
    BY <1>6, <2>1, ReferencesKept DEF ChildCounts, channels, requests, memory,
      history, Refers
<1>7. ASSUME NEW t \in Tasks, ChildCompletes(t)
     PROVE  Refers'
  <2>1. ChildrenRefer'
    BY <1>7, <1>0, StartedStays, NothingTyped DEF ChildCompletes, Ends,
      ChildrenRefer, Refers, ChildrenTyped, ChildRecords
  <2>. QED
    BY <1>7, <2>1, ReferencesKept DEF ChildCompletes, Ends, channels,
      requests, memory, history, Refers
<1>8. ASSUME NEW t \in Tasks, ChildFails(t)
     PROVE  Refers'
  <2>1. ChildrenRefer'
    BY <1>8, <1>0, StartedStays, NothingTyped DEF ChildFails, Ends,
      ChildrenRefer, Refers, ChildrenTyped, ChildRecords
  <2>. QED
    BY <1>8, <2>1, ReferencesKept DEF ChildFails, Ends, channels, requests,
      memory, history, Refers
<1>9. ASSUME NEW t \in Tasks, ChildRetries(t)
     PROVE  Refers'
  <2>1. ChildrenRefer'
    BY <1>9, <1>0, StartedStays, NothingTyped DEF ChildRetries, ChildStep,
      ChildrenRefer, Refers, ChildrenTyped, ChildRecords
  <2>. QED
    BY <1>9, <2>1, ReferencesKept DEF ChildRetries, ChildStep, channels,
      requests, memory, history, Refers
<1>10. ASSUME NEW t \in Tasks, ChildCancelled(t)
     PROVE  Refers'
  <2>1. ChildrenRefer'
    BY <1>10, <1>0, StartedStays, NothingTyped DEF ChildCancelled, Ends,
      ChildrenRefer, Refers, ChildrenTyped, ChildRecords
  <2>. QED
    BY <1>10, <2>1, ReferencesKept DEF ChildCancelled, Ends, channels,
      requests, memory, history, Refers
<1>11. ASSUME NEW t \in Tasks, ChildReadsLast(t)
     PROVE  Refers'
  <2>1. ChildrenRefer'
    BY <1>11, <1>0, StartedStays, NothingTyped DEF ChildReadsLast,
      ChildrenRefer, Refers, ChildrenTyped, ChildRecords
  <2>. QED
    BY <1>11, <2>1, ReferencesKept DEF ChildReadsLast, channels, requests,
      memory, history, Refers
<1>12. ASSUME NEW t \in Tasks, ChildWritesEnd(t)
     PROVE  Refers'
  <2>1. ChildrenRefer'
    BY <1>12, <1>0, StartedStays, NothingTyped DEF ChildWritesEnd,
      ChildrenRefer, Refers, ChildrenTyped, ChildRecords
  <2>. QED
    BY <1>12, <2>1, ReferencesKept DEF ChildWritesEnd, channels, requests,
      memory, history, Refers
<1>13. ASSUME NEW t \in Tasks, ChildDelivers(t)
     PROVE  Refers'
  <2>1. HandlesRefer'
    BY <1>13, <1>0, StartedStays, NothingTyped DEF ChildDelivers, Leave, Sent,
      HandlesRefer, Refers, ChannelsTyped
  <2>2. ChildrenRefer'
    BY <1>13, <1>0, StartedStays, NothingTyped DEF ChildDelivers, Leave, Sent,
      ChildrenRefer, Refers, ChildrenTyped, ChildRecords
  <2>. QED
    BY <1>13, <2>1, <2>2, ReferencesKept DEF ChildDelivers, Leave, Sent,
      channels, requests, memory, history, Refers
<1>14. ASSUME NEW t \in Tasks, ChildAborted(t)
     PROVE  Refers'
  <2>1. HandlesRefer'
    <3>1. CASE Leave(t, Sent(t), FALSE)
      BY <1>0, <3>1, StartedStays DEF Leave, HandlesRefer, Refers,
        ChannelsTyped
    <3>2. CASE UNCHANGED <<active, born>>
      BY <3>2, ReferencesKept
    <3>. QED  BY <1>14, <3>1, <3>2 DEF ChildAborted, channels
  <2>2. ChildrenRefer'
    BY <1>14, <1>0, StartedStays, NothingTyped DEF ChildAborted, Leave, Sent,
      ChildrenRefer, Refers, ChildrenTyped, ChildRecords
  <2>. QED
    BY <1>14, <2>1, <2>2, ReferencesKept DEF ChildAborted, Leave, Sent,
      channels, requests, memory, history, Refers
<1>15. ASSUME NEW t \in Tasks, ChildDropped(t)
     PROVE  Refers'
  <2>1. HandlesRefer'
    BY <1>15, <1>0, StartedStays, NothingTyped DEF ChildDropped, Leave, Sent,
      HandlesRefer, Refers, ChannelsTyped
  <2>2. ChildrenRefer'
    BY <1>15, <1>0, StartedStays, NothingTyped DEF ChildDropped, Leave, Sent,
      ChildrenRefer, Refers, ChildrenTyped, ChildRecords
  <2>. QED
    BY <1>15, <2>1, <2>2, ReferencesKept DEF ChildDropped, Leave, Sent,
      channels, requests, memory, history, Refers
<1>16. CASE WaitBegins
  <2>1. CallsRefer'
    BY <1>16, <1>0, StartedStays, NothingTyped DEF WaitBegins, CallsRefer,
      Refers, CallsTyped, CallRecords
  <2>. QED
    BY <1>16, <2>1, ReferencesKept DEF WaitBegins, channels, requests, memory,
      history, Refers
<1>17. CASE WaitReceives
  <2>1. CallsRefer'
    BY <1>17, <1>0, StartedStays, NothingTyped DEF WaitReceives, CallsRefer,
      Refers, CallsTyped, CallRecords
  <2>. QED
    BY <1>17, <2>1, ReferencesKept DEF WaitReceives, channels, requests,
      memory, history, Refers
<1>18. CASE WaitTimesOut
  <2>1. CallsRefer'
    BY <1>18, <1>0, StartedStays, NothingTyped DEF WaitTimesOut, CallsRefer,
      Refers, CallsTyped, CallRecords
  <2>. QED
    BY <1>18, <2>1, ReferencesKept DEF WaitTimesOut, channels, requests,
      memory, history, Refers
<1>19. CASE TimeoutReadsRow
  <2>1. CallsRefer'
    <3>1. call[Tool].session \in Sessions /\ born[call[Tool].session] # <<>>
      BY <1>19, <1>0 DEF TimeoutReadsRow, Refers, CallsRefer, Callers
    <3>2. PICK n \in Newest(call[Tool].session) :
            call' = [call EXCEPT ![Tool] = [call[Tool] EXCEPT !.at = "marking", !.marks = n,
                                                              !.copy = row[n]]]
      BY <1>19 DEF TimeoutReadsRow
    <3>3. n \in Tasks /\ Started(n) /\ row[n].status # "none"
      BY <3>1, NewestTyped DEF Started
    <3>4. born' = born /\ call[Tool].at = "timedOut"
      BY <1>19 DEF TimeoutReadsRow
    <3>. QED
      BY <1>0, <3>1, <3>2, <3>3, <3>4, StartedStays
      DEF CallsRefer, Refers, CallsTyped, CallRecords, Callers
  <2>. QED
    BY <1>19, <2>1, ReferencesKept DEF TimeoutReadsRow, channels, requests,
      memory, history, Refers
<1>20. CASE TimeoutReturns
  <2>1. CallsRefer'
    BY <1>20, <1>0, StartedStays, NothingTyped DEF TimeoutReturns,
      DropReceiver, CallsRefer, Refers, CallsTyped, CallRecords
  <2>. QED
    BY <1>20, <2>1, ReferencesKept DEF TimeoutReturns, DropReceiver, channels,
      requests, memory, history, Refers
<1>21. CASE WaitSeesDetach
  <2>1. CallsRefer'
    BY <1>21, <1>0, StartedStays, NothingTyped DEF WaitSeesDetach, CallsRefer,
      Refers, CallsTyped, CallRecords
  <2>. QED
    BY <1>21, <2>1, ReferencesKept DEF WaitSeesDetach, channels, requests,
      memory, history, Refers
<1>22. CASE DetachReturns
  <2>1. CallsRefer'
    BY <1>22, <1>0, StartedStays, NothingTyped DEF DetachReturns,
      DropReceiver, CallsRefer, Refers, CallsTyped, CallRecords
  <2>. QED
    BY <1>22, <2>1, ReferencesKept DEF DetachReturns, DropReceiver, channels,
      requests, memory, history, Refers
<1>23. ASSUME NEW s \in Sessions, DetachAsks(s)
     PROVE  Refers'
  <2>1. DetachesRefer'
    BY <1>23, <1>0, StartedStays
    DEF DetachAsks, DetachesRefer, HandlesRefer, Refers, RequestsTyped,
      DetachRecords
  <2>. QED
    BY <1>23, <2>1, ReferencesKept DEF DetachAsks, channels, requests, memory,
      history, Refers
<1>24. ASSUME NEW s \in Sessions, DetachReadsRow(s)
     PROVE  Refers'
  <2>1. DetachesRefer'
    <3>1. born[s] # <<>>
      BY <1>24, <1>0 DEF DetachReadsRow, DetachesRefer, Refers
    <3>2. \A n \in Newest(s) : n \in Tasks /\ Started(n) /\ row[n].status # "none"
      BY NewestTyped DEF Started
    <3>. QED
      BY <1>24, <1>0, <3>1, <3>2, StartedStays
      DEF DetachReadsRow, DetachesRefer, Refers, RequestsTyped, DetachRecords
  <2>. QED
    BY <1>24, <2>1, ReferencesKept DEF DetachReadsRow, channels, requests,
      memory, history, Refers
<1>25. ASSUME NEW s \in Sessions, DetachWritesRow(s)
     PROVE  Refers'
  <2>1. DetachesRefer'
    BY <1>25, <1>0, StartedStays, NothingTyped DEF DetachWritesRow,
      DetachesRefer, Refers, RequestsTyped, DetachRecords
  <2>. QED
    BY <1>25, <2>1, ReferencesKept DEF DetachWritesRow, channels, requests,
      memory, history, Refers
<1>26. ASSUME NEW t \in Tasks, StopBegins(t)
     PROVE  Refers'
  <2>1. HandlesRefer'
    BY <1>26, <1>0, StartedStays, NothingTyped DEF StopBegins, HandlesRefer,
      Refers, ChannelsTyped
  <2>2. StopsRefer'
    BY <1>26, <1>0, StartedStays, NoneIsNothing
    DEF StopBegins, StopsRefer, HandlesRefer, Refers, RequestsTyped,
      StopRecords
  <2>. QED
    BY <1>26, <2>1, <2>2, ReferencesKept DEF StopBegins, channels, requests,
      memory, history, Refers
<1>27. ASSUME NEW t \in Tasks, StopWritesRow(t)
     PROVE  Refers'
  <2>1. StopsRefer'
    BY <1>27, <1>0, StartedStays, NothingTyped DEF StopWritesRow, StopsRefer,
      Refers, RequestsTyped, StopRecords
  <2>. QED
    BY <1>27, <2>1, ReferencesKept DEF StopWritesRow, channels, requests,
      memory, history, Refers
<1>28. ASSUME NEW t \in Tasks, StopReturns(t)
     PROVE  Refers'
  <2>1. StopsRefer'
    BY <1>28, <1>0, StartedStays, NothingTyped DEF StopReturns, StopsRefer,
      Refers, RequestsTyped, StopRecords
  <2>. QED
    BY <1>28, <2>1, ReferencesKept DEF StopReturns, channels, requests,
      memory, history, Refers
<1>29. CASE TurnBegins
  BY <1>29, ReferencesKept DEF TurnBegins, channels, requests, memory,
    history, Refers
<1>30. CASE WakeFindsNothing
  BY <1>30, ReferencesKept DEF WakeFindsNothing, channels, requests, memory,
    history, Refers
<1>31. ASSUME NEW t \in Tasks, Merges(t)
     PROVE  Refers'
  BY <1>31, ReferencesKept DEF Merges, channels, requests, memory, history,
    Refers
<1>32. CASE TurnMerged
  BY <1>32, ReferencesKept DEF TurnMerged, channels, requests, memory,
    history, Refers
<1>33. CASE TurnEnds
  BY <1>33, ReferencesKept DEF TurnEnds, channels, requests, memory, history,
    Refers
<1>34. CASE TurnCancelled
  <2>1. CallsRefer'
    BY <1>34, <1>0, StartedStays, NothingTyped DEF TurnCancelled,
      DropReceiver, CallsRefer, Refers, CallsTyped, CallRecords
  <2>. QED
    BY <1>34, <2>1, ReferencesKept DEF TurnCancelled, DropReceiver, channels,
      requests, memory, history, Refers
<1>35. CASE CrashAndRestart
  <2>1. CallsRefer'
    BY <1>35, <1>0, StartedStays, NothingTyped DEF CrashAndRestart, Recovered,
      CallsRefer, Refers, CallsTyped, CallRecords
  <2>2. HandlesRefer'
    BY <1>35, <1>0, StartedStays, NothingTyped DEF CrashAndRestart, Recovered,
      HandlesRefer, Refers, ChannelsTyped
  <2>3. DetachesRefer'
    BY <1>35, <1>0, StartedStays, NothingTyped DEF CrashAndRestart, Recovered,
      DetachesRefer, Refers, RequestsTyped, DetachRecords
  <2>4. ChildrenRefer'
    <3>1. \A t \in Tasks : /\ child'[t].at # "none" => child[t].at # "none"
                           /\ child'[t].at # "counting"
      <4> TAKE t \in Tasks
      <4>1. child'[t] = IF Alive(t) THEN [NoChild EXCEPT !.at = "gone", !.by =
        child[t].by]
                        ELSE child[t]
        BY <1>35 DEF CrashAndRestart
      <4>2. [NoChild EXCEPT !.at = "gone", !.by = child[t].by].at = "gone"
        BY DEF NoChild
      <4>. QED  BY <4>1, <4>2 DEF Alive
    <3>. QED  BY <1>0, <3>1, StartedStays DEF ChildrenRefer, Refers
  <2>5. StopsRefer'
    BY <1>35, <1>0, StartedStays, NothingTyped DEF CrashAndRestart, Recovered,
      StopsRefer, Refers, RequestsTyped, StopRecords
  <2>. QED
    BY <1>35, <2>1, <2>2, <2>3, <2>4, <2>5, ReferencesKept DEF
      CrashAndRestart, Recovered, channels, requests, memory, history, Refers
<1>36. CASE UNCHANGED vars
  BY <1>36, ReferencesKept DEF vars, channels, requests, memory, history,
    Refers
<1>. QED
  BY <1>1, <1>2, <1>3, <1>4, <1>5, <1>6, <1>7, <1>8, <1>9, <1>10, <1>11,
    <1>12, <1>13, <1>14, <1>15, <1>16, <1>17, <1>18, <1>19, <1>20, <1>21,
    <1>22, <1>23, <1>24, <1>25, <1>26, <1>27, <1>28, <1>29, <1>30, <1>31,
    <1>32, <1>33, <1>34, <1>35, <1>36 DEF Next, Runs, Waits, Turn

LEMMA TypedInit == Init => Typed
<1> SUFFICES ASSUME Init PROVE Typed
  OBVIOUS
<1>1. RowsTyped /\ ChildrenTyped /\ CallsTyped /\ RequestsTyped
  BY NothingTyped DEF Init, RowsTyped, ChildrenTyped, CallsTyped, RequestsTyped
<1>2. BornTyped /\ ChannelsTyped /\ ParentTyped /\ HistoryTyped
  <2>1. <<>> \in Seq(Tasks)
    OBVIOUS
  <2>2. BornTyped /\ ChannelsTyped
    BY <2>1 DEF Init, BornTyped, ChannelsTyped
  <2>. QED  BY <2>2 DEF Init, ParentTyped, ParentRecords, HistoryTyped
<1>3. Refers
  BY NothingTyped
  DEF Init, Refers, CallsRefer, BornStarted, HandlesRefer, DetachesRefer, ChildrenRefer,
      StopsRefer
<1>. QED  BY <1>1, <1>2, <1>3 DEF Typed, Types

-----------------------------------------------------------------------------
(* A run that is over, or is being aborted, has its outcome in the row. In *)
(* turn, a row that has one although its child runs was written by a stop  *)
(* that is aborting the child; only such a stop makes the guard write.     *)
Ending(t) ==
  /\ child[t].at \in {"delivering", "gone"} => Terminal(row[t])
  /\ stop[t].at = "aborting" => Terminal(row[t])
  /\ child[t].at \notin {"none", "delivering", "gone"} /\ Terminal(row[t]) =>
       stop[t].at = "aborting"
  /\ child[t].at = "dropping" => stop[t].at = "aborting"
Ended == \A t \in Tasks \ overwritten : Ending(t)

(* A step that moves one task, or none.                                    *)
LEMMA OthersKept ==
  ASSUME Ended, overwritten \subseteq overwritten', NEW T \in SUBSET Tasks,
         \A u \in T : /\ row'[u].status = row[u].status
                      /\ child'[u].at = child[u].at /\ stop'[u].at = stop[u].at,
         \A u \in (Tasks \ overwritten') \ T : Ending(u)'
  PROVE  Ended'
BY DEF Ended, Ending, Terminal

LEMMA WriteBackKept ==
  ASSUME Types, NEW t \in Tasks, NEW copy \in Rows, NEW status \in Statuses,
         WriteBack(t, copy, status)
  PROVE  /\ overwritten \subseteq overwritten'
         /\ \A u \in Tasks \ {t} : row'[u] = row[u]
         /\ row'[t].status = status
         /\ t \notin overwritten' => row[t] = copy /\ t \notin overwritten
  BY WriteBackTyped DEF WriteBack, Types, RowsTyped

LEMMA EndedStep == Typed /\ Ended /\ [Next]_vars => Ended'
<1> SUFFICES ASSUME Typed, Ended, [Next]_vars PROVE Ended'
  OBVIOUS
<1>0. Types /\ Refers /\ RowsTyped /\ BornTyped /\ ChildrenTyped /\ ChannelsTyped /\ CallsTyped /\ RequestsTyped /\ ParentTyped /\ HistoryTyped
  BY DEF Typed, Types
<1>1. ASSUME NEW s \in Sessions, NEW b \in BOOLEAN, SpawnBegins(Tool, s, b)
     PROVE  Ended'
  BY <1>1, OthersKept DEF SpawnBegins, channels, requests, memory, history
<1>2. ASSUME NEW c \in Callers, NEW s \in Sessions, NEW b \in BOOLEAN,
  ResumeChecks(c, s, b)
     PROVE  Ended'
  BY <1>2, OthersKept DEF ResumeChecks, channels, requests, memory, history
<1>3. ASSUME NEW c \in Callers, Registers(c)
     PROVE  Ended'
  BY <1>3, OthersKept DEF Registers, channels, requests, memory, history
<1>4. ASSUME NEW c \in Callers, NEW t \in Tasks, Launches(c, t)
     PROVE  Ended'
  <2>1. /\ UNCHANGED <<stop, overwritten>>
        /\ \A u \in Tasks \ {t} : child'[u] = child[u] /\ row'[u] = row[u]
        /\ child'[t].at = "working" /\ row'[t].status = "running"
    BY <1>4, <1>0 DEF Launches, requests, history, ChildrenTyped,
      ChildRecords, RowsTyped, Rows
  <2>2. stop[t].at = "none"
    BY <1>4, <1>0, BornGrows DEF Refers, StopsRefer
  <2>3. Ending(t)'
    BY <2>1, <2>2 DEF Ending, Terminal, Outcomes
  <2>. QED  BY <2>1, <2>3, OthersKept
<1>5. ASSUME NEW t \in Tasks, ChildReadsRow(t)
     PROVE  Ended'
  BY <1>5, <1>0, NothingTyped DEF ChildReadsRow, channels, requests, memory,
    history, Ended, Ending, Terminal, ChildrenTyped, ChildRecords,
    RequestsTyped, StopRecords, RowsTyped, Rows
<1>6. ASSUME NEW t \in Tasks, ChildCounts(t)
     PROVE  Ended'
  <2>1. child[t].copy \in Rows /\ child[t].copy.status \in Statuses /\ t \in
    Tasks
    BY <1>0, StatusTyped DEF ChildrenTyped, ChildRecords
  <2>2. WriteBack(t, child[t].copy, child[t].copy.status) /\ stop' = stop
        /\ child[t].at = "counting" /\ child'[t].at = "working"
        /\ \A u \in Tasks \ {t} : child'[u] = child[u]
    BY <1>6, <1>0 DEF ChildCounts, requests, ChildrenTyped, ChildRecords
  <2>3. /\ overwritten \subseteq overwritten'
        /\ \A u \in Tasks \ {t} : row'[u] = row[u]
        /\ row'[t].status = child[t].copy.status
        /\ t \notin overwritten' => row[t] = child[t].copy /\ t \notin
          overwritten
    BY <1>0, <2>1, <2>2, WriteBackKept
  <2>4. t \notin overwritten' => Ending(t)'
    BY <2>2, <2>3 DEF Ended, Ending, Terminal
  <2>. QED  BY <2>1, <2>2, <2>3, <2>4, OthersKept
<1>7. ASSUME NEW t \in Tasks, ChildCompletes(t)
     PROVE  Ended'
  BY <1>7, <1>0, NothingTyped DEF ChildCompletes, Ends, channels, requests,
    memory, history, Ended, Ending, Terminal, ChildrenTyped, ChildRecords,
    RequestsTyped, StopRecords, RowsTyped, Rows
<1>8. ASSUME NEW t \in Tasks, ChildFails(t)
     PROVE  Ended'
  <2>1. /\ UNCHANGED <<row, stop, overwritten>> /\ child[t].at = "working"
        /\ child'[t].at \in {"backoff", "ending"}
        /\ \A u \in Tasks \ {t} : child'[u] = child[u]
    BY <1>8, <1>0 DEF ChildFails, Ends, requests, ChildrenTyped, ChildRecords
  <2>. QED  BY <2>1 DEF Ended, Ending, Terminal
<1>9. ASSUME NEW t \in Tasks, ChildRetries(t)
     PROVE  Ended'
  BY <1>9, <1>0, NothingTyped DEF ChildRetries, ChildStep, channels, requests,
    memory, history, Ended, Ending, Terminal, ChildrenTyped, ChildRecords,
    RequestsTyped, StopRecords, RowsTyped, Rows
<1>10. ASSUME NEW t \in Tasks, ChildCancelled(t)
     PROVE  Ended'
  BY <1>10, <1>0, NothingTyped DEF ChildCancelled, Ends, channels, requests,
    memory, history, Ended, Ending, Terminal, ChildrenTyped, ChildRecords,
    RequestsTyped, StopRecords, RowsTyped, Rows
<1>11. ASSUME NEW t \in Tasks, ChildReadsLast(t)
     PROVE  Ended'
  BY <1>11, <1>0, NothingTyped DEF ChildReadsLast, channels, requests, memory,
    history, Ended, Ending, Terminal, ChildrenTyped, ChildRecords,
    RequestsTyped, StopRecords, RowsTyped, Rows
<1>12. ASSUME NEW t \in Tasks, ChildWritesEnd(t)
     PROVE  Ended'
  <2>1. child[t].copy \in Rows /\ child[t].outcome \in Statuses /\ t \in Tasks
    BY <1>0, StatusTyped DEF ChildrenTyped, ChildRecords
  <2>2. WriteBack(t, child[t].copy, child[t].outcome) /\ stop' = stop
        /\ child[t].at = "writing" /\ child'[t].at = "delivering"
        /\ \A u \in Tasks \ {t} : child'[u] = child[u]
    BY <1>12, <1>0 DEF ChildWritesEnd, requests, ChildrenTyped, ChildRecords
  <2>3. /\ overwritten \subseteq overwritten'
        /\ \A u \in Tasks \ {t} : row'[u] = row[u]
        /\ row'[t].status = child[t].outcome
        /\ t \notin overwritten' => row[t] = child[t].copy /\ t \notin
          overwritten
    BY <1>0, <2>1, <2>2, WriteBackKept
  <2>4. t \notin overwritten' => Ending(t)'
    BY <1>0, <2>2, <2>3 DEF Ending, Terminal, ChildrenTyped, ChildRecords
  <2>. QED  BY <2>1, <2>2, <2>3, <2>4, OthersKept
<1>13. ASSUME NEW t \in Tasks, ChildDelivers(t)
     PROVE  Ended'
  BY <1>13, <1>0, NothingTyped DEF ChildDelivers, Leave, Sent, channels,
    requests, memory, history, Ended, Ending, Terminal, ChildrenTyped,
    ChildRecords, RequestsTyped, StopRecords, RowsTyped, Rows
<1>14. ASSUME NEW t \in Tasks, ChildAborted(t)
     PROVE  Ended'
  <2>1. /\ UNCHANGED <<row, stop, overwritten>> /\ stop[t].at = "aborting"
        /\ child'[t].at \in {"dropping", "gone"}
        /\ \A u \in Tasks \ {t} : child'[u] = child[u]
    <3>1. CASE chan[t] # "none" /\ ~Terminal(row[t])
      BY <1>14, <1>0, <3>1 DEF ChildAborted, requests, ChildrenTyped,
        ChildRecords
    <3>2. CASE ~(chan[t] # "none" /\ ~Terminal(row[t]))
      <4>1. /\ Leave(t, Sent(t), FALSE) /\ UNCHANGED <<row, overwritten>>
            /\ stop[t].at = "aborting"
        BY <1>14, <3>2 DEF ChildAborted
      <4>. QED  BY <1>0, <4>1 DEF Leave, requests, ChildrenTyped
    <3>. QED  BY <3>1, <3>2
  <2>. QED  BY <2>1 DEF Ended, Ending, Terminal
<1>15. ASSUME NEW t \in Tasks, ChildDropped(t)
     PROVE  Ended'
  <2>1. child[t].copy \in Rows /\ "failed" \in Statuses /\ t \in Tasks
    BY <1>0, StatusTyped DEF ChildrenTyped, ChildRecords
  <2>2. WriteBack(t, child[t].copy, "failed") /\ stop' = stop
        /\ child'[t].at = "gone"
        /\ \A u \in Tasks \ {t} : child'[u] = child[u]
    BY <1>15, <1>0 DEF ChildDropped, Leave, requests, ChildrenTyped
  <2>3. /\ overwritten \subseteq overwritten'
        /\ \A u \in Tasks \ {t} : row'[u] = row[u]
        /\ row'[t].status = "failed"
        /\ t \notin overwritten' => row[t] = child[t].copy /\ t \notin
          overwritten
    BY <1>0, <2>1, <2>2, WriteBackKept
  <2>4. t \notin overwritten' => Ending(t)'
    BY <2>2, <2>3 DEF Ending, Terminal, Outcomes
  <2>. QED  BY <2>1, <2>2, <2>3, <2>4, OthersKept
<1>16. CASE WaitBegins
  BY <1>16, OthersKept DEF WaitBegins, channels, requests, memory, history
<1>17. CASE WaitReceives
  BY <1>17, <1>0, NothingTyped DEF WaitReceives, channels, requests, memory,
    history, Ended, Ending, Terminal, ChildrenTyped, ChildRecords,
    RequestsTyped, StopRecords, RowsTyped, Rows
<1>18. CASE WaitTimesOut
  BY <1>18, OthersKept DEF WaitTimesOut, channels, requests, memory, history
<1>19. CASE TimeoutReadsRow
  BY <1>19, OthersKept DEF TimeoutReadsRow, channels, requests, memory, history
<1>20. CASE TimeoutReturns
  <2>1. UNCHANGED <<child, stop>>
    BY <1>20 DEF TimeoutReturns, requests
  <2>2. CASE UNCHANGED <<row, overwritten>>
    BY <2>1, <2>2, OthersKept
  <2>3. CASE WriteBack(call[Tool].marks, call[Tool].copy,
    call[Tool].copy.status)
    <3>1. PICK m \in Tasks, r \in Rows : m = call[Tool].marks /\ r =
      call[Tool].copy
      BY <1>20, <1>0 DEF TimeoutReturns, CallsTyped, CallRecords, Refers,
        CallsRefer, Callers
    <3>2. r.status \in Statuses /\ WriteBack(m, r, r.status)
      BY <2>3, <3>1, StatusTyped
    <3>3. /\ overwritten \subseteq overwritten'
          /\ \A u \in Tasks \ {m} : row'[u] = row[u]
          /\ row'[m].status = r.status
          /\ m \notin overwritten' => row[m] = r /\ m \notin overwritten
      BY <1>0, <3>2, WriteBackKept
    <3>4. m \notin overwritten' => Ending(m)'
      BY <2>1, <3>3 DEF Ended, Ending, Terminal
    <3>. QED  BY <2>1, <3>3, <3>4, OthersKept
  <2>. QED  BY <1>20, <2>2, <2>3 DEF TimeoutReturns
<1>21. CASE WaitSeesDetach
  BY <1>21, OthersKept DEF WaitSeesDetach, channels, requests, memory, history
<1>22. CASE DetachReturns
  BY <1>22, OthersKept DEF DetachReturns, DropReceiver, channels, requests,
    memory, history
<1>23. ASSUME NEW s \in Sessions, DetachAsks(s)
     PROVE  Ended'
  BY <1>23, <1>0, NothingTyped DEF DetachAsks, channels, requests, memory,
    history, Ended, Ending, Terminal, ChildrenTyped, ChildRecords,
    RequestsTyped, StopRecords, RowsTyped, Rows
<1>24. ASSUME NEW s \in Sessions, DetachReadsRow(s)
     PROVE  Ended'
  BY <1>24, <1>0, NothingTyped DEF DetachReadsRow, channels, requests, memory,
    history, Ended, Ending, Terminal, ChildrenTyped, ChildRecords,
    RequestsTyped, StopRecords, RowsTyped, Rows
<1>25. ASSUME NEW s \in Sessions, DetachWritesRow(s)
     PROVE  Ended'
  <2>1. UNCHANGED <<child, stop>>
    BY <1>25 DEF DetachWritesRow, requests
  <2>2. CASE UNCHANGED <<row, overwritten>>
    BY <2>1, <2>2, OthersKept
  <2>3. CASE WriteBack(detach[s].marks, detach[s].copy, detach[s].copy.status)
    <3>1. PICK m \in Tasks, r \in Rows : m = detach[s].marks /\ r =
      detach[s].copy
      BY <1>25, <1>0 DEF DetachWritesRow, RequestsTyped, DetachRecords,
        Refers, DetachesRefer
    <3>2. r.status \in Statuses /\ WriteBack(m, r, r.status)
      BY <2>3, <3>1, StatusTyped
    <3>3. /\ overwritten \subseteq overwritten'
          /\ \A u \in Tasks \ {m} : row'[u] = row[u]
          /\ row'[m].status = r.status
          /\ m \notin overwritten' => row[m] = r /\ m \notin overwritten
      BY <1>0, <3>2, WriteBackKept
    <3>4. m \notin overwritten' => Ending(m)'
      BY <2>1, <3>3 DEF Ended, Ending, Terminal
    <3>. QED  BY <2>1, <3>3, <3>4, OthersKept
  <2>. QED  BY <1>25, <2>2, <2>3 DEF DetachWritesRow
<1>26. ASSUME NEW t \in Tasks, StopBegins(t)
     PROVE  Ended'
  BY <1>26, <1>0, NothingTyped DEF StopBegins, channels, requests, memory,
    history, Ended, Ending, Terminal, ChildrenTyped, ChildRecords,
    RequestsTyped, StopRecords, RowsTyped, Rows
<1>27. ASSUME NEW t \in Tasks, StopWritesRow(t)
     PROVE  Ended'
  <2>1. stop[t].copy \in Rows /\ "cancelled" \in Statuses /\ t \in Tasks
    BY <1>0, StatusTyped DEF RequestsTyped, StopRecords
  <2>2. WriteBack(t, stop[t].copy, "cancelled") /\ child' = child
        /\ stop'[t].at = "aborting" /\ \A u \in Tasks \ {t} : stop'[u] =
          stop[u]
    BY <1>27, <1>0 DEF StopWritesRow, RequestsTyped
  <2>3. /\ overwritten \subseteq overwritten'
        /\ \A u \in Tasks \ {t} : row'[u] = row[u]
        /\ row'[t].status = "cancelled"
        /\ t \notin overwritten' => row[t] = stop[t].copy /\ t \notin
          overwritten
    BY <1>0, <2>1, <2>2, WriteBackKept
  <2>4. t \notin overwritten' => Ending(t)'
    BY <2>2, <2>3 DEF Ending, Terminal, Outcomes
  <2>. QED  BY <2>1, <2>2, <2>3, <2>4, OthersKept
<1>28. ASSUME NEW t \in Tasks, StopReturns(t)
     PROVE  Ended'
  BY <1>28, <1>0, NothingTyped DEF StopReturns, channels, requests, memory,
    history, Ended, Ending, Terminal, ChildrenTyped, ChildRecords,
    RequestsTyped, StopRecords, RowsTyped, Rows
<1>29. CASE TurnBegins
  BY <1>29, OthersKept DEF TurnBegins, channels, requests, memory, history
<1>30. CASE WakeFindsNothing
  BY <1>30, OthersKept DEF WakeFindsNothing, channels, requests, memory,
    history
<1>31. ASSUME NEW t \in Tasks, Merges(t)
     PROVE  Ended'
  BY <1>31, <1>0, NothingTyped DEF Merges, channels, requests, memory,
    history, Ended, Ending, Terminal, ChildrenTyped, ChildRecords,
    RequestsTyped, StopRecords, RowsTyped, Rows
<1>32. CASE TurnMerged
  BY <1>32, OthersKept DEF TurnMerged, channels, requests, memory, history
<1>33. CASE TurnEnds
  BY <1>33, OthersKept DEF TurnEnds, channels, requests, memory, history
<1>34. CASE TurnCancelled
  BY <1>34, OthersKept DEF TurnCancelled, DropReceiver, channels, requests,
    memory, history
<1>35. CASE CrashAndRestart
  <2>1. overwritten' = overwritten /\ \A u \in Tasks : stop'[u].at = "none"
    BY <1>35, NothingTyped DEF CrashAndRestart
  <2>2. \A u \in Tasks : /\ child'[u].at \in {"none", "gone"}
                         /\ child'[u].at = "gone" => child[u].at # "none"
    <3> TAKE u \in Tasks
    <3>1. child'[u] = IF Alive(u) THEN [NoChild EXCEPT !.at = "gone", !.by =
      child[u].by]
                      ELSE child[u]
      BY <1>35 DEF CrashAndRestart
    <3>2. [NoChild EXCEPT !.at = "gone", !.by = child[u].by].at = "gone"
      BY DEF NoChild
    <3>. QED  BY <3>1, <3>2 DEF Alive
  <2>3. \A u \in Tasks : Started(u) => Terminal(row[u])'
    BY <1>35, <1>0 DEF CrashAndRestart, Recovered, Started, Terminal,
      RowsTyped, Rows, Statuses
  <2>. QED  BY <1>0, <2>1, <2>2, <2>3 DEF Ended, Ending, Refers, ChildrenRefer
<1>36. CASE UNCHANGED vars
  BY <1>36, OthersKept DEF vars, channels, requests, memory, history
<1>. QED
  BY <1>1, <1>2, <1>3, <1>4, <1>5, <1>6, <1>7, <1>8, <1>9, <1>10, <1>11,
    <1>12, <1>13, <1>14, <1>15, <1>16, <1>17, <1>18, <1>19, <1>20, <1>21,
    <1>22, <1>23, <1>24, <1>25, <1>26, <1>27, <1>28, <1>29, <1>30, <1>31,
    <1>32, <1>33, <1>34, <1>35, <1>36 DEF Next, Runs, Waits, Turn

LEMMA EndedInit == Init => Ended
BY NothingTyped DEF Init, Ended, Ending

(* An outcome is only replaced under a stop, or over a newer row.          *)
OutcomesKept ==
  \A t \in Tasks : Terminal(row[t]) /\ row'[t].status # row[t].status =>
    stop[t].at # "none" \/ t \in overwritten'

LEMMA OutcomesStep ==
  ASSUME Typed, Ended, [Next]_vars
  PROVE  OutcomesKept
<1>0. Types /\ Refers /\ RowsTyped
  BY DEF Typed, Types
<1>1. ASSUME NEW t \in Tasks, NEW copy \in Rows, NEW status \in Statuses,
             WriteBack(t, copy, status),
             t \notin overwritten /\ Terminal(row[t]) =>
               status = copy.status \/ stop[t].at # "none"
      PROVE  OutcomesKept
  <2>1. /\ \A u \in Tasks \ {t} : row'[u] = row[u]
        /\ row'[t].status = status
        /\ t \notin overwritten' => row[t] = copy /\ t \notin overwritten
    BY <1>0, <1>1, WriteBackKept
  <2>. QED  BY <1>1, <2>1 DEF OutcomesKept
<1>2. ASSUME NEW t \in Tasks, row' = [row EXCEPT ![t].told = TRUE] PROVE OutcomesKept
  BY <1>0, <1>2 DEF OutcomesKept, RowsTyped, Rows
<1>3. ASSUME UNCHANGED row PROVE OutcomesKept
  BY <1>3 DEF OutcomesKept
<1>4. ASSUME NEW c \in Callers, NEW t \in Tasks, Launches(c, t) PROVE OutcomesKept
  <2>1. row[t].status = "none" /\ \A u \in Tasks \ {t} : row'[u] = row[u]
    BY <1>0, <1>4 DEF Launches, RowsTyped
  <2>. QED  BY <2>1 DEF OutcomesKept, Terminal, Outcomes
<1>5. ASSUME NEW t \in Tasks, ChildCounts(t) PROVE OutcomesKept
  <2>1. child[t].copy \in Rows /\ child[t].copy.status \in Statuses
    BY <1>0, StatusTyped DEF Types, ChildrenTyped, ChildRecords
  <2>. QED  BY <1>1, <1>5, <2>1 DEF ChildCounts
<1>6. ASSUME NEW t \in Tasks, ChildWritesEnd(t) PROVE OutcomesKept
  <2>1. child[t].copy \in Rows /\ child[t].outcome \in Statuses
    BY <1>0, StatusTyped DEF Types, ChildrenTyped, ChildRecords
  <2>2. t \notin overwritten /\ Terminal(row[t]) => stop[t].at # "none"
    BY <1>6 DEF ChildWritesEnd, Ended, Ending
  <2>. QED  BY <1>1, <1>6, <2>1, <2>2 DEF ChildWritesEnd
<1>7. ASSUME NEW t \in Tasks, ChildDropped(t) PROVE OutcomesKept
  <2>1. child[t].copy \in Rows
    BY <1>0 DEF Types, ChildrenTyped, ChildRecords
  <2>2. t \notin overwritten => stop[t].at # "none"
    BY <1>7 DEF ChildDropped, Ended, Ending
  <2>. QED  BY <1>1, <1>7, <2>1, <2>2, StatusTyped DEF ChildDropped
<1>8. CASE WaitReceives
  <2>1. \A n \in Newest(call[Tool].session) : n \in Tasks
    BY <1>0, <1>8, NewestTyped DEF WaitReceives, Typed, Refers, CallsRefer, Callers
  <2>. QED  BY <1>2, <1>3, <1>8, <2>1 DEF WaitReceives
<1>9. CASE TimeoutReturns
  <2>1. /\ call[Tool].copy \in Rows /\ call[Tool].copy.status \in Statuses
        /\ call[Tool].marks \in Tasks
    BY <1>0, <1>9, StatusTyped
    DEF TimeoutReturns, Types, CallsTyped, CallRecords, Refers, CallsRefer, Callers
  <2>. QED  BY <1>1, <1>3, <1>9, <2>1 DEF TimeoutReturns
<1>10. ASSUME NEW s \in Sessions, DetachWritesRow(s) PROVE OutcomesKept
  <2>1. /\ detach[s].copy \in Rows /\ detach[s].copy.status \in Statuses
        /\ detach[s].marks \in Tasks
    BY <1>0, <1>10, StatusTyped
    DEF DetachWritesRow, Types, RequestsTyped, DetachRecords, Refers, DetachesRefer
  <2>. QED  BY <1>1, <1>3, <1>10, <2>1 DEF DetachWritesRow
<1>11. ASSUME NEW t \in Tasks, StopWritesRow(t) PROVE OutcomesKept
  <2>1. stop[t].copy \in Rows
    BY <1>0 DEF Types, RequestsTyped, StopRecords
  <2>. QED  BY <1>1, <1>11, <2>1, StatusTyped DEF StopWritesRow
<1>12. ASSUME NEW t \in Tasks, Merges(t) PROVE OutcomesKept
  BY <1>2, <1>12 DEF Merges
<1>13. CASE CrashAndRestart
  BY <1>0, <1>13
  DEF CrashAndRestart, Recovered, OutcomesKept, Terminal, Outcomes, RowsTyped, Rows
<1>14. ASSUME NEW t \in Tasks, ChildAborted(t) PROVE OutcomesKept
  BY <1>3, <1>14 DEF ChildAborted
<1>15. CASE \E t \in Tasks : Runs(t) \/ ChildFails(t)
  BY <1>3, <1>5, <1>6, <1>7, <1>14, <1>15
  DEF Runs, ChildFails, ChildReadsRow, ChildCompletes, ChildRetries, ChildCancelled,
      ChildReadsLast, ChildDelivers, Ends, ChildStep
<1>16. CASE Waits \/ WaitTimesOut
  BY <1>3, <1>8, <1>9, <1>16
  DEF Waits, WaitTimesOut, WaitBegins, TimeoutReadsRow, WaitSeesDetach, DetachReturns
<1>17. CASE TurnBegins \/ Turn \/ TurnCancelled
  BY <1>3, <1>12, <1>17
  DEF Turn, TurnBegins, TurnMerged, TurnEnds, TurnCancelled, WakeFindsNothing
<1>18. CASE UNCHANGED vars
  BY <1>3, <1>18 DEF vars
<1>. QED
  BY <1>3, <1>4, <1>10, <1>11, <1>13, <1>15, <1>16, <1>17, <1>18
  DEF Next, SpawnBegins, ResumeChecks, Registers, DetachAsks, DetachReadsRow, StopBegins,
      StopReturns

-----------------------------------------------------------------------------
(* A mark, in a row or in a copy of it, is on an outcome that was told; a  *)
(* row that was never written has none. While the tool call waits, the     *)
(* tasks of its session that are newer than its own were launched by the   *)
(* web page, so that the mark it sets is on its own task, on theirs, or on *)
(* one that created_at does not tell from the next.                        *)
TrueMark(t, r) == r.told /\ child[t].by = Tool => told[t] > 0 \/ Followed(t)
RowsMarked == \A t \in Tasks : TrueMark(t, row[t]) /\ (~Started(t) => ~row[t].told)
ChildrenMarked ==
  \A t \in Tasks : child[t].at \in {"counting", "writing", "dropping"} =>
    TrueMark(t, child[t].copy)
StopsMarked == \A t \in Tasks : stop[t].at = "read" => TrueMark(t, stop[t].copy)
DetachesMarked ==
  \A s \in Sessions : detach[s].at = "marking" => TrueMark(detach[s].marks, detach[s].copy)
CallMarked == call[Tool].at = "marking" => TrueMark(call[Tool].marks, call[Tool].copy)
NewerByWeb(s, t) ==
  \E i \in DOMAIN born[s] :
    born[s][i] = t /\ \A j \in DOMAIN born[s] : j > i => child[born[s][j]].by # Tool
CallIsNewest ==
  call[Tool].at \notin {"none", "checked"} => NewerByWeb(call[Tool].session, call[Tool].task)
MergesRefer == \A t \in parent.merging : Started(t)
Marked ==
  /\ RowsMarked /\ ChildrenMarked /\ StopsMarked /\ DetachesMarked
  /\ CallMarked /\ CallIsNewest /\ MergesRefer

(* An outcome is told by the wait that receives it or by a merge.          *)
LEMMA Tellers ==
  ASSUME Typed, [Next]_vars
  PROVE  \/ told' = told
         \/ WaitReceives /\ call[Tool].task \in Tasks
              /\ told' = [told EXCEPT ![call[Tool].task] = @ + 1]
         \/ \E t \in Tasks : Merges(t) /\ told' = [told EXCEPT ![t] = @ + 1]
<1>1. WaitReceives => call[Tool].task \in Tasks /\ told' = [told EXCEPT ![call[Tool].task] = @ + 1]
  BY DEF WaitReceives, Typed, Refers, CallsRefer, Callers
<1>2. ASSUME NEW t \in Tasks, Runs(t) \/ ChildFails(t) PROVE told' = told
  BY <1>2
  DEF Runs, ChildFails, ChildReadsRow, ChildCounts, ChildCompletes, ChildRetries,
      ChildCancelled, ChildReadsLast, ChildWritesEnd, ChildDelivers, ChildAborted,
      ChildDropped, Ends, ChildStep, Leave, history
<1>3. CASE Waits \/ WaitTimesOut
  BY <1>1, <1>3
  DEF Waits, WaitTimesOut, WaitBegins, TimeoutReadsRow, TimeoutReturns, WaitSeesDetach,
      DetachReturns, history
<1>4. CASE TurnBegins \/ Turn \/ TurnCancelled
  BY <1>4
  DEF Turn, TurnBegins, TurnMerged, TurnEnds, TurnCancelled, WakeFindsNothing, Merges, history
<1>5. CASE UNCHANGED vars
  BY <1>5 DEF vars, history
<1>. QED
  BY <1>2, <1>3, <1>4, <1>5
  DEF Next, SpawnBegins, ResumeChecks, Registers, Launches, DetachAsks, DetachReadsRow,
      DetachWritesRow, StopBegins, StopWritesRow, StopReturns, CrashAndRestart, history

(* Only a launch says who launched a task, and no outcome is untold.       *)
LEMMA ToldGrows ==
  ASSUME Typed, [Next]_vars
  PROVE  /\ \A t \in Tasks : told[t] \in Nat /\ told'[t] \in Nat /\ told'[t] >= told[t]
         /\ \/ \A t \in Tasks : child'[t].by = child[t].by
            \/ \E c \in Callers, t \in Tasks : Launches(c, t)
<1>0. Types /\ Types' /\ ChildrenTyped
  BY TypeStep DEF Typed, Types
<1>1. \A t \in Tasks : told[t] \in Nat /\ told'[t] \in Nat
  BY <1>0 DEF Types, HistoryTyped
<1>2. told' = told \/ \E t \in Tasks : told' = [told EXCEPT ![t] = @ + 1]
  BY Tellers
<1>3. \A t \in Tasks : told'[t] >= told[t]
  BY <1>0, <1>1, <1>2 DEF Types, HistoryTyped
<1>4. \/ \A t \in Tasks : child'[t].by = child[t].by
      \/ \E c \in Callers, t \in Tasks : Launches(c, t)
  <2> DEFINE Same == \A t \in Tasks : child'[t].by = child[t].by
  <2>1. ASSUME UNCHANGED child PROVE Same
    BY <2>1
  <2>2. ASSUME NEW t \in Tasks, NEW awake, Leave(t, Sent(t), awake) PROVE Same
    BY <1>0, <2>2 DEF Leave, ChildrenTyped, ChildRecords, NoChild
  <2>3. ASSUME NEW t \in Tasks, ChildDelivers(t) \/ ChildAborted(t) \/ ChildDropped(t)
        PROVE  Same
    <3>1. CASE child' = [child EXCEPT ![t] = [@ EXCEPT !.at = "dropping", !.copy = row[t]]]
      BY <1>0, <3>1 DEF ChildrenTyped, ChildRecords
    <3>2. CASE ChildDelivers(t)
      <4>1. Leave(t, Sent(t), chan[t] # "open")
        BY <3>2 DEF ChildDelivers
      <4>. QED  BY <2>2, <4>1
    <3>. QED  BY <2>2, <2>3, <3>1, <3>2 DEF ChildAborted, ChildDropped
  <2>4. ASSUME NEW t \in Tasks,
               \/ ChildReadsRow(t) \/ ChildCounts(t) \/ ChildCompletes(t) \/ ChildRetries(t)
               \/ ChildCancelled(t) \/ ChildReadsLast(t) \/ ChildWritesEnd(t) \/ ChildFails(t)
        PROVE  Same
    <3>1. child[t] \in ChildRecords
      BY <1>0 DEF ChildrenTyped
    <3>2. \E r \in ChildRecords : r.by = child[t].by /\ child' = [child EXCEPT ![t] = r]
      <4>1. child' \in [Tasks -> ChildRecords]
        BY <1>0 DEF Types, ChildrenTyped
      <4>2. \A u \in Tasks \ {t} : child'[u] = child[u]
        BY <1>0, <2>4
        DEF ChildReadsRow, ChildCounts, ChildCompletes, ChildRetries, ChildCancelled,
            ChildReadsLast, ChildWritesEnd, ChildFails, Ends, ChildStep, ChildrenTyped
      <4>3. child'[t].by = child[t].by
        <5>1. CASE ChildReadsRow(t) \/ ChildReadsLast(t)
          BY <1>0, <3>1, <5>1 DEF ChildReadsRow, ChildReadsLast, ChildrenTyped, ChildRecords
        <5>2. CASE ChildCounts(t) \/ ChildWritesEnd(t)
          BY <1>0, <3>1, <5>2 DEF ChildCounts, ChildWritesEnd, ChildrenTyped, ChildRecords
        <5>3. CASE ChildCompletes(t) \/ ChildCancelled(t)
          BY <1>0, <3>1, <5>3 DEF ChildCompletes, ChildCancelled, Ends, ChildrenTyped, ChildRecords
        <5>4. CASE ChildRetries(t)
          BY <1>0, <3>1, <5>4 DEF ChildRetries, ChildStep, ChildrenTyped, ChildRecords
        <5>5. CASE ChildFails(t)
          <6>1. CASE Ends(t, "failed")
            BY <1>0, <3>1, <6>1 DEF Ends, ChildrenTyped, ChildRecords
          <6>2. CASE child' = [child EXCEPT ![t] = [@ EXCEPT !.at = "backoff",
                                                    !.retries = child[t].retries + 1]]
            <7>1. child'[t] = [child[t] EXCEPT !.at = "backoff", !.retries = child[t].retries + 1]
              BY <1>0, <6>2 DEF ChildrenTyped
            <7>. QED  BY <3>1, <7>1 DEF ChildRecords
          <6>. QED  BY <5>5, <6>1, <6>2 DEF ChildFails
        <5>. QED  BY <2>4, <5>1, <5>2, <5>3, <5>4, <5>5
      <4>. QED  BY <1>0, <4>1, <4>2, <4>3 DEF ChildrenTyped
    <3>. QED  BY <1>0, <3>2 DEF ChildrenTyped
  <2>6. ASSUME CrashAndRestart PROVE Same
    <3>1. \A t \in Tasks : child'[t] = IF Alive(t) THEN [NoChild EXCEPT !.at = "gone", !.by = child[t].by]
                                     ELSE child[t]
      BY <2>6 DEF CrashAndRestart
    <3>2. \A t \in Tasks : [NoChild EXCEPT !.at = "gone", !.by = child[t].by].by = child[t].by
      BY DEF NoChild
    <3>. QED  BY <3>1, <3>2
  <2>7. CASE Waits \/ WaitTimesOut
    BY <2>1, <2>7
    DEF Waits, WaitTimesOut, WaitBegins, WaitReceives, TimeoutReadsRow, TimeoutReturns,
        WaitSeesDetach, DetachReturns
  <2>8. CASE TurnBegins \/ Turn \/ TurnCancelled
    BY <2>1, <2>8
    DEF Turn, TurnBegins, TurnMerged, TurnEnds, TurnCancelled, WakeFindsNothing, Merges
  <2>9. CASE UNCHANGED vars
    BY <2>1, <2>9 DEF vars, memory
  <2>. QED
    BY <2>1, <2>3, <2>4, <2>6, <2>7, <2>8, <2>9
    DEF Next, Runs, SpawnBegins, ResumeChecks, Registers, DetachAsks, DetachReadsRow,
        DetachWritesRow, StopBegins, StopWritesRow, StopReturns
<1>. QED  BY <1>1, <1>3, <1>4

(* The tasks of a session only grow in number, by launches.                *)
LEMMA OnlyLaunchesBear ==
  ASSUME Typed, [Next]_vars
  PROVE  UNCHANGED <<born, tied>> \/ \E c \in Callers, t \in Tasks : Launches(c, t)
<1>1. ASSUME NEW t \in Tasks, Runs(t) \/ ChildFails(t) PROVE UNCHANGED <<born, tied>>
  BY <1>1
  DEF Runs, ChildFails, ChildReadsRow, ChildCounts, ChildCompletes, ChildRetries,
      ChildCancelled, ChildReadsLast, ChildWritesEnd, ChildDelivers, ChildAborted,
      ChildDropped, Ends, ChildStep, Leave, history
<1>2. CASE Waits \/ WaitTimesOut
  BY <1>2
  DEF Waits, WaitTimesOut, WaitBegins, WaitReceives, TimeoutReadsRow, TimeoutReturns,
      WaitSeesDetach, DetachReturns
<1>3. CASE TurnBegins \/ Turn \/ TurnCancelled
  BY <1>3
  DEF Turn, TurnBegins, TurnMerged, TurnEnds, TurnCancelled, WakeFindsNothing, Merges
<1>4. CASE UNCHANGED vars
  BY <1>4 DEF vars
<1>. QED
  BY <1>1, <1>2, <1>3, <1>4
  DEF Next, SpawnBegins, ResumeChecks, Registers, DetachAsks, DetachReadsRow,
      DetachWritesRow, StopBegins, StopWritesRow, StopReturns, CrashAndRestart

(* A launch adds one task to a session, of those that were in none.        *)
LEMMA LaunchBears ==
  ASSUME Typed, NEW c \in Callers, NEW t \in Tasks, Launches(c, t), NEW s \in Sessions
  PROVE  /\ \A i \in DOMAIN born[s] :
              /\ i \in DOMAIN born'[s] /\ born'[s][i] = born[s][i]
              /\ born[s][i] \in Tasks \ {t} /\ child'[born[s][i]] = child[born[s][i]]
         /\ \A i \in DOMAIN born'[s] :
              i \in DOMAIN born[s] \/ (s = call[c].session /\ born'[s][i] = t)
<1>0. /\ Types /\ Refers /\ born \in [Sessions -> Seq(Tasks)] /\ child \in [Tasks -> ChildRecords]
      /\ call[c].session \in Sessions /\ ~Started(t)
  BY DEF Typed, Types, BornTyped, ChildrenTyped, Refers, CallsRefer, Launches, Started
<1>1. \A i \in DOMAIN born[s] : born[s][i] \in Tasks \ {t}
  BY <1>0 DEF Refers, BornStarted
<1>2. \A u \in Tasks \ {t} : child'[u] = child[u]
  BY <1>0 DEF Launches
<1>3. CASE s # call[c].session
  <2>1. born'[s] = born[s]
    BY <1>0, <1>3 DEF Launches
  <2>. QED  BY <1>1, <1>2, <2>1
<1>4. CASE s = call[c].session
  <2>1. born'[s] = Append(born[s], t) /\ born[s] \in Seq(Tasks)
    BY <1>0, <1>4 DEF Launches
  <2>2. /\ DOMAIN born[s] = 1..Len(born[s]) /\ DOMAIN born'[s] = 1..(Len(born[s]) + 1)
        /\ born'[s][Len(born[s]) + 1] = t /\ Len(born[s]) \in Nat
        /\ \A i \in DOMAIN born[s] : born'[s][i] = born[s][i]
    BY <2>1
  <2>3. \A i \in DOMAIN born[s] : i \in DOMAIN born'[s]
    BY <2>2
  <2>4. \A i \in DOMAIN born'[s] : i \in DOMAIN born[s] \/ i = Len(born[s]) + 1
    BY <2>2
  <2>. QED  BY <1>1, <1>2, <1>4, <2>2, <2>3, <2>4
<1>. QED  BY <1>3, <1>4

(* A task that created_at does not tell from the next one stays so.        *)
LEMMA FollowedStays ==
  ASSUME Typed, [Next]_vars, NEW t \in Tasks, Followed(t)
  PROVE  Followed(t)'
<1>1. PICK s \in Sessions : \E i, j \in DOMAIN born[s] :
        j = i + 1 /\ born[s][i] = t /\ born[s][j] \in tied
  BY DEF Followed
<1>2. PICK i \in DOMAIN born[s], j \in DOMAIN born[s] :
        j = i + 1 /\ born[s][i] = t /\ born[s][j] \in tied
  BY <1>1
<1>3. CASE \E c \in Callers, u \in Tasks : Launches(c, u)
  <2>1. PICK c \in Callers, u \in Tasks : Launches(c, u)
    BY <1>3
  <2>2. /\ i \in DOMAIN born'[s] /\ born'[s][i] = t
        /\ j \in DOMAIN born'[s] /\ born'[s][j] = born[s][j]
    BY <1>2, <2>1, LaunchBears
  <2>3. tied \subseteq tied'
    BY <2>1 DEF Launches
  <2>. QED  BY <1>2, <2>2, <2>3 DEF Followed
<1>4. CASE ~\E c \in Callers, u \in Tasks : Launches(c, u)
  <2>1. UNCHANGED <<born, tied>>
    BY <1>4, OnlyLaunchesBear
  <2>. QED  BY <1>2, <2>1 DEF Followed
<1>. QED  BY <1>3, <1>4

(* What a step that launches nothing does not touch keeps its marks.       *)
LEMMA MarksKept ==
  ASSUME Typed, Marked, [Next]_vars, \A t \in Tasks : child'[t].by = child[t].by
  PROVE  /\ \A t \in Tasks, r \in Rows : TrueMark(t, r) => TrueMark(t, r)'
         /\ UNCHANGED row => RowsMarked'
         /\ (\A t \in Tasks : child'[t].at = child[t].at /\ child'[t].copy = child[t].copy)
              => ChildrenMarked'
         /\ UNCHANGED stop => StopsMarked'
         /\ UNCHANGED detach => DetachesMarked'
         /\ UNCHANGED call => CallMarked'
         /\ UNCHANGED <<call, born>> => CallIsNewest'
         /\ \A s \in Sessions, t \in Tasks :
              UNCHANGED born /\ NewerByWeb(s, t) => NewerByWeb(s, t)'
<1>1. \A t \in Tasks : /\ told[t] \in Nat /\ told'[t] \in Nat /\ told'[t] >= told[t]
                       /\ Followed(t) => Followed(t)'
  BY ToldGrows, FollowedStays
<1>2. \A t \in Tasks, r \in Rows : TrueMark(t, r) => TrueMark(t, r)'
  BY <1>1 DEF TrueMark
<1>3. Types /\ Refers
  BY DEF Typed
<1>4. UNCHANGED row => RowsMarked'
  BY <1>1 DEF Marked, RowsMarked, TrueMark, Started
<1>5. (\A t \in Tasks : child'[t].at = child[t].at /\ child'[t].copy = child[t].copy)
        => ChildrenMarked'
  BY <1>1 DEF Marked, ChildrenMarked, TrueMark
<1>6. UNCHANGED stop => StopsMarked'
  BY <1>1 DEF Marked, StopsMarked, TrueMark
<1>7. UNCHANGED detach => DetachesMarked'
  BY <1>1, <1>3 DEF Marked, DetachesMarked, TrueMark, Refers, DetachesRefer
<1>8. UNCHANGED call => CallMarked'
  BY <1>1, <1>3 DEF Marked, CallMarked, TrueMark, Refers, CallsRefer, Callers
<1>9. \A s \in Sessions, t \in Tasks : UNCHANGED born /\ NewerByWeb(s, t) => NewerByWeb(s, t)'
  BY <1>3 DEF NewerByWeb, Refers, BornStarted
<1>10. UNCHANGED <<call, born>> => CallIsNewest'
  BY <1>3, <1>9 DEF Marked, CallIsNewest, Refers, CallsRefer, Callers, Types, CallsTyped, CallRecords
<1>. QED  BY <1>2, <1>4, <1>5, <1>6, <1>7, <1>8, <1>9, <1>10

(* The query for the newest task finds the tool's own, unless the web page *)
(* launched another or created_at does not tell the tasks apart.           *)
LEMMA NewestIsOwn ==
  ASSUME Typed, NEW s \in Sessions, NEW own \in Tasks, NewerByWeb(s, own), NEW n \in Newest(s)
  PROVE  /\ child[n].by = Tool => n = own \/ Followed(n)
         /\ n = own \/ own \in tied \/ \E i, j \in DOMAIN born[s] :
              i < j /\ born[s][i] = own /\ child[born[s][j]].by # Tool
<1>1. PICK i \in DOMAIN born[s] :
        born[s][i] = own /\ \A j \in DOMAIN born[s] : j > i => child[born[s][j]].by # Tool
  BY DEF NewerByWeb
<1>2. PICK k \in DOMAIN born[s] :
        born[s][k] = n /\ \A j \in DOMAIN born[s] : j > k => born[s][j] \in tied
  BY DEF Newest
<1>3. DOMAIN born[s] = 1..Len(born[s]) /\ Len(born[s]) \in Nat
  BY DEF Typed, Types, BornTyped
<1>4. CASE k = i
  BY <1>1, <1>2, <1>4
<1>5. CASE k > i
  BY <1>1, <1>2, <1>3, <1>5
<1>6. CASE k < i
  <2>1. k + 1 \in DOMAIN born[s] /\ k + 1 > k /\ i > k
    BY <1>3, <1>6
  <2>. QED  BY <1>1, <1>2, <2>1 DEF Followed
<1>. QED  BY <1>3, <1>4, <1>5, <1>6

LEMMA RowMarksStep ==
  ASSUME Typed, Marked, [Next]_vars, \A t \in Tasks : child'[t].by = child[t].by,
         \A c \in Callers, t \in Tasks : ~Launches(c, t)
  PROVE  RowsMarked'
<1>0. Types /\ Refers /\ RowsTyped /\ RowsMarked
  BY DEF Typed, Types, Marked
<1>1. \A t \in Tasks : /\ told[t] \in Nat /\ told'[t] \in Nat /\ told'[t] >= told[t]
                       /\ Followed(t) => Followed(t)'
  BY ToldGrows, FollowedStays
<1>2. ASSUME NEW t \in Tasks, NEW copy \in Rows, NEW status \in Statuses, Started(t),
             TrueMark(t, copy), WriteBack(t, copy, status)
      PROVE  RowsMarked'
  <2>1. \A u \in Tasks \ {t} : row'[u] = row[u]
    BY <1>0, <1>2 DEF WriteBack, RowsTyped
  <2>2. row'[t].told = copy.told
    BY <1>0, <1>2 DEF WriteBack, RowsTyped, Rows
  <2>3. Started(t)'
    BY <1>2, StartedStays
  <2>. QED  BY <1>0, <1>1, <1>2, <2>1, <2>2, <2>3 DEF RowsMarked, TrueMark, Started
<1>3. ASSUME NEW t \in Tasks, Started(t), row' = [row EXCEPT ![t].told = TRUE],
             child[t].by = Tool => told'[t] > 0 \/ Followed(t)
      PROVE  RowsMarked'
  <2>1. \A u \in Tasks \ {t} : row'[u] = row[u]
    BY <1>0, <1>3 DEF RowsTyped
  <2>2. Started(t)'
    BY <1>3, StartedStays
  <2>. QED  BY <1>0, <1>1, <1>3, <2>1, <2>2 DEF RowsMarked, TrueMark, Started
<1>4. UNCHANGED row => RowsMarked'
  BY MarksKept
<1>5. ASSUME NEW t \in Tasks, ChildCounts(t) PROVE RowsMarked'
  <2>1. child[t].copy \in Rows /\ child[t].copy.status \in Statuses
    BY <1>0, StatusTyped DEF Types, ChildrenTyped, ChildRecords
  <2>2. Started(t) /\ TrueMark(t, child[t].copy)
    BY <1>0, <1>5 DEF ChildCounts, Refers, ChildrenRefer, Marked, ChildrenMarked
  <2>. QED  BY <1>2, <1>5, <2>1, <2>2 DEF ChildCounts
<1>6. ASSUME NEW t \in Tasks, ChildWritesEnd(t) PROVE RowsMarked'
  <2>1. child[t].copy \in Rows /\ child[t].outcome \in Statuses
    BY <1>0, StatusTyped DEF Types, ChildrenTyped, ChildRecords
  <2>2. Started(t) /\ TrueMark(t, child[t].copy)
    BY <1>0, <1>6 DEF ChildWritesEnd, Refers, ChildrenRefer, Marked, ChildrenMarked
  <2>. QED  BY <1>2, <1>6, <2>1, <2>2 DEF ChildWritesEnd
<1>7. ASSUME NEW t \in Tasks, ChildDropped(t) PROVE RowsMarked'
  <2>1. child[t].copy \in Rows
    BY <1>0 DEF Types, ChildrenTyped, ChildRecords
  <2>2. Started(t) /\ TrueMark(t, child[t].copy)
    BY <1>0, <1>7 DEF ChildDropped, Refers, ChildrenRefer, Marked, ChildrenMarked
  <2>. QED  BY <1>2, <1>7, <2>1, <2>2, StatusTyped DEF ChildDropped
<1>8. CASE WaitReceives
  <2> DEFINE s == call[Tool].session
             own == call[Tool].task
  <2>1. s \in Sessions /\ own \in Tasks /\ born[s] # <<>> /\ NewerByWeb(s, own)
    BY <1>0, <1>8 DEF WaitReceives, Refers, CallsRefer, Callers, Marked, CallIsNewest
  <2>2. PICK n \in Newest(s) : UNCHANGED row \/ row' = [row EXCEPT ![n].told = TRUE]
    BY <1>8 DEF WaitReceives
  <2>3. n \in Tasks /\ Started(n)
    BY NewestTyped, <2>1
  <2>4. told'[own] = told[own] + 1
    BY <1>0, <1>8, <2>1 DEF WaitReceives, Types, HistoryTyped
  <2>5. child[n].by = Tool => n = own \/ Followed(n)
    BY <2>1, NewestIsOwn
  <2>6. child[n].by = Tool => told'[n] > 0 \/ Followed(n)
    BY <1>1, <2>1, <2>4, <2>5
  <2>. QED  BY <1>3, <1>4, <2>2, <2>3, <2>6
<1>9. CASE TimeoutReturns
  <2>1. /\ call[Tool].copy \in Rows /\ call[Tool].copy.status \in Statuses
        /\ call[Tool].marks \in Tasks /\ Started(call[Tool].marks)
    BY <1>0, <1>9, StatusTyped
    DEF TimeoutReturns, Types, CallsTyped, CallRecords, Refers, CallsRefer, Callers
  <2>2. TrueMark(call[Tool].marks, call[Tool].copy)
    BY <1>9 DEF TimeoutReturns, Marked, CallMarked
  <2>. QED  BY <1>2, <1>4, <1>9, <2>1, <2>2 DEF TimeoutReturns
<1>10. ASSUME NEW s \in Sessions, DetachWritesRow(s) PROVE RowsMarked'
  <2>1. /\ detach[s].copy \in Rows /\ detach[s].copy.status \in Statuses
        /\ detach[s].marks \in Tasks /\ Started(detach[s].marks)
    BY <1>0, <1>10, StatusTyped
    DEF DetachWritesRow, Types, RequestsTyped, DetachRecords, Refers, DetachesRefer
  <2>2. TrueMark(detach[s].marks, detach[s].copy)
    BY <1>10 DEF DetachWritesRow, Marked, DetachesMarked
  <2>. QED  BY <1>2, <1>4, <1>10, <2>1, <2>2 DEF DetachWritesRow
<1>11. ASSUME NEW t \in Tasks, StopWritesRow(t) PROVE RowsMarked'
  <2>1. stop[t].copy \in Rows
    BY <1>0 DEF Types, RequestsTyped, StopRecords
  <2>2. Started(t) /\ TrueMark(t, stop[t].copy)
    BY <1>0, <1>11 DEF StopWritesRow, Refers, StopsRefer, Marked, StopsMarked
  <2>. QED  BY <1>2, <1>11, <2>1, <2>2, StatusTyped DEF StopWritesRow
<1>12. ASSUME NEW t \in Tasks, Merges(t) PROVE RowsMarked'
  <2>1. told'[t] > 0
    BY <1>0, <1>1, <1>12 DEF Merges, Types, HistoryTyped
  <2>2. Started(t)
    BY <1>12 DEF Merges, Marked, MergesRefer
  <2>. QED  BY <1>3, <1>12, <2>1, <2>2 DEF Merges
<1>13. CASE CrashAndRestart
  <2>1. \A t \in Tasks : row'[t].told = row[t].told /\ (Started(t) => Started(t)')
    BY <1>0, <1>13, StartedStays DEF CrashAndRestart, Recovered, RowsTyped, Rows
  <2>. QED  BY <1>0, <1>1, <1>13, <2>1 DEF RowsMarked, TrueMark, Started, CrashAndRestart, Recovered
<1>14. ASSUME NEW t \in Tasks, ChildAborted(t) PROVE RowsMarked'
  BY <1>4, <1>14 DEF ChildAborted
<1>15. CASE \E t \in Tasks : Runs(t) \/ ChildFails(t)
  BY <1>4, <1>5, <1>6, <1>7, <1>14, <1>15
  DEF Runs, ChildFails, ChildReadsRow, ChildCompletes, ChildRetries, ChildCancelled,
      ChildReadsLast, ChildDelivers, Ends, ChildStep
<1>16. CASE Waits \/ WaitTimesOut
  BY <1>4, <1>8, <1>9, <1>16
  DEF Waits, WaitTimesOut, WaitBegins, TimeoutReadsRow, WaitSeesDetach, DetachReturns
<1>17. CASE TurnBegins \/ Turn \/ TurnCancelled
  BY <1>4, <1>12, <1>17
  DEF Turn, TurnBegins, TurnMerged, TurnEnds, TurnCancelled, WakeFindsNothing
<1>18. CASE UNCHANGED vars
  BY <1>4, <1>18 DEF vars
<1>. QED
  BY <1>4, <1>10, <1>11, <1>13, <1>15, <1>16, <1>17, <1>18
  DEF Next, SpawnBegins, ResumeChecks, Registers, DetachAsks, DetachReadsRow, StopBegins,
      StopReturns

(* TrueMark after the step, of a record before or after it.                *)
StillFollowed(t) ==
  \E s \in Sessions : \E i, j \in DOMAIN born'[s] :
    j = i + 1 /\ born'[s][i] = t /\ born'[s][j] \in tied'
StillTrue(t, r) == r.told /\ child'[t].by = Tool => told'[t] > 0 \/ StillFollowed(t)

LEMMA ChildMarksStep ==
  ASSUME Typed, Marked, [Next]_vars, \A t \in Tasks : child'[t].by = child[t].by,
         \A c \in Callers, t \in Tasks : ~Launches(c, t)
  PROVE  ChildrenMarked'
<1>0. Types /\ ChildrenTyped /\ ChildrenMarked /\ RowsMarked /\ row \in [Tasks -> Rows]
  BY DEF Typed, Types, Marked, RowsTyped
<1>1. \A t \in Tasks, r \in Rows : TrueMark(t, r) => StillTrue(t, r)
  BY MarksKept DEF TrueMark, StillTrue, Followed, StillFollowed
<1>2. \A t \in Tasks : child[t].copy \in Rows
  BY <1>0 DEF ChildrenTyped, ChildRecords
<1>3. UNCHANGED child => ChildrenMarked'
  BY MarksKept
<1>4. ASSUME NEW t \in Tasks, NEW r, child' = [child EXCEPT ![t] = r],
             r.at \notin {"counting", "writing", "dropping"} \/ r.copy = row[t]
      PROVE  ChildrenMarked'
  <2>1. ASSUME NEW u \in Tasks, child'[u].at \in {"counting", "writing", "dropping"}
        PROVE  StillTrue(u, child'[u].copy)
    <3>1. CASE u = t
      <4>1. child'[u].copy = row[t] /\ StillTrue(t, row[t])
        BY <1>0, <1>1, <1>4, <2>1, <3>1 DEF ChildrenTyped, RowsMarked
      <4>. QED  BY <3>1, <4>1
    <3>2. CASE u # t
      <4>1. child'[u] = child[u]
        BY <1>0, <1>4, <3>2 DEF ChildrenTyped
      <4>2. StillTrue(u, child[u].copy)
        BY <1>0, <1>1, <1>2, <2>1, <4>1 DEF ChildrenMarked
      <4>. QED  BY <4>1, <4>2
    <3>. QED  BY <3>1, <3>2
  <2>. QED  BY <2>1 DEF ChildrenMarked, TrueMark, StillTrue, Followed, StillFollowed
<1>5. ASSUME NEW t \in Tasks, NEW awake, Leave(t, Sent(t), awake) PROVE ChildrenMarked'
  <2>1. [NoChild EXCEPT !.at = "gone", !.by = child[t].by, !.woke = awake].at = "gone"
    BY DEF NoChild
  <2>. QED  BY <1>4, <1>5, <2>1 DEF Leave
<1>6. ASSUME NEW t \in Tasks, ChildAborted(t) PROVE ChildrenMarked'
  <2>1. CASE child' = [child EXCEPT ![t] = [@ EXCEPT !.at = "dropping", !.copy = row[t]]]
    <3>1. [child[t] EXCEPT !.at = "dropping", !.copy = row[t]].copy = row[t]
      BY <1>0 DEF ChildrenTyped, ChildRecords
    <3>. QED  BY <1>4, <2>1, <3>1
  <2>. QED  BY <1>5, <1>6, <2>1 DEF ChildAborted
<1>7. ASSUME NEW t \in Tasks, ChildReadsRow(t) \/ ChildReadsLast(t) PROVE ChildrenMarked'
  <2>1. PICK at : child' = [child EXCEPT ![t] = [@ EXCEPT !.at = at, !.copy = row[t]]]
    BY <1>7 DEF ChildReadsRow, ChildReadsLast
  <2>2. [child[t] EXCEPT !.at = at, !.copy = row[t]].copy = row[t]
    BY <1>0 DEF ChildrenTyped, ChildRecords
  <2>. QED  BY <1>4, <2>1, <2>2
<1>8. ASSUME NEW t \in Tasks, ChildCounts(t) \/ ChildWritesEnd(t) PROVE ChildrenMarked'
  <2>1. PICK at \in {"working", "delivering"} :
          child' = [child EXCEPT ![t] = [@ EXCEPT !.at = at, !.copy = NoRow]]
    BY <1>8 DEF ChildCounts, ChildWritesEnd
  <2>2. [child[t] EXCEPT !.at = at, !.copy = NoRow].at = at
    BY <1>0 DEF ChildrenTyped, ChildRecords
  <2>. QED  BY <1>4, <2>1, <2>2
<1>9. ASSUME NEW t \in Tasks, NEW outcome, Ends(t, outcome) PROVE ChildrenMarked'
  <2>1. [child[t] EXCEPT !.at = "ending", !.outcome = outcome].at = "ending"
    BY <1>0 DEF ChildrenTyped, ChildRecords
  <2>. QED  BY <1>4, <1>9, <2>1 DEF Ends
<1>10. ASSUME NEW t \in Tasks, ChildRetries(t) PROVE ChildrenMarked'
  <2>1. /\ [child[t] EXCEPT !.at = "working"].at = "working"
        /\ child' = [child EXCEPT ![t] = [child[t] EXCEPT !.at = "working"]]
    BY <1>0, <1>10 DEF ChildRetries, ChildStep, ChildrenTyped, ChildRecords
  <2>. QED  BY <1>4, <2>1
<1>11. ASSUME NEW t \in Tasks, ChildFails(t) PROVE ChildrenMarked'
  <2>1. CASE child' = [child EXCEPT ![t] = [@ EXCEPT !.at = "backoff",
                                            !.retries = child[t].retries + 1]]
    <3>1. [child[t] EXCEPT !.at = "backoff", !.retries = child[t].retries + 1].at = "backoff"
      BY <1>0 DEF ChildrenTyped, ChildRecords
    <3>. QED  BY <1>4, <2>1, <3>1
  <2>. QED  BY <1>9, <1>11, <2>1 DEF ChildFails
<1>12. CASE CrashAndRestart
  <2>1. \A t \in Tasks : child'[t].at \in {"none", "gone"}
    BY <1>12 DEF CrashAndRestart, Alive, NoChild
  <2>. QED  BY <2>1 DEF ChildrenMarked
<1>13. CASE \E t \in Tasks : Runs(t)
  BY <1>5, <1>6, <1>7, <1>8, <1>9, <1>10, <1>13
  DEF Runs, ChildCompletes, ChildCancelled, ChildDelivers, ChildDropped
<1>14. CASE Waits \/ WaitTimesOut
  BY <1>3, <1>14
  DEF Waits, WaitTimesOut, WaitBegins, WaitReceives, TimeoutReadsRow, TimeoutReturns,
      WaitSeesDetach, DetachReturns
<1>15. CASE TurnBegins \/ Turn \/ TurnCancelled
  BY <1>3, <1>15
  DEF Turn, TurnBegins, TurnMerged, TurnEnds, TurnCancelled, WakeFindsNothing, Merges
<1>16. CASE UNCHANGED vars
  BY <1>3, <1>16 DEF vars, memory
<1>. QED
  BY <1>3, <1>11, <1>12, <1>13, <1>14, <1>15, <1>16
  DEF Next, SpawnBegins, ResumeChecks, Registers, DetachAsks, DetachReadsRow,
      DetachWritesRow, StopBegins, StopWritesRow, StopReturns

LEMMA RequestMarksStep ==
  ASSUME Typed, Marked, [Next]_vars, \A t \in Tasks : child'[t].by = child[t].by,
         \A c \in Callers, t \in Tasks : ~Launches(c, t)
  PROVE  StopsMarked' /\ DetachesMarked' /\ MergesRefer'
<1>0. /\ Types /\ Refers /\ RequestsTyped /\ RowsMarked /\ StopsMarked /\ DetachesMarked
      /\ MergesRefer /\ row \in [Tasks -> Rows] /\ ParentTyped
  BY DEF Typed, Types, Marked, RowsTyped
<1>1. \A t \in Tasks, r \in Rows : TrueMark(t, r) => StillTrue(t, r)
  BY MarksKept DEF TrueMark, StillTrue, Followed, StillFollowed
<1>2. ASSUME \A t \in Tasks : stop'[t].at = "read" => stop'[t] = stop[t] \/ stop'[t].copy = row[t]
      PROVE  StopsMarked'
  <2>1. ASSUME NEW t \in Tasks, stop'[t].at = "read" PROVE StillTrue(t, stop'[t].copy)
    <3>1. CASE stop'[t] = stop[t]
      <4>1. stop[t].copy \in Rows /\ TrueMark(t, stop[t].copy)
        BY <1>0, <2>1, <3>1 DEF RequestsTyped, StopRecords, StopsMarked
      <4>2. StillTrue(t, stop[t].copy)
        BY <1>1, <4>1
      <4>. QED  BY <3>1, <4>2
    <3>2. CASE stop'[t].copy = row[t]
      <4>1. row[t] \in Rows /\ TrueMark(t, row[t])
        BY <1>0 DEF RowsMarked
      <4>. QED  BY <1>1, <3>2, <4>1
    <3>. QED  BY <1>2, <2>1, <3>1, <3>2
  <2>. QED  BY <2>1 DEF StopsMarked, TrueMark, StillTrue, Followed, StillFollowed
<1>3. ASSUME \A s \in Sessions :
               detach'[s].at = "marking" =>
                 \/ detach'[s] = detach[s]
                 \/ /\ detach'[s].marks \in Tasks
                    /\ detach'[s].copy = row[detach'[s].marks]
      PROVE  DetachesMarked'
  <2>1. ASSUME NEW s \in Sessions, detach'[s].at = "marking"
        PROVE  StillTrue(detach'[s].marks, detach'[s].copy)
    <3>1. CASE detach'[s] = detach[s]
      <4>1. /\ detach[s].copy \in Rows /\ detach[s].marks \in Tasks
            /\ TrueMark(detach[s].marks, detach[s].copy)
        BY <1>0, <2>1, <3>1 DEF RequestsTyped, DetachRecords, DetachesMarked, Refers, DetachesRefer
      <4>. QED  BY <1>1, <3>1, <4>1
    <3>2. CASE detach'[s].marks \in Tasks /\ detach'[s].copy = row[detach'[s].marks]
      <4>1. PICK n \in Tasks : n = detach'[s].marks
        BY <3>2
      <4>2. row[n] \in Rows /\ TrueMark(n, row[n])
        BY <1>0 DEF RowsMarked
      <4>. QED  BY <1>1, <3>2, <4>1, <4>2
    <3>. QED  BY <1>3, <2>1, <3>1, <3>2
  <2>. QED  BY <2>1 DEF DetachesMarked, TrueMark, StillTrue, Followed, StillFollowed
<1>4. ASSUME \A t \in parent'.merging : t \in parent.merging \/ Started(t)
      PROVE  MergesRefer'
  BY <1>0, <1>4, StartedStays, TypeStep DEF MergesRefer, Typed, Types, ParentTyped, ParentRecords
<1>5. UNCHANGED <<stop, detach, parent>> => StopsMarked' /\ DetachesMarked' /\ MergesRefer'
  BY <1>2, <1>3, <1>4
<1>6. ASSUME NEW s \in Sessions, DetachAsks(s) \/ DetachReadsRow(s) \/ DetachWritesRow(s)
      PROVE  StopsMarked' /\ DetachesMarked' /\ MergesRefer'
  <2>1. CASE DetachReadsRow(s)
    <3>1. PICK n \in Newest(s) :
            detach' = [detach EXCEPT ![s] = [at |-> "marking", marks |-> n, copy |-> row[n]]]
      BY <2>1 DEF DetachReadsRow
    <3>2. n \in Tasks
      BY <3>1, NewestTyped
    <3>3. UNCHANGED <<stop, parent>>
      BY <2>1 DEF DetachReadsRow
    <3>. QED  BY <1>0, <1>2, <1>3, <1>4, <3>1, <3>2, <3>3 DEF RequestsTyped
  <2>2. CASE DetachAsks(s)
    BY <1>0, <1>2, <1>3, <1>4, <2>2 DEF DetachAsks, RequestsTyped, DetachRecords
  <2>3. CASE DetachWritesRow(s)
    BY <1>0, <1>2, <1>3, <1>4, <2>3 DEF DetachWritesRow, RequestsTyped, NoDetach
  <2>. QED  BY <1>6, <2>1, <2>2, <2>3
<1>7. ASSUME NEW t \in Tasks, StopBegins(t) \/ StopWritesRow(t) \/ StopReturns(t)
      PROVE  StopsMarked' /\ DetachesMarked' /\ MergesRefer'
  BY <1>0, <1>2, <1>3, <1>4, <1>7
  DEF StopBegins, StopWritesRow, StopReturns, RequestsTyped, StopRecords, NoStop
<1>8. CASE TurnBegins \/ Turn \/ TurnCancelled
  BY <1>0, <1>2, <1>3, <1>4, <1>8
  DEF Turn, TurnBegins, TurnMerged, TurnEnds, TurnCancelled, WakeFindsNothing, Merges, requests,
      ParentTyped, ParentRecords, Unannounced, Terminal, Outcomes, Started
<1>9. CASE CrashAndRestart
  BY <1>2, <1>3, <1>4, <1>9 DEF CrashAndRestart, NoStop, NoDetach
<1>10. CASE \E t \in Tasks : Runs(t) \/ ChildFails(t)
  BY <1>5, <1>10
  DEF Runs, ChildFails, ChildReadsRow, ChildCounts, ChildCompletes, ChildRetries,
      ChildCancelled, ChildReadsLast, ChildWritesEnd, ChildDelivers, ChildAborted,
      ChildDropped, Ends, ChildStep, Leave, requests
<1>11. CASE Waits \/ WaitTimesOut
  BY <1>5, <1>11
  DEF Waits, WaitTimesOut, WaitBegins, WaitReceives, TimeoutReadsRow, TimeoutReturns,
      WaitSeesDetach, DetachReturns, requests
<1>12. CASE UNCHANGED vars
  BY <1>5, <1>12 DEF vars, memory, requests
<1>. QED
  BY <1>5, <1>6, <1>7, <1>8, <1>9, <1>10, <1>11, <1>12
  DEF Next, SpawnBegins, ResumeChecks, Registers, requests

LEMMA CallMarksStep ==
  ASSUME Typed, Marked, [Next]_vars, \A t \in Tasks : child'[t].by = child[t].by,
         \A c \in Callers, t \in Tasks : ~Launches(c, t)
  PROVE  CallMarked' /\ CallIsNewest'
<1>0. /\ Types /\ Refers /\ CallsTyped /\ RowsMarked /\ row \in [Tasks -> Rows] /\ Tool \in Callers
      /\ CallMarked /\ CallIsNewest /\ call' \in [Callers -> CallRecords]
  BY TypeStep DEF Typed, Types, Marked, RowsTyped, Callers, CallsTyped
<1>1. \A t \in Tasks, r \in Rows : TrueMark(t, r) => StillTrue(t, r)
  BY MarksKept DEF TrueMark, StillTrue, Followed, StillFollowed
<1>2. UNCHANGED <<call, born>> => CallMarked' /\ CallIsNewest'
  BY MarksKept
<1>3. ASSUME call'[Tool].at \in {"none", "checked"} PROVE CallMarked' /\ CallIsNewest'
  BY <1>3 DEF CallMarked, CallIsNewest
<1>4. ASSUME UNCHANGED born, call[Tool].at \notin {"none", "checked"},
             call'[Tool].session = call[Tool].session, call'[Tool].task = call[Tool].task
      PROVE  CallIsNewest'
  <2>1. PICK s \in Sessions, t \in Tasks : s = call[Tool].session /\ t = call[Tool].task
    BY <1>0, <1>4 DEF Refers, CallsRefer
  <2>2. NewerByWeb(s, t)'
    BY <1>0, <1>4, <2>1, MarksKept DEF CallIsNewest
  <2>. QED  BY <1>4, <2>1, <2>2 DEF CallIsNewest, NewerByWeb
<1>5. ASSUME UNCHANGED born, call'[Tool] = call[Tool] PROVE CallMarked' /\ CallIsNewest'
  <2>1. CASE call[Tool].at \in {"none", "checked"}
    BY <1>3, <1>5, <2>1
  <2>2. CASE call[Tool].at \notin {"none", "checked"}
    <3>1. CallIsNewest'
      BY <1>4, <1>5, <2>2
    <3>2. CASE call[Tool].at = "marking"
      <4>1. PICK t \in Tasks, r \in Rows : t = call[Tool].marks /\ r = call[Tool].copy
        BY <1>0, <3>2 DEF Refers, CallsRefer, CallsTyped, CallRecords
      <4>2. StillTrue(t, r)
        BY <1>0, <1>1, <3>2, <4>1 DEF CallMarked
      <4>. QED  BY <1>5, <3>1, <4>1, <4>2 DEF CallMarked, TrueMark, StillTrue, Followed, StillFollowed
    <3>3. CASE call[Tool].at # "marking"
      BY <1>5, <3>1, <3>3 DEF CallMarked
    <3>. QED  BY <3>2, <3>3
  <2>. QED  BY <2>1, <2>2
<1>6. ASSUME NEW c \in Callers, NEW s \in Sessions, NEW b \in BOOLEAN,
             SpawnBegins(c, s, b) \/ ResumeChecks(c, s, b)
      PROVE  CallMarked' /\ CallIsNewest'
  <2>1. CASE c = Tool
    <3>1. call'[Tool].at = "checked"
      BY <1>0, <1>6, <2>1 DEF SpawnBegins, ResumeChecks, CallsTyped, NoCall
    <3>. QED  BY <1>3, <3>1
  <2>2. CASE c # Tool
    BY <1>0, <1>5, <1>6, <2>2 DEF SpawnBegins, ResumeChecks, CallsTyped
  <2>. QED  BY <2>1, <2>2
<1>7. ASSUME NEW c \in Callers, Registers(c) PROVE CallMarked' /\ CallIsNewest'
  <2>1. CASE c # Tool
    BY <1>0, <1>5, <1>7, <2>1 DEF Registers, CallsTyped
  <2>2. CASE c = Tool
    <3>1. call'[Tool] = [call[Tool] EXCEPT !.at = "open"] \/ call'[Tool] = NoCall
      BY <1>0, <1>7, <2>2 DEF Registers, CallsTyped
    <3>2. CASE call'[Tool] = NoCall
      BY <1>3, <3>2 DEF NoCall
    <3>3. CASE call'[Tool] = [call[Tool] EXCEPT !.at = "open"]
      <4>1. /\ call'[Tool].at = "open" /\ call'[Tool].session = call[Tool].session
            /\ call'[Tool].task = call[Tool].task
        BY <1>0, <3>3 DEF CallsTyped, CallRecords
      <4>2. call[Tool].at = "spawned" /\ UNCHANGED born
        BY <1>7, <2>2 DEF Registers
      <4>. QED  BY <1>4, <4>1, <4>2 DEF CallMarked
    <3>. QED  BY <3>1, <3>2, <3>3
  <2>. QED  BY <2>1, <2>2
<1>8. ASSUME WaitBegins \/ WaitTimesOut \/ WaitSeesDetach PROVE CallMarked' /\ CallIsNewest'
  <2>1. PICK at \in {"waiting", "timedOut", "leaving"} : call'[Tool] = [call[Tool] EXCEPT !.at = at]
    BY <1>0, <1>8 DEF WaitBegins, WaitTimesOut, WaitSeesDetach, CallsTyped
  <2>2. /\ call'[Tool].at = at /\ call'[Tool].session = call[Tool].session
        /\ call'[Tool].task = call[Tool].task
    BY <1>0, <2>1 DEF CallsTyped, CallRecords
  <2>3. call[Tool].at \in {"open", "waiting"} /\ UNCHANGED born
    BY <1>8 DEF WaitBegins, WaitTimesOut, WaitSeesDetach
  <2>. QED  BY <1>4, <2>1, <2>2, <2>3 DEF CallMarked
<1>9. CASE TimeoutReadsRow
  <2>1. PICK n \in Tasks :
          call' = [call EXCEPT ![Tool] = [@ EXCEPT !.at = "marking", !.marks = n, !.copy = row[n]]]
    BY <1>0, <1>9, NewestTyped DEF TimeoutReadsRow, Refers, CallsRefer
  <2>2. call'[Tool] = [call[Tool] EXCEPT !.at = "marking", !.marks = n, !.copy = row[n]]
    BY <1>0, <2>1 DEF CallsTyped
  <2>3. /\ call'[Tool].at = "marking" /\ call'[Tool].session = call[Tool].session
        /\ call'[Tool].task = call[Tool].task
        /\ call'[Tool].marks = n /\ call'[Tool].copy = row[n]
    BY <1>0, <2>2 DEF CallsTyped, CallRecords
  <2>4. CallIsNewest'
    BY <1>4, <1>9, <2>3 DEF TimeoutReadsRow
  <2>5. StillTrue(n, row[n])
    BY <1>0, <1>1 DEF RowsMarked
  <2>. QED  BY <2>3, <2>4, <2>5 DEF CallMarked, TrueMark, StillTrue, Followed, StillFollowed
<1>10. CASE WaitReceives \/ TimeoutReturns \/ DetachReturns \/ TurnCancelled \/ CrashAndRestart
  <2>1. call'[Tool] = NoCall
    BY <1>0, <1>10
    DEF WaitReceives, TimeoutReturns, DetachReturns, TurnCancelled, CrashAndRestart, CallsTyped
  <2>. QED  BY <1>3, <2>1 DEF NoCall
<1>11. CASE \E t \in Tasks : Runs(t) \/ ChildFails(t)
  BY <1>2, <1>11
  DEF Runs, ChildFails, ChildReadsRow, ChildCounts, ChildCompletes, ChildRetries,
      ChildCancelled, ChildReadsLast, ChildWritesEnd, ChildDelivers, ChildAborted,
      ChildDropped, Ends, ChildStep, Leave
<1>12. CASE TurnBegins \/ Turn
  BY <1>2, <1>12
  DEF Turn, TurnBegins, TurnMerged, TurnEnds, WakeFindsNothing, Merges
<1>13. CASE UNCHANGED vars
  BY <1>2, <1>13 DEF vars, memory
<1>14. CASE Waits \/ WaitTimesOut
  BY <1>8, <1>9, <1>10, <1>14 DEF Waits
<1>. QED
  BY <1>0, <1>2, <1>6, <1>7, <1>10, <1>11, <1>12, <1>13, <1>14
  DEF Next, DetachAsks, DetachReadsRow, DetachWritesRow, StopBegins, StopWritesRow, StopReturns

(* What is launched has no mark, and is the newest of its session.         *)
LEMMA LaunchMarks ==
  ASSUME Typed, Marked, [Next]_vars, NEW c \in Callers, NEW t \in Tasks, Launches(c, t)
  PROVE  Marked'
<1> DEFINE s == call[c].session
<1>0. /\ Types /\ Refers /\ RowsTyped /\ BornTyped /\ ChildrenTyped /\ CallsTyped /\ RequestsTyped
      /\ HistoryTyped /\ s \in Sessions /\ ~Started(t) /\ Tool \in Callers
      /\ ParentTyped
  BY DEF Typed, Types, Launches, Started, Refers, CallsRefer, Callers
<1>1. /\ \A u \in Tasks \ {t} : row'[u] = row[u] /\ child'[u] = child[u]
      /\ row'[t].told = row[t].told /\ row'[t].status = "running"
      /\ child'[t].at = "working" /\ child'[t].by = c
      /\ UNCHANGED <<stop, detach, told, parent>>
  BY <1>0 DEF Launches, RowsTyped, Rows, ChildrenTyped, ChildRecords, requests, history
<1>2. \A u \in Tasks : (Started(u) => u # t) /\ (Followed(u) => Followed(u)')
  BY <1>0, FollowedStays
<1>3. RowsMarked'
  BY <1>0, <1>1, <1>2 DEF Marked, RowsMarked, TrueMark, Started
<1>4. ChildrenMarked'
  BY <1>0, <1>1, <1>2 DEF Marked, ChildrenMarked, TrueMark
<1>5. StopsMarked'
  BY <1>0, <1>1, <1>2 DEF Marked, StopsMarked, TrueMark, Refers, StopsRefer
<1>6. DetachesMarked'
  BY <1>0, <1>1, <1>2 DEF Marked, DetachesMarked, TrueMark, Refers, DetachesRefer
<1>7. MergesRefer'
  BY <1>0, <1>1, StartedStays DEF Marked, MergesRefer, ParentTyped, ParentRecords
<1>8. /\ call'[c].at = "spawned" /\ call'[c].session = s /\ call'[c].task = t
      /\ \A d \in Callers \ {c} : call'[d] = call[d]
  BY <1>0 DEF Launches, CallsTyped, CallRecords
<1>9. CallMarked'
  <2>1. CASE c = Tool
    BY <1>8, <2>1 DEF CallMarked
  <2>2. CASE c # Tool
    BY <1>0, <1>1, <1>2, <1>8, <2>2 DEF Marked, CallMarked, TrueMark, Refers, CallsRefer
  <2>. QED  BY <2>1, <2>2
<1>10. /\ born[s] \in Seq(Tasks) /\ born'[s] = Append(born[s], t)
       /\ \A z \in Sessions \ {s} : born'[z] = born[z]
  BY <1>0 DEF Launches, BornTyped
<1>11. \A z \in Sessions : \A i \in DOMAIN born[z] : born[z][i] \in Tasks /\ born[z][i] # t
  BY <1>0 DEF Refers, BornStarted
<1>12. /\ Len(born'[s]) = Len(born[s]) + 1 /\ born'[s][Len(born[s]) + 1] = t
       /\ DOMAIN born'[s] = 1..(Len(born[s]) + 1)
       /\ DOMAIN born[s] = 1..Len(born[s]) /\ Len(born[s]) \in Nat
       /\ \A i \in DOMAIN born[s] : born'[s][i] = born[s][i]
  BY <1>10
<1>13. CallIsNewest'
  <2>1. CASE c = Tool
    <3>1. \E i \in DOMAIN born'[s] :
            born'[s][i] = t /\ \A j \in DOMAIN born'[s] : j > i => child'[born'[s][j]].by # Tool
      <4>1. \A j \in DOMAIN born'[s] : ~(j > Len(born[s]) + 1)
        BY <1>12
      <4>2. Len(born[s]) + 1 \in DOMAIN born'[s]
        BY <1>12
      <4>3. born'[s][Len(born[s]) + 1] = t
        BY <1>12
      <4>. QED  BY <4>1, <4>2, <4>3
    <3>. QED  BY <1>8, <2>1, <3>1 DEF CallIsNewest, NewerByWeb
  <2>2. CASE c # Tool
    <3>1. CASE call[Tool].at \in {"none", "checked"}
      BY <1>0, <1>8, <2>2, <3>1 DEF CallIsNewest
    <3>2. CASE call[Tool].at \notin {"none", "checked"}
      <4>1. PICK z \in Sessions, u \in Tasks : z = call[Tool].session /\ u = call[Tool].task
        BY <1>0, <3>2 DEF Refers, CallsRefer
      <4>2. PICK i \in DOMAIN born[z] :
              born[z][i] = u /\ \A j \in DOMAIN born[z] : j > i => child[born[z][j]].by # Tool
        BY <3>2, <4>1 DEF Marked, CallIsNewest, NewerByWeb
      <4>3. NewerByWeb(z, u)'
        <5>1. CASE z # s
          BY <1>1, <1>10, <1>11, <4>2, <5>1 DEF NewerByWeb
        <5>2. CASE z = s
          <6>1. i \in DOMAIN born'[s] /\ born'[s][i] = u
            BY <1>12, <4>2, <5>2
          <6>2. ASSUME NEW j \in DOMAIN born'[s], j > i PROVE child'[born'[s][j]].by # Tool
            <7>1. CASE j = Len(born[s]) + 1
              BY <1>1, <1>12, <2>2, <7>1
            <7>2. CASE j # Len(born[s]) + 1
              <8>1. j \in DOMAIN born[s] /\ born'[s][j] = born[s][j]
                BY <1>12, <7>2
              <8>2. child[born[s][j]].by # Tool
                BY <4>2, <5>2, <6>2, <8>1
              <8>3. born[s][j] \in Tasks \ {t}
                BY <1>0, <1>11, <8>1
              <8>4. child'[born[s][j]] = child[born[s][j]]
                BY <1>1, <8>3
              <8>. QED  BY <8>1, <8>2, <8>4
            <7>. QED  BY <7>1, <7>2
          <6>. QED  BY <5>2, <6>1, <6>2 DEF NewerByWeb
        <5>. QED  BY <5>1, <5>2
      <4>4. call'[Tool] = call[Tool]
        BY <1>0, <1>8, <2>2
      <4>. QED  BY <4>1, <4>3, <4>4 DEF CallIsNewest, NewerByWeb
    <3>. QED  BY <3>1, <3>2
  <2>. QED  BY <2>1, <2>2
<1>. QED  BY <1>3, <1>4, <1>5, <1>6, <1>7, <1>9, <1>13 DEF Marked

LEMMA MarksStep == Typed /\ Marked /\ [Next]_vars => Marked'
<1> SUFFICES ASSUME Typed, Marked, [Next]_vars PROVE Marked'
  OBVIOUS
<1>1. CASE \E c \in Callers, t \in Tasks : Launches(c, t)
  BY <1>1, LaunchMarks
<1>2. CASE \A c \in Callers, t \in Tasks : ~Launches(c, t)
  <2>1. \A t \in Tasks : child'[t].by = child[t].by
    BY <1>2, ToldGrows
  <2>. QED
    BY <1>2, <2>1, RowMarksStep, ChildMarksStep, RequestMarksStep, CallMarksStep DEF Marked
<1>. QED  BY <1>1, <1>2

LEMMA MarksInit == Init => Marked
BY DEF Init, Marked, RowsMarked, ChildrenMarked, StopsMarked, DetachesMarked, CallMarked,
   CallIsNewest, MergesRefer, TrueMark, NoRow, NoChild, NoStop, NoDetach, NoCall, Callers

-----------------------------------------------------------------------------
(* An outcome is told once: what is marked stays marked, the tool's call   *)
(* is of a task that nobody was told of, and the list of a turn's merge    *)
(* holds no task that was told. Resumed is ResumedByWeb, without the       *)
(* choice of the session; Unclear are the exceptions.                      *)
Resumed(t) ==
  \E s \in Sessions : \E i, j \in DOMAIN born[s] :
    i < j /\ born[s][i] = t /\ child[born[s][j]].by # Tool
TurnsFirst ==
  /\ call[Tool].at # "none" => parent.at = "busy"
  /\ parent.at # "merging" => parent.merging = {}
SentIsOver == \A t \in Tasks : chan[t] = "sent" => child[t].at = "gone"
OneSession ==
  \A s, z \in Sessions : \A i \in DOMAIN born[s], j \in DOMAIN born[z] :
    born[s][i] = born[z][j] => s = z
Untold ==
  /\ \A t \in Tasks : ~Started(t) => told[t] = 0
  /\ call[Tool].at \notin {"none", "checked"} => told[call[Tool].task] = 0
Unclear(t) == Resumed(t) \/ t \in tied
ListedUntold == \A t \in parent.merging \ overwritten : Unclear(t) \/ told[t] = 0
OnceTold ==
  \A t \in Tasks \ overwritten : Unclear(t) \/ told[t] = 0 \/ (told[t] = 1 /\ row[t].told)
Counted == TurnsFirst /\ SentIsOver /\ OneSession /\ Untold /\ ListedUntold /\ OnceTold

LEMMA CountedInit == Init => Counted
BY DEF Init, Counted, TurnsFirst, SentIsOver, OneSession, Untold, ListedUntold, OnceTold,
   Callers, NoCall

(* A mark goes away only under a copy that was read before.                *)
LEMMA MarksStay ==
  ASSUME Typed, [Next]_vars
  PROVE  /\ overwritten \subseteq overwritten'
         /\ \A t \in Tasks \ overwritten' : row[t].told => row'[t].told
<1> DEFINE Kept == /\ overwritten \subseteq overwritten'
                   /\ \A u \in Tasks \ overwritten' : row[u].told => row'[u].told
<1>0. Types /\ Refers /\ RowsTyped
  BY DEF Typed, Types
<1>1. ASSUME NEW t \in Tasks, NEW copy \in Rows, NEW status \in Statuses,
             WriteBack(t, copy, status)
      PROVE  Kept
  <2>1. /\ overwritten \subseteq overwritten'
        /\ \A u \in Tasks \ {t} : row'[u] = row[u]
        /\ t \notin overwritten' => row[t] = copy
    BY <1>0, <1>1, WriteBackKept
  <2>2. row'[t].told = copy.told
    BY <1>0, <1>1 DEF WriteBack, RowsTyped, Rows
  <2>. QED  BY <2>1, <2>2
<1>2. ASSUME NEW t \in Tasks, row' = [row EXCEPT ![t].told = TRUE], UNCHANGED overwritten
      PROVE  Kept
  BY <1>0, <1>2 DEF RowsTyped, Rows
<1>3. ASSUME UNCHANGED <<row, overwritten>> PROVE Kept
  BY <1>3
<1>4. ASSUME NEW c \in Callers, NEW t \in Tasks, Launches(c, t) PROVE Kept
  BY <1>0, <1>4 DEF Launches, RowsTyped, Rows, history
<1>5. ASSUME NEW t \in Tasks, ChildCounts(t) PROVE Kept
  <2>1. child[t].copy \in Rows /\ child[t].copy.status \in Statuses
    BY <1>0, StatusTyped DEF Types, ChildrenTyped, ChildRecords
  <2>. QED  BY <1>1, <1>5, <2>1 DEF ChildCounts
<1>6. ASSUME NEW t \in Tasks, ChildWritesEnd(t) PROVE Kept
  <2>1. child[t].copy \in Rows /\ child[t].outcome \in Statuses
    BY <1>0, StatusTyped DEF Types, ChildrenTyped, ChildRecords
  <2>. QED  BY <1>1, <1>6, <2>1 DEF ChildWritesEnd
<1>7. ASSUME NEW t \in Tasks, ChildDropped(t) PROVE Kept
  <2>1. child[t].copy \in Rows
    BY <1>0 DEF Types, ChildrenTyped, ChildRecords
  <2>. QED  BY <1>1, <1>7, <2>1, StatusTyped DEF ChildDropped
<1>8. CASE WaitReceives
  <2>1. \A n \in Newest(call[Tool].session) : n \in Tasks
    BY <1>0, <1>8, NewestTyped DEF WaitReceives, Typed, Refers, CallsRefer, Callers
  <2>. QED  BY <1>2, <1>3, <1>8, <2>1 DEF WaitReceives
<1>9. CASE TimeoutReturns
  <2>1. /\ call[Tool].copy \in Rows /\ call[Tool].copy.status \in Statuses
        /\ call[Tool].marks \in Tasks
    BY <1>0, <1>9, StatusTyped
    DEF TimeoutReturns, Types, CallsTyped, CallRecords, Refers, CallsRefer, Callers
  <2>. QED  BY <1>1, <1>3, <1>9, <2>1 DEF TimeoutReturns
<1>10. ASSUME NEW s \in Sessions, DetachWritesRow(s) PROVE Kept
  <2>1. /\ detach[s].copy \in Rows /\ detach[s].copy.status \in Statuses
        /\ detach[s].marks \in Tasks
    BY <1>0, <1>10, StatusTyped
    DEF DetachWritesRow, Types, RequestsTyped, DetachRecords, Refers, DetachesRefer
  <2>. QED  BY <1>1, <1>3, <1>10, <2>1 DEF DetachWritesRow
<1>11. ASSUME NEW t \in Tasks, StopWritesRow(t) PROVE Kept
  <2>1. stop[t].copy \in Rows
    BY <1>0 DEF Types, RequestsTyped, StopRecords
  <2>. QED  BY <1>1, <1>11, <2>1, StatusTyped DEF StopWritesRow
<1>12. ASSUME NEW t \in Tasks, Merges(t) PROVE Kept
  BY <1>2, <1>12 DEF Merges
<1>13. CASE CrashAndRestart
  BY <1>0, <1>13 DEF CrashAndRestart, Recovered, RowsTyped, Rows
<1>14. ASSUME NEW t \in Tasks, ChildAborted(t) PROVE Kept
  BY <1>3, <1>14 DEF ChildAborted
<1>15. CASE \E t \in Tasks : Runs(t) \/ ChildFails(t)
  BY <1>3, <1>5, <1>6, <1>7, <1>14, <1>15
  DEF Runs, ChildFails, ChildReadsRow, ChildCompletes, ChildRetries, ChildCancelled,
      ChildReadsLast, ChildDelivers, Ends, ChildStep, history
<1>16. CASE Waits \/ WaitTimesOut
  BY <1>3, <1>8, <1>9, <1>16
  DEF Waits, WaitTimesOut, WaitBegins, TimeoutReadsRow, WaitSeesDetach, DetachReturns, history
<1>17. CASE TurnBegins \/ Turn \/ TurnCancelled
  BY <1>3, <1>12, <1>17
  DEF Turn, TurnBegins, TurnMerged, TurnEnds, TurnCancelled, WakeFindsNothing, history
<1>18. CASE UNCHANGED vars
  BY <1>3, <1>18 DEF vars, history
<1>. QED
  BY <1>3, <1>4, <1>10, <1>11, <1>13, <1>15, <1>16, <1>17, <1>18
  DEF Next, SpawnBegins, ResumeChecks, Registers, DetachAsks, DetachReadsRow, StopBegins,
      StopReturns, history

(* A resume from the web page is not forgotten.                            *)
LEMMA ResumedStays ==
  ASSUME Typed, [Next]_vars, NEW t \in Tasks, Resumed(t)
  PROVE  Resumed(t)'
<1>1. PICK s \in Sessions : \E i, j \in DOMAIN born[s] :
        i < j /\ born[s][i] = t /\ child[born[s][j]].by # Tool
  BY DEF Resumed
<1>2. PICK i \in DOMAIN born[s], j \in DOMAIN born[s] :
        i < j /\ born[s][i] = t /\ child[born[s][j]].by # Tool
  BY <1>1
<1>3. born[s][j] \in Tasks
  BY DEF Typed, Refers, BornStarted
<1>4. CASE \E c \in Callers, u \in Tasks : Launches(c, u)
  <2>1. PICK c \in Callers, u \in Tasks : Launches(c, u)
    BY <1>4
  <2>2. /\ i \in DOMAIN born'[s] /\ born'[s][i] = t
        /\ j \in DOMAIN born'[s] /\ born'[s][j] = born[s][j]
        /\ child'[born'[s][j]] = child[born[s][j]]
    BY <1>2, <2>1, LaunchBears
  <2>. QED  BY <1>2, <2>2 DEF Resumed
<1>5. CASE ~\E c \in Callers, u \in Tasks : Launches(c, u)
  <2>1. UNCHANGED born /\ child'[born[s][j]].by = child[born[s][j]].by
    BY <1>3, <1>5, OnlyLaunchesBear, ToldGrows
  <2>. QED  BY <1>2, <2>1 DEF Resumed
<1>. QED  BY <1>4, <1>5

LEMMA UnclearStays ==
  ASSUME Typed, [Next]_vars, NEW t \in Tasks, Unclear(t)
  PROVE  Unclear(t)'
<1>1. tied \subseteq tied'
  BY OnlyLaunchesBear DEF Launches
<1>. QED  BY <1>1, ResumedStays DEF Unclear

LEMMA OneSessionStep == Typed /\ OneSession /\ [Next]_vars => OneSession'
<1> SUFFICES ASSUME Typed, OneSession, [Next]_vars PROVE OneSession'
  OBVIOUS
<1>1. CASE UNCHANGED born
  BY <1>1 DEF OneSession
<1>2. ASSUME NEW c \in Callers, NEW t \in Tasks, Launches(c, t) PROVE OneSession'
  <2>1. ASSUME NEW s \in Sessions, NEW z \in Sessions,
               NEW i \in DOMAIN born'[s], NEW j \in DOMAIN born'[z], born'[s][i] = born'[z][j]
        PROVE  s = z
    <3>1. CASE i \in DOMAIN born[s] /\ j \in DOMAIN born[z]
      BY <1>2, <2>1, <3>1, LaunchBears DEF OneSession
    <3>2. CASE i \notin DOMAIN born[s] /\ j \notin DOMAIN born[z]
      BY <1>2, <2>1, <3>2, LaunchBears
    <3>3. CASE i \in DOMAIN born[s] /\ j \notin DOMAIN born[z]
      <4>1. born'[s][i] # t /\ born'[z][j] = t
        BY <1>2, <3>3, LaunchBears
      <4>. QED  BY <2>1, <4>1
    <3>4. CASE i \notin DOMAIN born[s] /\ j \in DOMAIN born[z]
      <4>1. born'[z][j] # t /\ born'[s][i] = t
        BY <1>2, <3>4, LaunchBears
      <4>. QED  BY <2>1, <4>1
    <3>. QED  BY <3>1, <3>2, <3>3, <3>4
  <2>. QED  BY <2>1 DEF OneSession
<1>. QED  BY <1>1, <1>2, OnlyLaunchesBear

(* The tool has no call while the turn merges, which alone lists tasks.    *)
LEMMA TurnsFirstStep == Typed /\ TurnsFirst /\ [Next]_vars => TurnsFirst'
<1> SUFFICES ASSUME Typed, TurnsFirst, [Next]_vars PROVE TurnsFirst'
  OBVIOUS
<1>0. /\ call \in [Callers -> CallRecords] /\ Tool \in Callers /\ parent \in ParentRecords
      /\ NoCall.at = "none"
  BY NothingTyped DEF Typed, Types, CallsTyped, ParentTyped, Callers
<1>1. ASSUME UNCHANGED parent, call'[Tool] = call[Tool] \/ call'[Tool].at = "none"
                               \/ call[Tool].at # "none" \/ parent.at = "busy"
      PROVE  TurnsFirst'
  BY <1>1 DEF TurnsFirst
<1>2. ASSUME NEW s \in Sessions, NEW b \in BOOLEAN, SpawnBegins(Tool, s, b) PROVE TurnsFirst'
  BY <1>1, <1>2 DEF SpawnBegins, MayCall
<1>3. ASSUME NEW c \in Callers, NEW s \in Sessions, NEW b \in BOOLEAN, ResumeChecks(c, s, b)
      PROVE  TurnsFirst'
  BY <1>0, <1>1, <1>3 DEF ResumeChecks, MayCall
<1>4. ASSUME NEW c \in Callers, Registers(c) PROVE TurnsFirst'
  BY <1>0, <1>1, <1>4 DEF Registers
<1>5. ASSUME NEW c \in Callers, NEW t \in Tasks, Launches(c, t) PROVE TurnsFirst'
  BY <1>0, <1>1, <1>5 DEF Launches
<1>6. ASSUME NEW t \in Tasks, Runs(t) \/ ChildFails(t) PROVE TurnsFirst'
  BY <1>1, <1>6
  DEF Runs, ChildFails, ChildReadsRow, ChildCounts, ChildCompletes, ChildRetries,
      ChildCancelled, ChildReadsLast, ChildWritesEnd, ChildDelivers, ChildAborted,
      ChildDropped, Ends, ChildStep, Leave
<1>7. CASE Waits \/ WaitTimesOut
  BY <1>0, <1>1, <1>7
  DEF Waits, WaitTimesOut, WaitBegins, WaitReceives, TimeoutReadsRow, TimeoutReturns,
      WaitSeesDetach, DetachReturns
<1>8. CASE TurnBegins
  BY <1>0, <1>8 DEF TurnBegins, TurnsFirst
<1>9. ASSUME NEW t \in Tasks, Merges(t) PROVE TurnsFirst'
  BY <1>0, <1>9 DEF Merges, TurnsFirst, ParentRecords
<1>10. CASE TurnMerged \/ TurnEnds \/ TurnCancelled
  BY <1>0, <1>10 DEF TurnMerged, TurnEnds, TurnCancelled, TurnsFirst, ParentRecords
<1>11. CASE CrashAndRestart
  BY <1>0, <1>11 DEF CrashAndRestart, TurnsFirst
<1>12. CASE UNCHANGED vars
  BY <1>1, <1>12 DEF vars, memory
<1>. QED
  BY <1>1, <1>2, <1>3, <1>4, <1>5, <1>6, <1>7, <1>8, <1>9, <1>10, <1>11, <1>12
  DEF Next, Turn, WakeFindsNothing, DetachAsks, DetachReadsRow, DetachWritesRow, StopBegins,
      StopWritesRow, StopReturns

(* An outcome is sent by a run that is over, which stays over.             *)
LEMMA SentStep == Typed /\ SentIsOver /\ [Next]_vars => SentIsOver'
<1> SUFFICES ASSUME Typed, SentIsOver, [Next]_vars PROVE SentIsOver'
  OBVIOUS
<1>0. /\ chan \in [Tasks -> {"none", "open", "sent", "taken", "dropped"}]
      /\ child \in [Tasks -> ChildRecords] /\ Refers
  BY DEF Typed, Types, ChannelsTyped, ChildrenTyped
<1>1. ASSUME \A t \in Tasks : chan'[t] = chan[t] \/ chan'[t] # "sent",
             \A t \in Tasks : child[t].at = "gone" => child'[t].at = "gone"
      PROVE  SentIsOver'
  BY <1>1 DEF SentIsOver
<1>2. ASSUME NEW t \in Tasks, child[t].at # "gone", \A u \in Tasks \ {t} : child'[u] = child[u],
             UNCHANGED chan
      PROVE  SentIsOver'
  BY <1>1, <1>2
<1>3. ASSUME NEW t \in Tasks, NEW chan2, NEW awake, Leave(t, chan2, awake), chan2 = Sent(t)
      PROVE  SentIsOver'
  <2>1. child'[t].at = "gone" /\ \A u \in Tasks \ {t} : child'[u] = child[u]
    BY <1>0, <1>3 DEF Leave, NoChild
  <2>2. \A u \in Tasks \ {t} : chan'[u] = chan[u]
    BY <1>0, <1>3 DEF Leave, Sent
  <2>. QED  BY <2>1, <2>2 DEF SentIsOver
<1>4. ASSUME NEW t \in Tasks, Runs(t) \/ ChildFails(t) PROVE SentIsOver'
  <2>1. CASE ChildDelivers(t)
    BY <1>3, <2>1 DEF ChildDelivers
  <2>2. CASE ChildDropped(t)
    BY <1>3, <2>2 DEF ChildDropped
  <2>3. CASE ChildAborted(t)
    <3>1. CASE Leave(t, Sent(t), FALSE)
      BY <1>3, <3>1
    <3>2. CASE ~Leave(t, Sent(t), FALSE)
      BY <1>0, <1>2, <2>3, <3>2 DEF ChildAborted, channels
    <3>. QED  BY <3>1, <3>2
  <2>. QED
    BY <1>0, <1>2, <1>4, <2>1, <2>2, <2>3
    DEF Runs, ChildFails, ChildReadsRow, ChildCounts, ChildCompletes, ChildRetries,
        ChildCancelled, ChildReadsLast, ChildWritesEnd, Ends, ChildStep, channels
<1>5. ASSUME NEW c \in Callers, NEW t \in Tasks, Launches(c, t) PROVE SentIsOver'
  <2>1. child[t].at # "gone" /\ \A u \in Tasks \ {t} : child'[u] = child[u]
    BY <1>0, <1>5 DEF Launches, Refers, ChildrenRefer, Started
  <2>2. chan'[t] # "sent" /\ \A u \in Tasks : chan'[u] = chan[u] \/ chan'[u] # "sent"
    BY <1>0, <1>5 DEF Launches
  <2>. QED  BY <1>1, <2>1, <2>2
<1>6. ASSUME UNCHANGED child,
             \/ UNCHANGED chan
             \/ \E t \in Tasks : chan' = [chan EXCEPT ![t] = "taken"] \/ DropReceiver(t)
      PROVE  SentIsOver'
  BY <1>0, <1>1, <1>6 DEF DropReceiver
<1>7. CASE Waits \/ WaitTimesOut
  <2>1. \/ UNCHANGED chan \/ chan' = [chan EXCEPT ![call[Tool].task] = "taken"]
        \/ DropReceiver(call[Tool].task)
    BY <1>7
    DEF Waits, WaitTimesOut, WaitBegins, WaitReceives, TimeoutReadsRow, TimeoutReturns,
        WaitSeesDetach, DetachReturns, channels
  <2>2. UNCHANGED child
    BY <1>7
    DEF Waits, WaitTimesOut, WaitBegins, WaitReceives, TimeoutReadsRow, TimeoutReturns,
        WaitSeesDetach, DetachReturns
  <2>3. UNCHANGED chan \/ call[Tool].task \in Tasks
    BY <1>0, <1>7
    DEF Waits, WaitTimesOut, WaitBegins, WaitReceives, TimeoutReadsRow, TimeoutReturns,
        WaitSeesDetach, DetachReturns, channels, Refers, CallsRefer, Callers
  <2>. QED  BY <1>6, <2>1, <2>2, <2>3
<1>8. CASE TurnCancelled
  <2>1. UNCHANGED chan \/ (DropReceiver(call[Tool].task) /\ call[Tool].task \in Tasks)
    BY <1>0, <1>8 DEF TurnCancelled, Refers, CallsRefer, Callers
  <2>2. UNCHANGED child
    BY <1>8 DEF TurnCancelled
  <2>. QED  BY <1>6, <2>1, <2>2
<1>9. CASE TurnBegins \/ Turn
  BY <1>6, <1>9
  DEF Turn, TurnBegins, TurnMerged, TurnEnds, WakeFindsNothing, Merges, channels
<1>10. CASE CrashAndRestart
  <2>1. \A t \in Tasks : chan'[t] # "sent"
    BY <1>10 DEF CrashAndRestart
  <2>. QED  BY <2>1 DEF SentIsOver
<1>11. CASE UNCHANGED vars
  BY <1>6, <1>11 DEF vars, memory, channels
<1>. QED
  BY <1>4, <1>5, <1>6, <1>7, <1>8, <1>9, <1>10, <1>11
  DEF Next, SpawnBegins, ResumeChecks, Registers, DetachAsks, DetachReadsRow, DetachWritesRow,
      StopBegins, StopWritesRow, StopReturns, channels

(* The tool's call is of a task that nobody was told of: the merge that    *)
(* could tell it runs while there is no call.                              *)
LEMMA UntoldStep == Typed /\ Marked /\ TurnsFirst /\ Untold /\ [Next]_vars => Untold'
<1> SUFFICES ASSUME Typed, Marked, TurnsFirst, Untold, [Next]_vars PROVE Untold'
  OBVIOUS
<1>0. /\ call \in [Callers -> CallRecords] /\ Tool \in Callers /\ Refers
      /\ told \in [Tasks -> Nat] /\ NoCall.at = "none"
  BY NothingTyped DEF Typed, Types, CallsTyped, HistoryTyped, Callers
<1>1. \A t \in Tasks : Started(t) => Started(t)'
  BY StartedStays
<1>2. ASSUME UNCHANGED told,
             \/ call'[Tool].at \in {"none", "checked"}
             \/ call[Tool].at \notin {"none", "checked"} /\ call'[Tool].task = call[Tool].task
      PROVE  Untold'
  BY <1>1, <1>2 DEF Untold
<1>3. ASSUME NEW c \in Callers, NEW t \in Tasks, Launches(c, t) PROVE Untold'
  <2>1. UNCHANGED told /\ told[t] = 0
    BY <1>3 DEF Launches, history, Untold, Started
  <2>2. CASE c # Tool
    <3>1. call'[Tool] = call[Tool]
      BY <1>0, <1>3, <2>2 DEF Launches
    <3>. QED  BY <1>2, <2>1, <3>1
  <2>3. CASE c = Tool
    <3>1. call'[Tool].task = t
      BY <1>0, <1>3, <2>3 DEF Launches, CallRecords
    <3>. QED  BY <1>1, <2>1, <3>1 DEF Untold
  <2>. QED  BY <2>2, <2>3
<1>4. ASSUME NEW c \in Callers, Registers(c) PROVE Untold'
  <2>1. CASE c # Tool
    BY <1>0, <1>2, <1>4, <2>1 DEF Registers, history
  <2>2. CASE c = Tool
    <3>1. call'[Tool] = [call[Tool] EXCEPT !.at = "open"] \/ call'[Tool] = NoCall
      BY <1>0, <1>4, <2>2 DEF Registers
    <3>2. [call[Tool] EXCEPT !.at = "open"].task = call[Tool].task
      BY <1>0 DEF CallRecords
    <3>. QED  BY <1>0, <1>2, <1>4, <2>2, <3>1, <3>2 DEF Registers, history
  <2>. QED  BY <2>1, <2>2
<1>5. ASSUME NEW c \in Callers, NEW s \in Sessions, NEW b \in BOOLEAN,
             SpawnBegins(c, s, b) \/ ResumeChecks(c, s, b)
      PROVE  Untold'
  BY <1>0, <1>2, <1>5 DEF SpawnBegins, ResumeChecks, NoCall, history
<1>6. CASE WaitReceives
  <2>1. /\ call[Tool].task \in Tasks /\ Started(call[Tool].task) /\ call'[Tool].at = "none"
        /\ told' = [told EXCEPT ![call[Tool].task] = @ + 1]
    BY <1>0, <1>6 DEF WaitReceives, Refers, CallsRefer
  <2>. QED  BY <1>0, <1>1, <2>1 DEF Untold
<1>7. CASE Waits \/ WaitTimesOut
  <2>1. CASE TimeoutReturns \/ DetachReturns
    BY <1>0, <1>2, <2>1 DEF TimeoutReturns, DetachReturns, history
  <2>2. CASE TimeoutReadsRow
    <3>1. PICK n : call'[Tool] = [call[Tool] EXCEPT !.at = "marking", !.marks = n, !.copy = row[n]]
      BY <1>0, <2>2 DEF TimeoutReadsRow
    <3>2. [call[Tool] EXCEPT !.at = "marking", !.marks = n, !.copy = row[n]].task
            = call[Tool].task
      BY <1>0 DEF CallRecords
    <3>. QED  BY <1>2, <2>2, <3>1, <3>2 DEF TimeoutReadsRow, history
  <2>3. CASE WaitBegins \/ WaitTimesOut \/ WaitSeesDetach
    <3>1. PICK at : call'[Tool] = [call[Tool] EXCEPT !.at = at]
      BY <1>0, <2>3 DEF WaitBegins, WaitTimesOut, WaitSeesDetach
    <3>2. [call[Tool] EXCEPT !.at = at].task = call[Tool].task
      BY <1>0 DEF CallRecords
    <3>. QED  BY <1>2, <2>3, <3>1, <3>2 DEF WaitBegins, WaitTimesOut, WaitSeesDetach, history
  <2>. QED  BY <1>6, <1>7, <2>1, <2>2, <2>3 DEF Waits
<1>8. ASSUME NEW t \in Tasks, Merges(t) PROVE Untold'
  <2>1. call'[Tool].at = "none"
    BY <1>8 DEF Merges, TurnsFirst
  <2>2. Started(t) /\ told' = [told EXCEPT ![t] = @ + 1]
    BY <1>8 DEF Merges, Marked, MergesRefer
  <2>. QED  BY <1>0, <1>1, <2>1, <2>2 DEF Untold
<1>9. ASSUME NEW t \in Tasks, Runs(t) \/ ChildFails(t) PROVE Untold'
  BY <1>2, <1>9
  DEF Runs, ChildFails, ChildReadsRow, ChildCounts, ChildCompletes, ChildRetries,
      ChildCancelled, ChildReadsLast, ChildWritesEnd, ChildDelivers, ChildAborted,
      ChildDropped, Ends, ChildStep, Leave, history
<1>10. CASE TurnBegins \/ TurnMerged \/ TurnEnds \/ WakeFindsNothing
  BY <1>2, <1>10 DEF TurnBegins, TurnMerged, TurnEnds, WakeFindsNothing, history
<1>11. CASE TurnCancelled \/ CrashAndRestart
  BY <1>0, <1>2, <1>11 DEF TurnCancelled, CrashAndRestart
<1>12. CASE UNCHANGED vars
  BY <1>2, <1>12 DEF vars, memory, history
<1>13. UNCHANGED <<told, call>> => Untold'
  BY <1>2
<1>. QED
  BY <1>0, <1>3, <1>4, <1>5, <1>7, <1>8, <1>9, <1>10, <1>11, <1>12, <1>13
  DEF Next, Turn, DetachAsks, DetachReadsRow, DetachWritesRow, StopBegins, StopWritesRow,
      StopReturns, history

(* What a turn lists was not told, and nothing tells it before its merge.  *)
LEMMA ListedStep ==
  Typed /\ TurnsFirst /\ ListedUntold /\ OnceTold /\ [Next]_vars => ListedUntold'
<1> SUFFICES ASSUME Typed, TurnsFirst, ListedUntold, OnceTold, [Next]_vars PROVE ListedUntold'
  OBVIOUS
<1>0. /\ told \in [Tasks -> Nat] /\ parent \in ParentRecords /\ parent' \in ParentRecords
      /\ overwritten \subseteq overwritten'
  BY TypeStep, MarksStay DEF Typed, Types, HistoryTyped, ParentTyped
<1>1. \A t \in Tasks : Unclear(t) => Unclear(t)'
  BY UnclearStays
<1>2. ASSUME parent'.merging \subseteq parent.merging,
             \A t \in parent'.merging : told'[t] = told[t]
      PROVE  ListedUntold'
  BY <1>0, <1>1, <1>2 DEF ListedUntold, ParentRecords
<1>3. CASE WaitReceives
  <2>1. UNCHANGED parent /\ parent.merging = {}
    BY <1>3 DEF WaitReceives, TurnsFirst
  <2>. QED  BY <1>2, <2>1
<1>4. ASSUME NEW t \in Tasks, Merges(t) PROVE ListedUntold'
  <2>1. parent'.merging = parent.merging \ {t}
    BY <1>0, <1>4 DEF Merges, ParentRecords
  <2>2. \A u \in Tasks \ {t} : told'[u] = told[u]
    BY <1>0, <1>4 DEF Merges
  <2>. QED  BY <1>0, <1>2, <2>1, <2>2 DEF ParentRecords
<1>5. CASE told' = told /\ ~TurnBegins
  <2>1. parent'.merging \subseteq parent.merging
    <3>1. ASSUME NEW t \in Tasks, Runs(t) \/ ChildFails(t) PROVE UNCHANGED parent
      BY <3>1
      DEF Runs, ChildFails, ChildReadsRow, ChildCounts, ChildCompletes, ChildRetries,
          ChildCancelled, ChildReadsLast, ChildWritesEnd, ChildDelivers, ChildAborted,
          ChildDropped, Ends, ChildStep, Leave
    <3>2. CASE Waits \/ WaitTimesOut
      BY <3>2
      DEF Waits, WaitTimesOut, WaitBegins, WaitReceives, TimeoutReadsRow, TimeoutReturns,
          WaitSeesDetach, DetachReturns
    <3>3. CASE Turn \/ TurnCancelled
      BY <1>0, <3>3
      DEF Turn, TurnMerged, TurnEnds, TurnCancelled, WakeFindsNothing, Merges, ParentRecords
    <3>4. CASE UNCHANGED vars
      BY <3>4 DEF vars, memory
    <3>5. CASE CrashAndRestart
      BY <3>5 DEF CrashAndRestart
    <3>6. UNCHANGED parent => parent'.merging \subseteq parent.merging
      OBVIOUS
    <3>. QED
      BY <1>5, <3>1, <3>2, <3>3, <3>4, <3>5, <3>6
      DEF Next, SpawnBegins, ResumeChecks, Registers, Launches, DetachAsks, DetachReadsRow,
          DetachWritesRow, StopBegins, StopWritesRow, StopReturns
  <2>. QED  BY <1>2, <1>5, <2>1
<1>6. CASE TurnBegins
  <2>1. /\ parent'.merging = Unannounced /\ UNCHANGED <<told, row, overwritten>>
    BY <1>6 DEF TurnBegins
  <2>2. \A t \in Unannounced \ overwritten : Unclear(t) \/ told[t] = 0
    BY DEF OnceTold, Unannounced
  <2>. QED  BY <1>1, <2>1, <2>2 DEF ListedUntold, Unannounced
<1>. QED  BY <1>3, <1>4, <1>5, <1>6, Tellers

(* The wait that receives marks its own task, and the merge marks what it  *)
(* tells, unless the web page resumed the session or a copy was written.   *)
LEMMA OnceStep ==
  Typed /\ Ended /\ Marked /\ Counted /\ [Next]_vars => OnceTold'
<1> SUFFICES ASSUME Typed, Ended, Marked, Counted, [Next]_vars PROVE OnceTold'
  OBVIOUS
<1>0. /\ Types /\ Refers /\ told \in [Tasks -> Nat] /\ row \in [Tasks -> Rows]
      /\ parent \in ParentRecords
      /\ overwritten \subseteq overwritten'
      /\ \A t \in Tasks \ overwritten' : row[t].told => row'[t].told
  BY MarksStay DEF Typed, Types, HistoryTyped, RowsTyped, ParentTyped
<1>1. \A t \in Tasks : Unclear(t) => Unclear(t)'
  BY UnclearStays
<1>2. CASE told' = told
  BY <1>0, <1>1, <1>2 DEF Counted, OnceTold
<1>3. ASSUME NEW t \in Tasks, told' = [told EXCEPT ![t] = @ + 1],
             t \notin overwritten' => Unclear(t) \/ (told[t] = 0 /\ row'[t].told)
      PROVE  OnceTold'
  BY <1>0, <1>1, <1>3 DEF Counted, OnceTold
<1>4. ASSUME NEW t \in Tasks, Merges(t), told' = [told EXCEPT ![t] = @ + 1] PROVE OnceTold'
  <2>1. t \in parent.merging /\ row'[t].told
    BY <1>0, <1>4 DEF Merges, Rows
  <2>. QED  BY <1>0, <1>3, <1>4, <2>1 DEF Counted, ListedUntold
<1>5. ASSUME WaitReceives, call[Tool].task \in Tasks,
             told' = [told EXCEPT ![call[Tool].task] = @ + 1]
      PROVE  OnceTold'
  <2> DEFINE s == call[Tool].session
             t == call[Tool].task
  <2>1. /\ s \in Sessions /\ born[s] # <<>> /\ NewerByWeb(s, t) /\ told[t] = 0
        /\ chan[t] = "sent"
    BY <1>0, <1>5
    DEF WaitReceives, Refers, CallsRefer, Callers, Marked, CallIsNewest, Counted, Untold
  <2>2. t \notin overwritten => Terminal(row[t])
    BY <1>5, <2>1 DEF Counted, SentIsOver, Ended, Ending
  <2>3. PICK n \in Newest(s) :
          row' = IF Terminal(row[n]) THEN [row EXCEPT ![n].told = TRUE] ELSE row
    BY <1>5 DEF WaitReceives
  <2>4. Unclear(t) \/ n = t
    BY <1>5, <2>1, NewestIsOwn DEF Unclear, Resumed
  <2>5. n = t /\ t \notin overwritten => row'[t].told
    BY <1>0, <1>5, <2>2, <2>3 DEF Rows
  <2>. QED  BY <1>0, <1>3, <1>5, <2>1, <2>4, <2>5
<1>. QED  BY <1>2, <1>4, <1>5, Tellers

LEMMA CountedStep == Typed /\ Ended /\ Marked /\ Counted /\ [Next]_vars => Counted'
BY OnceStep, ListedStep, UntoldStep, SentStep, TurnsFirstStep, OneSessionStep DEF Counted

(* What was told is counted in the session that the task is of.            *)
LEMMA CountedOnce == Counted => ToldOnce
<1> SUFFICES ASSUME Counted, NEW t \in Tasks \ overwritten, told[t] > 1, t \notin tied
             PROVE  ResumedByWeb(t)
  BY DEF ToldOnce
<1>1. PICK s \in Sessions : \E i, j \in DOMAIN born[s] :
        i < j /\ born[s][i] = t /\ child[born[s][j]].by # Tool
  BY DEF Counted, OnceTold, Unclear, Resumed
<1>2. \E i \in DOMAIN born[s] : born[s][i] = t
  BY <1>1
<1>3. \A z \in Sessions : (\E i \in DOMAIN born[z] : born[z][i] = t) => z = s
  BY <1>2 DEF Counted, OneSession
<1>4. SessionOf(t) = s
  BY <1>2, <1>3 DEF SessionOf
<1>. QED  BY <1>1, <1>4 DEF ResumedByWeb

-----------------------------------------------------------------------------
(* Every variable stays in its type.                                       *)
THEOREM TypeCorrect == Spec => []TypeOK
<1>1. Typed /\ [Next]_vars => Typed'
  BY TypeStep, RefersStep DEF Typed
<1>2. Typed => TypeOK
  BY TypesAreTypeOK DEF Typed
<1>. QED  BY TypedInit, <1>1, <1>2, PTL DEF Spec

(* A run that is over has its outcome in its row, whichever of its end, a  *)
(* stop, an abort and a restart ended it.                                  *)
THEOREM EndsAreRecorded == Spec => []EndedRunsSaySo
<1>1. Typed /\ Ended /\ [Next]_vars => Typed' /\ Ended'
  BY TypeStep, RefersStep, EndedStep DEF Typed
<1>2. Ended => EndedRunsSaySo
  BY DEF Ended, Ending, EndedRunsSaySo
<1>. QED  BY TypedInit, EndedInit, <1>1, <1>2, PTL DEF Spec

(* An outcome in a row is replaced only while a stop of the task is under  *)
(* way, or by a copy that was read before.                                 *)
THEOREM OutcomesAreKept == Spec => OutcomesStay
<1>1. Typed /\ Ended /\ [Next]_vars => Typed' /\ Ended'
  BY TypeStep, RefersStep, EndedStep DEF Typed
<1>2. Typed /\ Ended /\ [Next]_vars => OutcomesKept
  BY OutcomesStep
<1>3. OutcomesKept => [\A t \in Tasks : Terminal(row[t]) /\ row'[t].status # row[t].status =>
                         stop[t].at # "none" \/ t \in overwritten']_vars
  BY DEF OutcomesKept
<1>. QED  BY TypedInit, EndedInit, <1>1, <1>2, <1>3, PTL DEF Spec, OutcomesStay

(* A task that the parent launched is marked only if its outcome was told, *)
(* or if created_at does not tell it from the next task of its session.    *)
THEOREM MarksAreTold == Spec => []MarkedWasTold
<1>1. Typed /\ Marked /\ [Next]_vars => Typed' /\ Marked'
  BY TypeStep, RefersStep, MarksStep DEF Typed
<1>2. Marked => MarkedWasTold
  BY DEF Marked, RowsMarked, TrueMark, MarkedWasTold
<1>. QED  BY TypedInit, MarksInit, <1>1, <1>2, PTL DEF Spec

(* An outcome is told once, by the wait or by a merge, unless an older     *)
(* copy took its mark away, the web page resumed its session, or           *)
(* created_at does not tell it from an older task of the session.          *)
THEOREM TellsOnce == Spec => []ToldOnce
<1>1. Typed /\ Ended /\ Marked /\ Counted /\ [Next]_vars
        => Typed' /\ Ended' /\ Marked' /\ Counted'
  BY TypeStep, RefersStep, EndedStep, MarksStep, CountedStep DEF Typed
<1>. QED  BY TypedInit, EndedInit, MarksInit, CountedInit, CountedOnce, <1>1, PTL DEF Spec
==============================================================================
