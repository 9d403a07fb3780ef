------------------------- MODULE SessionRunsProofs -------------------------
(***************************************************************************)
(* Proofs about SessionRuns for any number of threads, messages, rounds    *)
(* and tasks and any bounds: its type invariant, that the run guard is     *)
(* held exactly by the thread that took it, that a stop reaches every run, *)
(* that without failing operations no crash loses a message and no result  *)
(* is told twice, and that messages repeat no more often than they must.   *)
(*                                                                         *)
(* Each step lemma has one step per action; those an action proves by      *)
(* itself come after the USE of the small definitions all actions share.   *)
(***************************************************************************)
EXTENDS SessionRuns, TLAPS

(* TypeOK for the program counters and what the threads carry.             *)
ThreadTyped == thread \in [Threads -> ThreadRecords]

(* A run of a queued message, and a dispatch that rejects a round, carry   *)
(* the entry. No thread is called a run before it is one.                  *)
EntryCarried ==
  \A t \in Threads :
    /\ thread[t].pc = "reject" \/ thread[t].kind = "queued" => thread[t].entry \in Entries
    /\ thread[t].kind = "queued" => thread[t].pc \in RunPcs

(* The thread that comes back from spawn_next_queued_message_run.          *)
LEMMA ReturnedRecord ==
  ASSUME NEW t \in Threads
  PROVE  Returned(t) \in ThreadRecords /\ Returned(t).pc \in {"idle", "after"}
         /\ Returned(t).kind = "none" /\ Returned(t).carry = {}
  BY DEF Returned, Idle, ThreadRecords, Pcs, HoldingPcs

(* Records whose fields are replaced by values of their types stay typed.  *)
LEMMA RecordUpdates ==
  ASSUME NEW r \in ThreadRecords, NEW p \in Pcs
  PROVE  /\ \A e \in Entries \cup {None} : [r EXCEPT !.pc = p, !.entry = e] \in ThreadRecords
         /\ \A c \in SUBSET (Entries \cup Tasks) :
              [r EXCEPT !.carry = c, !.pc = p] \in ThreadRecords
  BY DEF ThreadRecords

(* Thread t goes on at p; the entry and the kind it has are those it had.  *)
MovesTo(t, p) ==
  /\ thread' \in [Threads -> ThreadRecords]
  /\ thread'[t].pc = p /\ thread'[t].kind = thread[t].kind
  /\ thread'[t].entry = thread[t].entry /\ thread'[t].carry \subseteq thread[t].carry
  /\ \A u \in Threads \ {t} : thread'[u] = thread[u]

(* What is saved stays saved, and only what the thread carries is saved.   *)
TranscriptGrows(t) ==
  /\ transcript' \in [Entries \cup Tasks -> Nat]
  /\ \A x \in Entries \cup Tasks : transcript'[x] >= transcript[x]
  /\ \A x \in (Entries \cup Tasks) \ thread[t].carry : transcript'[x] = transcript[x]

(* All of it is saved, once.                                               *)
CarrySaved(t) ==
  /\ thread'[t].carry = {}
  /\ \A x \in thread[t].carry : transcript'[x] = transcript[x] + 1 /\ transcript'[x] > 0

LEMMA SaveMoves ==
  ASSUME TypeOK, NEW t \in Threads, NEW p \in Pcs, Save(t, p)
  PROVE  MovesTo(t, p) /\ TranscriptGrows(t)
         /\ CarrySaved(t)
<1>1. thread[t] \in ThreadRecords /\ {} \in SUBSET (Entries \cup Tasks)
  BY DEF TypeOK
<1> DEFINE next == [thread[t] EXCEPT !.carry = {}, !.pc = p]
<1>2. next \in ThreadRecords
  BY <1>1, RecordUpdates
<1>3. next.pc = p /\ next.kind = thread[t].kind /\ next.entry = thread[t].entry
      /\ next.carry = {}
  BY <1>1 DEF ThreadRecords
<1>4. thread' = [thread EXCEPT ![t] = next]
  BY DEF Save
<1> HIDE DEF next
<1>5. MovesTo(t, p)
  BY <1>2, <1>3, <1>4 DEF MovesTo, TypeOK
<1>6. \A x \in Entries \cup Tasks : transcript[x] \in Nat
  BY DEF TypeOK
<1>7. \A x \in Entries \cup Tasks :
        transcript'[x] = IF x \in thread[t].carry THEN transcript[x] + 1 ELSE transcript[x]
  BY DEF Save
<1>8. TranscriptGrows(t)
  BY <1>6, <1>7 DEF Save, TranscriptGrows
<1>9. CarrySaved(t)
  <2>1. thread'[t].carry = {}
    BY <1>3, <1>4 DEF TypeOK
  <2>2. \A x \in thread[t].carry : x \in Entries \cup Tasks
    BY <1>1 DEF ThreadRecords
  <2>. QED  BY <1>6, <1>7, <2>1, <2>2 DEF CarrySaved
<1>. QED  BY <1>5, <1>8, <1>9

LEMMA GotoMoves ==
  ASSUME TypeOK, NEW t \in Threads, NEW p \in Pcs, Goto(t, p)
  PROVE  MovesTo(t, p)
<1>1. thread[t] \in ThreadRecords
  BY DEF TypeOK
<1> DEFINE next == [thread[t] EXCEPT !.pc = p]
<1>2. next \in ThreadRecords
  BY <1>1 DEF ThreadRecords
<1>3. next.pc = p /\ next.kind = thread[t].kind /\ next.entry = thread[t].entry
      /\ next.carry = thread[t].carry
  BY <1>1 DEF ThreadRecords
<1>4. thread' = [thread EXCEPT ![t] = next]
  BY DEF Goto
<1> HIDE DEF next
<1>. QED  BY <1>2, <1>3, <1>4 DEF MovesTo, TypeOK

(* The three steps that save: where they go and what they leave alone.     *)
LEMMA RunSavesMoves ==
  ASSUME TypeOK, NEW t \in Threads, RunSaves(t)
  PROVE  /\ At(t, "save")
         /\ UNCHANGED <<queue, results, memory, sent, removed>>
         /\ used' \in [DOMAIN used -> Nat] /\ TranscriptGrows(t)
         /\ MovesTo(t, IF thread[t].kind = "queued" THEN "dequeue" ELSE "loop")
         /\ Count("fault", MaxFaults) \/ CarrySaved(t)
<1> DEFINE next == IF thread[t].kind = "queued" THEN "dequeue" ELSE "loop"
<1>1. next \in Pcs
  BY DEF Pcs, HoldingPcs, RunPcs
<1>2. /\ At(t, "save") /\ UNCHANGED <<queue, results, memory, sent, removed>>
      /\ \/ Save(t, next) /\ UNCHANGED used
         \/ Count("fault", MaxFaults) /\ Goto(t, next) /\ UNCHANGED transcript
  BY DEF RunSaves
<1> HIDE DEF next
<1>3. CASE Save(t, next) /\ UNCHANGED used
  BY <1>1, <1>2, <1>3, SaveMoves DEF next, TypeOK
<1>4. CASE Count("fault", MaxFaults) /\ Goto(t, next) /\ UNCHANGED transcript
  <2>1. used' \in [DOMAIN used -> Nat]
    BY <1>4 DEF Count, TypeOK
  <2>2. TranscriptGrows(t)
    BY <1>4 DEF TranscriptGrows, TypeOK
  <2>. QED  BY <1>1, <1>2, <1>4, <2>1, <2>2, GotoMoves DEF next
<1>. QED  BY <1>2, <1>3, <1>4

LEMMA RunIteratesMoves ==
  ASSUME TypeOK, NEW t \in Threads, RunIterates(t)
  PROVE  /\ At(t, "loop") /\ UNCHANGED <<queue, results, memory, history>>
         /\ TranscriptGrows(t)
         /\ \E p \in {"drop", "complete"} : MovesTo(t, p)
<1>1. "drop" \in Pcs /\ "complete" \in Pcs
  BY DEF Pcs, HoldingPcs, RunPcs
<1>2. /\ At(t, "loop") /\ UNCHANGED <<queue, results, memory, history>>
      /\ \/ Save(t, "drop")
         \/ Goto(t, "drop") /\ UNCHANGED transcript
         \/ Goto(t, "complete") /\ UNCHANGED transcript
  BY DEF RunIterates
<1>3. UNCHANGED transcript => TranscriptGrows(t)
  BY DEF TranscriptGrows, TypeOK
<1>. QED  BY <1>1, <1>2, <1>3, SaveMoves, GotoMoves

LEMMA RunCompletesMoves ==
  ASSUME TypeOK, NEW t \in Threads, RunCompletes(t)
  PROVE  /\ At(t, "complete") /\ UNCHANGED <<queue, results, memory, history>>
         /\ TranscriptGrows(t) /\ MovesTo(t, "finish")
<1>1. "finish" \in Pcs
  BY DEF Pcs, HoldingPcs, RunPcs
<1>. QED  BY <1>1, SaveMoves DEF RunCompletes

(* Every step keeps the types. A rejected or dispatched entry must be one, *)
(* so EntryCarried is needed.                                              *)
LEMMA TypeStep == TypeOK /\ EntryCarried /\ [Next]_vars => TypeOK'
<1> SUFFICES ASSUME TypeOK, EntryCarried, [Next]_vars PROVE TypeOK'
  OBVIOUS
<1>0. ThreadTyped
  BY DEF TypeOK, ThreadTyped
<1> USE <1>0 DEF TypeOK, Q!TypeOK, Q!Enqueue, Q!Remove, Q!Claim, Q!Promote
<1>1. ASSUME NEW m \in Messages, Send(m) PROVE TypeOK'
  <2>1. ThreadTyped'
    <3>1. Handler("resume", None) \in ThreadRecords
      BY DEF Handler, Idle, ThreadRecords, Pcs, HoldingPcs, RunPcs, Entries
    <3>. QED  BY <1>1, <3>1 DEF Send, Arrive, Free, Become, ThreadTyped
  <2>2. used' \in [DOMAIN used -> Nat]
    BY <1>1 DEF Send, Count, history
  <2>3. Q!TypeOK'
    BY <1>1 DEF Send, queue, Entries
  <2>. QED
    BY <1>1, <2>1, <2>2, <2>3 DEF Send, ThreadTyped, TryStartRun, DropGuard,
      results, memory, history
<1>2. ASSUME NEW e \in Entries, SendNow(e) PROVE TypeOK'
  <2>1. ThreadTyped'
    <3>1. Handler("resume", e) \in ThreadRecords
      BY DEF Handler, Idle, ThreadRecords, Pcs, HoldingPcs, RunPcs, Entries
    <3>. QED  BY <1>2, <3>1 DEF SendNow, Arrive, Free, Become, ThreadTyped
  <2>2. used' \in [DOMAIN used -> Nat]
    BY <1>2 DEF SendNow, Count, history
  <2>3. Q!TypeOK'
    BY <1>2 DEF SendNow, queue, Entries
  <2>. QED
    BY <1>2, <2>1, <2>2, <2>3 DEF SendNow, ThreadTyped, TryStartRun,
      DropGuard, results, memory, history
<1>3. ASSUME Stop PROVE TypeOK'
  <2>1. ThreadTyped'
    <3>1. Handler("stopCancel", None) \in ThreadRecords
      BY DEF Handler, Idle, ThreadRecords, Pcs, HoldingPcs, RunPcs, Entries
    <3>. QED  BY <1>3, <3>1 DEF Stop, Arrive, Free, Become, ThreadTyped
  <2>2. used' \in [DOMAIN used -> Nat]
    BY <1>3 DEF Stop, Count, history
  <2>3. Q!TypeOK'
    BY <1>3 DEF Stop, queue, Entries
  <2>. QED
    BY <1>3, <2>1, <2>2, <2>3 DEF Stop, ThreadTyped, TryStartRun, DropGuard,
      results, memory, history
<1>4. ASSUME StartDirect PROVE TypeOK'
  <2>1. ThreadTyped'
    <3>1. [Idle EXCEPT !.pc = "merge", !.kind = "direct"] \in ThreadRecords
      BY DEF Idle, ThreadRecords, Pcs, HoldingPcs, RunPcs, Entries
    <3>. QED  BY <1>4, <3>1 DEF StartDirect, Free, Become, ThreadTyped
  <2>2. used' \in [DOMAIN used -> Nat]
    BY <1>4 DEF StartDirect, Count, history
  <2>3. Q!TypeOK'
    BY <1>4 DEF StartDirect, queue, Entries
  <2>. QED
    BY <1>4, <2>1, <2>2, <2>3 DEF StartDirect, ThreadTyped, TryStartRun,
      DropGuard, results, memory, history, Free
<1>5. ASSUME Crash PROVE TypeOK'
  <2>1. ThreadTyped'
    BY <1>5 DEF Crash, ThreadTyped, Idle, ThreadRecords, Pcs, HoldingPcs,
      RunPcs, Entries
  <2>2. used' \in [DOMAIN used -> Nat]
    BY <1>5 DEF Crash, Count, history
  <2>3. Q!TypeOK'
    BY <1>5 DEF Crash, queue, Entries
  <2>. QED
    BY <1>5, <2>1, <2>2, <2>3 DEF Crash, ThreadTyped, TryStartRun, DropGuard,
      results, memory, history
<1>6. ASSUME NEW t \in Threads, Resume(t) PROVE TypeOK'
  <2>1. ThreadTyped'
    BY <1>6 DEF Resume, ThreadTyped, Goto, ThreadRecords, Pcs, HoldingPcs,
      RunPcs, Entries
  <2>2. used' \in [DOMAIN used -> Nat]
    BY <1>6 DEF Resume, Count, history
  <2>3. Q!TypeOK'
    BY <1>6 DEF Resume, queue, Entries
  <2>. QED
    BY <1>6, <2>1, <2>2, <2>3 DEF Resume, ThreadTyped, TryStartRun, DropGuard,
      results, memory, history
<1>7. ASSUME NEW t \in Threads, SendNowBusy(t) PROVE TypeOK'
  <2>1. ThreadTyped'
    <3>1. Dispatch \in ThreadRecords
      BY DEF Dispatch, Idle, ThreadRecords, Pcs, HoldingPcs, RunPcs, Entries
    <3>2. CASE active # None
      BY <1>7, <3>2 DEF SendNowBusy, Goto, ThreadTyped, ThreadRecords, Pcs,
        HoldingPcs, RunPcs, Entries
    <3>. QED  BY <1>7, <3>1, <3>2 DEF SendNowBusy, Become, ThreadTyped
  <2>2. used' \in [DOMAIN used -> Nat]
    BY <1>7 DEF SendNowBusy, Count, history
  <2>3. Q!TypeOK'
    BY <1>7 DEF SendNowBusy, queue, Entries
  <2>. QED
    BY <1>7, <2>1, <2>2, <2>3 DEF SendNowBusy, ThreadTyped, TryStartRun,
      DropGuard, results, memory, history
<1>8. ASSUME NEW t \in Threads, SpawnChecksStopped(t) PROVE TypeOK'
  <2>1. ThreadTyped'
    <3>1. CASE stopped
      BY <1>8, <3>1, ReturnedRecord DEF SpawnChecksStopped, Become, ThreadTyped
    <3>2. CASE ~stopped
      BY <1>8, <3>2 DEF SpawnChecksStopped, Goto, ThreadTyped, ThreadRecords,
        Pcs, HoldingPcs, RunPcs, Entries
    <3>. QED  BY <3>1, <3>2
  <2>2. used' \in [DOMAIN used -> Nat]
    BY <1>8 DEF SpawnChecksStopped, Count, history
  <2>3. Q!TypeOK'
    BY <1>8 DEF SpawnChecksStopped, queue, Entries
  <2>. QED
    BY <1>8, <2>1, <2>2, <2>3 DEF SpawnChecksStopped, ThreadTyped,
      TryStartRun, DropGuard, results, memory, history
<1>9. ASSUME NEW t \in Threads, SpawnStarts(t) PROVE TypeOK'
  <2>1. ThreadTyped'
    <3>1. CASE Goto(t, "recheck")
      BY <3>1 DEF Goto, ThreadTyped, ThreadRecords, Pcs, HoldingPcs, RunPcs,
        Entries
    <3>. QED  BY <1>9, <3>1, ReturnedRecord DEF SpawnStarts, Become,
      ThreadTyped
  <2>2. used' \in [DOMAIN used -> Nat]
    BY <1>9 DEF SpawnStarts, Count, history
  <2>3. Q!TypeOK'
    BY <1>9 DEF SpawnStarts, queue, Entries
  <2>. QED
    BY <1>9, <2>1, <2>2, <2>3 DEF SpawnStarts, ThreadTyped, TryStartRun,
      DropGuard, results, memory, history
<1>10. ASSUME NEW t \in Threads, SpawnRechecks(t) PROVE TypeOK'
  <2>1. ThreadTyped'
    <3>1. CASE stopped
      BY <1>10, <3>1, ReturnedRecord DEF SpawnRechecks, Become, ThreadTyped
    <3>2. CASE ~stopped
      BY <1>10, <3>2 DEF SpawnRechecks, Goto, ThreadTyped, ThreadRecords, Pcs,
        HoldingPcs, RunPcs, Entries
    <3>. QED  BY <3>1, <3>2
  <2>2. used' \in [DOMAIN used -> Nat]
    BY <1>10 DEF SpawnRechecks, Count, history
  <2>3. Q!TypeOK'
    BY <1>10 DEF SpawnRechecks, queue, Entries
  <2>. QED
    BY <1>10, <2>1, <2>2, <2>3 DEF SpawnRechecks, ThreadTyped, TryStartRun,
      DropGuard, results, memory, history
<1>11. ASSUME NEW t \in Threads, SpawnClaims(t) PROVE TypeOK'
  <2>1. ThreadTyped'
    <3>1. PICK e \in Entries :
            \/ Become(t, [Idle EXCEPT !.pc = "merge", !.from = "dispatch",
                                      !.kind = "queued", !.entry = e])
            \/ thread' = [thread EXCEPT ![t] = [@ EXCEPT !.pc = "reject",
                                                         !.entry = e]]
      BY <1>11 DEF SpawnClaims
    <3>2. [Idle EXCEPT !.pc = "merge", !.from = "dispatch",
                      !.kind = "queued", !.entry = e] \in ThreadRecords
      BY DEF Idle, ThreadRecords, Pcs, HoldingPcs, RunPcs, Entries
    <3>3. [thread[t] EXCEPT !.pc = "reject", !.entry = e] \in ThreadRecords
      <4>1. thread[t] \in ThreadRecords /\ "reject" \in Pcs
        BY DEF ThreadTyped, Pcs, HoldingPcs, RunPcs
      <4>. QED  BY <4>1, RecordUpdates DEF Entries
    <3>4. CASE thread' = [thread EXCEPT ![t] = [@ EXCEPT !.pc = "reject",
                                                         !.entry = e]]
      <4>1. thread' = [thread EXCEPT ![t] = [thread[t] EXCEPT !.pc = "reject",
        !.entry = e]]
        BY <3>4 DEF ThreadTyped
      <4>. QED  BY <3>3, <4>1 DEF ThreadTyped
    <3>. QED  BY <3>1, <3>2, <3>4 DEF Become, ThreadTyped
  <2>2. used' \in [DOMAIN used -> Nat]
    BY <1>11 DEF SpawnClaims, Count, history
  <2>3. Q!TypeOK'
    BY <1>11 DEF SpawnClaims, queue, Entries
  <2>. QED
    BY <1>11, <2>1, <2>2, <2>3 DEF SpawnClaims, ThreadTyped, TryStartRun,
      DropGuard, results, memory, history
<1>12. ASSUME NEW t \in Threads, SpawnRejectsRound(t) PROVE TypeOK'
  <2>1. ThreadTyped'
    <3>1. [thread[t] EXCEPT !.pc = "recheck", !.entry = None] \in ThreadRecords
      <4>1. thread[t] \in ThreadRecords /\ "recheck" \in Pcs
        BY DEF ThreadTyped, Pcs, HoldingPcs, RunPcs
      <4>. QED  BY <4>1, RecordUpdates DEF Entries
    <3>2. thread' = [thread EXCEPT ![t] = [thread[t] EXCEPT !.pc = "recheck",
      !.entry = None]]
      BY <1>12 DEF SpawnRejectsRound, ThreadTyped
    <3>. QED  BY <3>1, <3>2 DEF ThreadTyped
  <2>2. used' \in [DOMAIN used -> Nat]
    BY <1>12 DEF SpawnRejectsRound, Count, history
  <2>3. Q!TypeOK'
    BY <1>12 DEF SpawnRejectsRound, queue, Entries
  <2>. QED
    BY <1>12, <2>1, <2>2, <2>3 DEF SpawnRejectsRound, ThreadTyped,
      TryStartRun, DropGuard, results, memory, history, EntryCarried, At
<1>13. ASSUME NEW t \in Threads, SpawnSettles(t) PROVE TypeOK'
  <2>1. ThreadTyped'
    <3>1. Wake \in ThreadRecords
      BY DEF Wake, Idle, ThreadRecords, Pcs, HoldingPcs, RunPcs, Entries
    <3>. QED  BY <1>13, <3>1, ReturnedRecord DEF SpawnSettles, Free, Become,
      ThreadTyped
  <2>2. used' \in [DOMAIN used -> Nat]
    BY <1>13 DEF SpawnSettles, Count, history
  <2>3. Q!TypeOK'
    BY <1>13 DEF SpawnSettles, queue, Entries
  <2>. QED
    BY <1>13, <2>1, <2>2, <2>3 DEF SpawnSettles, ThreadTyped, TryStartRun,
      DropGuard, results, memory, history
<1>14. ASSUME NEW t \in Threads, DispatchChecksWake(t) PROVE TypeOK'
  <2>1. ThreadTyped'
    <3>1. Wake \in ThreadRecords /\ Idle \in ThreadRecords
      BY DEF Wake, Idle, ThreadRecords, Pcs, HoldingPcs, RunPcs, Entries
    <3>. QED  BY <1>14, <3>1 DEF DispatchChecksWake, Become, Exit, ThreadTyped
  <2>2. used' \in [DOMAIN used -> Nat]
    BY <1>14 DEF DispatchChecksWake, Count, history
  <2>3. Q!TypeOK'
    BY <1>14 DEF DispatchChecksWake, queue, Entries
  <2>. QED
    BY <1>14, <2>1, <2>2, <2>3 DEF DispatchChecksWake, ThreadTyped,
      TryStartRun, DropGuard, results, memory, history
<1>15. ASSUME NEW t \in Threads, SpawnFails(t) PROVE TypeOK'
  <2>1. ThreadTyped'
    BY <1>15, ReturnedRecord DEF SpawnFails, Become, ThreadTyped
  <2>2. used' \in [DOMAIN used -> Nat]
    BY <1>15 DEF SpawnFails, Count, history
  <2>3. Q!TypeOK'
    BY <1>15 DEF SpawnFails, queue, Entries
  <2>. QED
    BY <1>15, <2>1, <2>2, <2>3 DEF SpawnFails, ThreadTyped, TryStartRun,
      DropGuard, results, memory, history
<1>16. ASSUME NEW t \in Threads, WakeStarts(t) PROVE TypeOK'
  <2>1. ThreadTyped'
    BY <1>16 DEF WakeStarts, Goto, ThreadTyped, ThreadRecords, Pcs,
      HoldingPcs, RunPcs, Entries
  <2>2. used' \in [DOMAIN used -> Nat]
    BY <1>16 DEF WakeStarts, Count, history
  <2>3. Q!TypeOK'
    BY <1>16 DEF WakeStarts, queue, Entries
  <2>. QED
    BY <1>16, <2>1, <2>2, <2>3 DEF WakeStarts, ThreadTyped, TryStartRun,
      DropGuard, results, memory, history
<1>17. ASSUME NEW t \in Threads, WakeRechecks(t) PROVE TypeOK'
  <2>1. ThreadTyped'
    <3>1. [Idle EXCEPT !.pc = "merge", !.from = "dispatch", !.kind = "wake"]
      \in ThreadRecords
      BY DEF Idle, ThreadRecords, Pcs, HoldingPcs, RunPcs, Entries
    <3>2. CASE stopped
      BY <1>17, <3>2 DEF WakeRechecks, Goto, ThreadTyped, ThreadRecords, Pcs,
        HoldingPcs, RunPcs, Entries
    <3>. QED  BY <1>17, <3>1, <3>2 DEF WakeRechecks, Become, ThreadTyped
  <2>2. used' \in [DOMAIN used -> Nat]
    BY <1>17 DEF WakeRechecks, Count, history
  <2>3. Q!TypeOK'
    BY <1>17 DEF WakeRechecks, queue, Entries
  <2>. QED
    BY <1>17, <2>1, <2>2, <2>3 DEF WakeRechecks, ThreadTyped, TryStartRun,
      DropGuard, results, memory, history
<1>18. ASSUME NEW t \in Threads, RunMerges(t) PROVE TypeOK'
  <2>1. ThreadTyped'
    <3>1. PICK c \in SUBSET (Entries \cup Tasks), p \in {"drop", "save"} :
            thread' = [thread EXCEPT ![t] = [@ EXCEPT !.carry = c, !.pc = p]]
      <4>1. {thread[t].entry} \ {None} \subseteq Entries
        BY DEF ThreadTyped, ThreadRecords
      <4>. QED  BY <1>18, <4>1 DEF RunMerges
    <3>2. [thread[t] EXCEPT !.carry = c, !.pc = p] \in ThreadRecords
      <4>1. thread[t] \in ThreadRecords /\ p \in Pcs
        BY DEF ThreadTyped, Pcs, HoldingPcs, RunPcs
      <4>. QED  BY <4>1, RecordUpdates
    <3>3. thread' = [thread EXCEPT ![t] = [thread[t] EXCEPT !.carry = c, !.pc
      = p]]
      BY <3>1 DEF ThreadTyped
    <3>. QED  BY <3>2, <3>3 DEF ThreadTyped
  <2>2. used' \in [DOMAIN used -> Nat]
    BY <1>18 DEF RunMerges, Count, history
  <2>3. Q!TypeOK'
    BY <1>18 DEF RunMerges, queue, Entries
  <2>. QED
    BY <1>18, <2>1, <2>2, <2>3 DEF RunMerges, ThreadTyped, TryStartRun,
      DropGuard, results, memory, history
<1> USE DEF At, Goto, Become, Exit, Arrive, Free, Count, TryStartRun,
  DropGuard, Returned, Save, Handler, Dispatch, Wake, Idle, queue, results,
  memory, history, ThreadRecords, Pcs, HoldingPcs, RunPcs, Entries
<1>19. ASSUME NEW e \in Entries, Remove(e) PROVE TypeOK'
  BY <1>19 DEF Remove
<1>20. ASSUME NEW k \in Tasks, TaskFinishes(k) PROVE TypeOK'
  BY <1>20 DEF TaskFinishes
<1>21. ASSUME NEW t \in Threads, SendNowCancel(t) PROVE TypeOK'
  BY <1>21 DEF SendNowCancel
<1>22. ASSUME NEW t \in Threads, StopCancel(t) PROVE TypeOK'
  BY <1>22 DEF StopCancel
<1>23. ASSUME NEW t \in Threads, StopReturns(t) PROVE TypeOK'
  BY <1>23 DEF StopReturns
<1>24. ASSUME NEW t \in Threads, StopRemovesRound(t) PROVE TypeOK'
  BY <1>24 DEF StopRemovesRound
<1>25. ASSUME NEW t \in Threads, SpawnFindsNothing(t) PROVE TypeOK'
  BY <1>25 DEF SpawnFindsNothing
<1>26. ASSUME NEW t \in Threads, SpawnDropsGuard(t) PROVE TypeOK'
  BY <1>26 DEF SpawnDropsGuard
<1>27. ASSUME NEW t \in Threads, WakeYields(t) PROVE TypeOK'
  BY <1>27 DEF WakeYields
<1>28. ASSUME NEW t \in Threads, WakeChecks(t) PROVE TypeOK'
  BY <1>28 DEF WakeChecks
<1>29. ASSUME NEW t \in Threads, WakeReadsTasks(t) PROVE TypeOK'
  BY <1>29 DEF WakeReadsTasks
<1>30. ASSUME NEW t \in Threads, WakeParks(t) PROVE TypeOK'
  BY <1>30 DEF WakeParks
<1>31. ASSUME NEW t \in Threads, WakeDropsGuard(t) PROVE TypeOK'
  BY <1>31 DEF WakeDropsGuard
<1>32. ASSUME NEW t \in Threads, WakeFails(t) PROVE TypeOK'
  BY <1>32 DEF WakeFails
<1>33. ASSUME NEW t \in Threads, RunSaves(t) PROVE TypeOK'
  BY <1>33, RunSavesMoves DEF MovesTo, TranscriptGrows, CarrySaved
<1>34. ASSUME NEW t \in Threads, RunDequeues(t) PROVE TypeOK'
  BY <1>34 DEF RunDequeues
<1>35. ASSUME NEW t \in Threads, RunIterates(t) PROVE TypeOK'
  BY <1>35, RunIteratesMoves DEF MovesTo, TranscriptGrows
<1>36. ASSUME NEW t \in Threads, RunErrs(t) PROVE TypeOK'
  BY <1>36 DEF RunErrs
<1>37. ASSUME NEW t \in Threads, RunTimesOut(t) PROVE TypeOK'
  BY <1>37 DEF RunTimesOut
<1>38. ASSUME NEW t \in Threads, RunCompletes(t) PROVE TypeOK'
  BY <1>38, RunCompletesMoves DEF MovesTo, TranscriptGrows
<1>39. ASSUME NEW t \in Threads, RunFinishes(t) PROVE TypeOK'
  BY <1>39 DEF RunFinishes
<1>40. ASSUME NEW t \in Threads, RunDropsGuard(t) PROVE TypeOK'
  BY <1>40 DEF RunDropsGuard
<1>41. CASE UNCHANGED vars
  BY <1>41 DEF vars
<1>. QED
  BY <1>1, <1>2, <1>3, <1>4, <1>5, <1>6, <1>7, <1>8, <1>9, <1>10, <1>11,
     <1>12, <1>13, <1>14, <1>15, <1>16, <1>17, <1>18, <1>19, <1>20, <1>21,
       <1>22,
     <1>23, <1>24, <1>25, <1>26, <1>27, <1>28, <1>29, <1>30, <1>31, <1>32,
       <1>33,
     <1>34, <1>35, <1>36, <1>37, <1>38, <1>39, <1>40, <1>41
  DEF Next, Environment, ThreadStep, Request, Spawn, WakeUp, Run

(* The entry is set when the row is claimed and kept until the run ends.   *)
LEMMA EntryStep == TypeOK /\ EntryCarried /\ [Next]_vars => EntryCarried'
<1> SUFFICES ASSUME TypeOK, EntryCarried, [Next]_vars PROVE EntryCarried'
  OBVIOUS
<1> USE DEF TypeOK, ThreadRecords, EntryCarried, RunPcs
<1>1. ASSUME NEW t \in Threads, SendNowBusy(t) PROVE EntryCarried'
  <2>1. CASE active # None
    BY <1>1, <2>1 DEF SendNowBusy, At, Goto, queue, results, memory, history
  <2>2. Dispatch.pc = "spawn" /\ Dispatch.kind = "none"
    BY DEF Dispatch, Idle
  <2>3. CASE active = None
    <3>1. Become(t, Dispatch) /\ UNCHANGED <<queue, transcript, results,
      memory, history>>
      BY <1>1, <2>3 DEF SendNowBusy
    <3>. QED  BY <1>1, <2>2, <2>3, <3>1 DEF SendNowBusy, At, Become, queue,
      results, memory, history
  <2>. QED  BY <2>1, <2>3
<1>2. ASSUME NEW t \in Threads, SpawnChecksStopped(t) PROVE EntryCarried'
  <2>1. CASE stopped
    BY <1>2, <2>1, ReturnedRecord DEF SpawnChecksStopped, At, Become, queue,
      results, memory, history
  <2>2. CASE ~stopped
    BY <1>2, <2>2 DEF SpawnChecksStopped, At, Goto, queue, results, memory,
      history
  <2>. QED  BY <2>1, <2>2
<1>3. ASSUME NEW t \in Threads, SpawnStarts(t) PROVE EntryCarried'
  <2>1. CASE TryStartRun(t) /\ Goto(t, "recheck")
    BY <1>3, <2>1 DEF SpawnStarts, At, TryStartRun, Goto, queue, results,
      memory, history
  <2>2. CASE Become(t, Returned(t)) /\ UNCHANGED <<active, cancel>>
    BY <1>3, <2>2, ReturnedRecord DEF SpawnStarts, At, Become, queue, results,
      memory, history
  <2>. QED  BY <1>3, <2>1, <2>2 DEF SpawnStarts
<1>4. ASSUME NEW t \in Threads, SpawnRechecks(t) PROVE EntryCarried'
  <2>1. CASE stopped
    BY <1>4, <2>1, ReturnedRecord DEF SpawnRechecks, At, Become, DropGuard,
      queue, results, memory, history
  <2>2. CASE ~stopped
    BY <1>4, <2>2 DEF SpawnRechecks, At, Goto, queue, results, memory, history
  <2>. QED  BY <2>1, <2>2
<1>5. ASSUME NEW t \in Threads, SpawnClaims(t) PROVE EntryCarried'
  <2>1. PICK e \in Entries :
          \/ Become(t, [Idle EXCEPT !.pc = "merge", !.from = "dispatch",
                                    !.kind = "queued", !.entry = e])
          \/ thread' = [thread EXCEPT ![t] = [@ EXCEPT !.pc = "reject",
                                                       !.entry = e]]
    BY <1>5 DEF SpawnClaims
  <2>2. CASE Become(t, [Idle EXCEPT !.pc = "merge", !.from = "dispatch",
                                   !.kind = "queued", !.entry = e])
    BY <1>5, <2>2 DEF SpawnClaims, At, Become, Idle, queue, results, memory,
      history
  <2>3. CASE thread' = [thread EXCEPT ![t] = [@ EXCEPT !.pc = "reject",
                                                       !.entry = e]]
    BY <1>5, <2>3 DEF SpawnClaims, At, queue, results, memory, history
  <2>. QED  BY <2>1, <2>2, <2>3
<1>6. ASSUME NEW t \in Threads, SpawnSettles(t) PROVE EntryCarried'
  <2>1. Wake.pc = "wake" /\ Wake.kind = "none"
    BY DEF Wake, Idle
  <2>. QED
    BY <1>6, <2>1, ReturnedRecord DEF SpawnSettles, At, Become, Free, queue,
      results, memory, history
<1>7. ASSUME NEW t \in Threads, DispatchChecksWake(t) PROVE EntryCarried'
  <2>1. Wake.pc = "wake" /\ Wake.kind = "none" /\ Idle.pc = "idle" /\
    Idle.kind = "none"
    BY DEF Wake, Idle
  <2>. QED
    BY <1>7, <2>1 DEF DispatchChecksWake, At, Become, Exit, queue, results,
      memory, history
<1>8. ASSUME NEW t \in Threads, WakeRechecks(t) PROVE EntryCarried'
  <2>1. CASE stopped
    BY <1>8, <2>1 DEF WakeRechecks, At, Goto, queue, results, memory, history
  <2> DEFINE run == [Idle EXCEPT !.pc = "merge", !.from = "dispatch", !.kind =
    "wake"]
  <2>2. run.pc = "merge" /\ run.kind = "wake"
    BY DEF Idle
  <2>3. CASE ~stopped
    <3>1. Become(t, run)
      BY <1>8, <2>3 DEF WakeRechecks
    <3> HIDE DEF run
    <3>. QED  BY <1>8, <2>2, <2>3, <3>1 DEF WakeRechecks, At, Become, queue,
      results, memory, history
  <2>. QED  BY <2>1, <2>3
<1> USE DEF At, Goto, Become, Exit, Arrive, Free, Count, TryStartRun,
  DropGuard, Returned, Save, Handler, Dispatch, Wake, Idle, queue, results,
  memory, history
<1>9. ASSUME NEW m \in Messages, Send(m) PROVE EntryCarried'
  BY <1>9 DEF Send
<1>10. ASSUME NEW e \in Entries, SendNow(e) PROVE EntryCarried'
  BY <1>10 DEF SendNow
<1>11. ASSUME NEW e \in Entries, Remove(e) PROVE EntryCarried'
  BY <1>11 DEF Remove
<1>12. ASSUME NEW k \in Tasks, TaskFinishes(k) PROVE EntryCarried'
  BY <1>12 DEF TaskFinishes
<1>13. ASSUME Stop PROVE EntryCarried'
  BY <1>13 DEF Stop
<1>14. ASSUME StartDirect PROVE EntryCarried'
  BY <1>14 DEF StartDirect
<1>15. ASSUME Crash PROVE EntryCarried'
  BY <1>15 DEF Crash
<1>16. ASSUME NEW t \in Threads, Resume(t) PROVE EntryCarried'
  BY <1>16 DEF Resume
<1>17. ASSUME NEW t \in Threads, SendNowCancel(t) PROVE EntryCarried'
  BY <1>17 DEF SendNowCancel
<1>18. ASSUME NEW t \in Threads, StopCancel(t) PROVE EntryCarried'
  BY <1>18 DEF StopCancel
<1>19. ASSUME NEW t \in Threads, StopReturns(t) PROVE EntryCarried'
  BY <1>19 DEF StopReturns
<1>20. ASSUME NEW t \in Threads, StopRemovesRound(t) PROVE EntryCarried'
  BY <1>20 DEF StopRemovesRound
<1>21. ASSUME NEW t \in Threads, SpawnRejectsRound(t) PROVE EntryCarried'
  <2>1. At(t, "reject") /\ thread' = [thread EXCEPT ![t] = thread'[t]]
    BY <1>21 DEF SpawnRejectsRound
  <2>2. thread'[t].pc = "recheck" /\ thread'[t].kind = thread[t].kind
    BY <1>21 DEF SpawnRejectsRound
  <2>. QED  BY <2>1, <2>2
<1>22. ASSUME NEW t \in Threads, SpawnFindsNothing(t) PROVE EntryCarried'
  BY <1>22 DEF SpawnFindsNothing
<1>23. ASSUME NEW t \in Threads, SpawnDropsGuard(t) PROVE EntryCarried'
  BY <1>23 DEF SpawnDropsGuard
<1>24. ASSUME NEW t \in Threads, SpawnFails(t) PROVE EntryCarried'
  BY <1>24 DEF SpawnFails
<1>25. ASSUME NEW t \in Threads, WakeYields(t) PROVE EntryCarried'
  BY <1>25 DEF WakeYields
<1>26. ASSUME NEW t \in Threads, WakeChecks(t) PROVE EntryCarried'
  BY <1>26 DEF WakeChecks
<1>27. ASSUME NEW t \in Threads, WakeReadsTasks(t) PROVE EntryCarried'
  BY <1>27 DEF WakeReadsTasks
<1>28. ASSUME NEW t \in Threads, WakeStarts(t) PROVE EntryCarried'
  BY <1>28 DEF WakeStarts
<1>29. ASSUME NEW t \in Threads, WakeParks(t) PROVE EntryCarried'
  BY <1>29 DEF WakeParks
<1>30. ASSUME NEW t \in Threads, WakeDropsGuard(t) PROVE EntryCarried'
  BY <1>30 DEF WakeDropsGuard
<1>31. ASSUME NEW t \in Threads, WakeFails(t) PROVE EntryCarried'
  BY <1>31 DEF WakeFails
<1>32. ASSUME NEW t \in Threads, RunMerges(t) PROVE EntryCarried'
  BY <1>32 DEF RunMerges
<1>33. ASSUME NEW t \in Threads, RunSaves(t) PROVE EntryCarried'
  BY <1>33, RunSavesMoves DEF MovesTo, TranscriptGrows, CarrySaved
<1>34. ASSUME NEW t \in Threads, RunDequeues(t) PROVE EntryCarried'
  BY <1>34 DEF RunDequeues
<1>35. ASSUME NEW t \in Threads, RunIterates(t) PROVE EntryCarried'
  BY <1>35, RunIteratesMoves DEF MovesTo, TranscriptGrows
<1>36. ASSUME NEW t \in Threads, RunErrs(t) PROVE EntryCarried'
  BY <1>36 DEF RunErrs
<1>37. ASSUME NEW t \in Threads, RunTimesOut(t) PROVE EntryCarried'
  BY <1>37 DEF RunTimesOut
<1>38. ASSUME NEW t \in Threads, RunCompletes(t) PROVE EntryCarried'
  BY <1>38, RunCompletesMoves DEF MovesTo, TranscriptGrows
<1>39. ASSUME NEW t \in Threads, RunFinishes(t) PROVE EntryCarried'
  BY <1>39 DEF RunFinishes
<1>40. ASSUME NEW t \in Threads, RunDropsGuard(t) PROVE EntryCarried'
  BY <1>40 DEF RunDropsGuard
<1>41. CASE UNCHANGED vars
  BY <1>41 DEF vars
<1>. QED
  BY <1>1, <1>2, <1>3, <1>4, <1>5, <1>6, <1>7, <1>8, <1>9, <1>10, <1>11,
     <1>12, <1>13, <1>14, <1>15, <1>16, <1>17, <1>18, <1>19, <1>20, <1>21,
       <1>22,
     <1>23, <1>24, <1>25, <1>26, <1>27, <1>28, <1>29, <1>30, <1>31, <1>32,
       <1>33,
     <1>34, <1>35, <1>36, <1>37, <1>38, <1>39, <1>40, <1>41
  DEF Next, Environment, ThreadStep, Request, Spawn, WakeUp, Run

(* Every step that enters the part of a thread that holds the guard takes  *)
(* it, every step that leaves drops it.                                    *)
LEMMA GuardStep == TypeOK /\ GuardHeld /\ [Next]_vars => GuardHeld'
<1> SUFFICES ASSUME TypeOK, GuardHeld, [Next]_vars PROVE GuardHeld'
  OBVIOUS
<1> USE NoneIsNothing DEF TypeOK, ThreadRecords, GuardHeld, HoldingPcs, RunPcs
<1>1. ASSUME NEW t \in Threads, SendNowBusy(t) PROVE GuardHeld'
  <2>1. CASE active # None
    BY <1>1, <2>1 DEF SendNowBusy, At, Goto, queue, results, memory, history
  <2>2. Dispatch.pc = "spawn" /\ Dispatch.kind = "none"
    BY DEF Dispatch, Idle
  <2>3. CASE active = None
    <3>1. Become(t, Dispatch) /\ UNCHANGED <<queue, transcript, results,
      memory, history>>
      BY <1>1, <2>3 DEF SendNowBusy
    <3>. QED  BY <1>1, <2>2, <2>3, <3>1 DEF SendNowBusy, At, Become, queue,
      results, memory, history
  <2>. QED  BY <2>1, <2>3
<1>2. ASSUME NEW t \in Threads, SpawnChecksStopped(t) PROVE GuardHeld'
  <2>1. CASE stopped
    BY <1>2, <2>1, ReturnedRecord DEF SpawnChecksStopped, At, Become, queue,
      results, memory, history
  <2>2. CASE ~stopped
    BY <1>2, <2>2 DEF SpawnChecksStopped, At, Goto, queue, results, memory,
      history
  <2>. QED  BY <2>1, <2>2
<1>3. ASSUME NEW t \in Threads, SpawnStarts(t) PROVE GuardHeld'
  <2>1. CASE TryStartRun(t) /\ Goto(t, "recheck")
    BY <1>3, <2>1 DEF SpawnStarts, At, TryStartRun, Goto, queue, results,
      memory, history
  <2>2. CASE Become(t, Returned(t)) /\ UNCHANGED <<active, cancel>>
    BY <1>3, <2>2, ReturnedRecord DEF SpawnStarts, At, Become, queue, results,
      memory, history
  <2>. QED  BY <1>3, <2>1, <2>2 DEF SpawnStarts
<1>4. ASSUME NEW t \in Threads, SpawnRechecks(t) PROVE GuardHeld'
  <2>1. CASE stopped
    BY <1>4, <2>1, ReturnedRecord DEF SpawnRechecks, At, Become, DropGuard,
      queue, results, memory, history
  <2>2. CASE ~stopped
    BY <1>4, <2>2 DEF SpawnRechecks, At, Goto, queue, results, memory, history
  <2>. QED  BY <2>1, <2>2
<1>5. ASSUME NEW t \in Threads, SpawnClaims(t) PROVE GuardHeld'
  <2>1. PICK e \in Entries :
          \/ Become(t, [Idle EXCEPT !.pc = "merge", !.from = "dispatch",
                                    !.kind = "queued", !.entry = e])
          \/ thread' = [thread EXCEPT ![t] = [@ EXCEPT !.pc = "reject",
                                                       !.entry = e]]
    BY <1>5 DEF SpawnClaims
  <2>2. CASE Become(t, [Idle EXCEPT !.pc = "merge", !.from = "dispatch",
                                   !.kind = "queued", !.entry = e])
    BY <1>5, <2>2 DEF SpawnClaims, At, Become, Idle, queue, results, memory,
      history
  <2>3. CASE thread' = [thread EXCEPT ![t] = [@ EXCEPT !.pc = "reject",
                                                       !.entry = e]]
    BY <1>5, <2>3 DEF SpawnClaims, At, queue, results, memory, history
  <2>. QED  BY <2>1, <2>2, <2>3
<1>6. ASSUME NEW t \in Threads, SpawnSettles(t) PROVE GuardHeld'
  <2>1. Wake.pc = "wake" /\ Wake.kind = "none"
    BY DEF Wake, Idle
  <2>. QED
    BY <1>6, <2>1, ReturnedRecord DEF SpawnSettles, At, Become, Free, queue,
      results, memory, history
<1>7. ASSUME NEW t \in Threads, DispatchChecksWake(t) PROVE GuardHeld'
  <2>1. Wake.pc = "wake" /\ Wake.kind = "none" /\ Idle.pc = "idle" /\
    Idle.kind = "none"
    BY DEF Wake, Idle
  <2>. QED
    BY <1>7, <2>1 DEF DispatchChecksWake, At, Become, Exit, queue, results,
      memory, history
<1>8. ASSUME NEW t \in Threads, WakeRechecks(t) PROVE GuardHeld'
  <2>1. CASE stopped
    BY <1>8, <2>1 DEF WakeRechecks, At, Goto, queue, results, memory, history
  <2> DEFINE run == [Idle EXCEPT !.pc = "merge", !.from = "dispatch", !.kind =
    "wake"]
  <2>2. run.pc = "merge" /\ run.kind = "wake"
    BY DEF Idle
  <2>3. CASE ~stopped
    <3>1. Become(t, run)
      BY <1>8, <2>3 DEF WakeRechecks
    <3> HIDE DEF run
    <3>. QED  BY <1>8, <2>2, <2>3, <3>1 DEF WakeRechecks, At, Become, queue,
      results, memory, history
  <2>. QED  BY <2>1, <2>3
<1> USE DEF At, Goto, Become, Exit, Arrive, Free, Count, TryStartRun,
  DropGuard, Returned, Save, Handler, Dispatch, Wake, Idle, queue, results,
  memory, history
<1>9. ASSUME NEW m \in Messages, Send(m) PROVE GuardHeld'
  BY <1>9 DEF Send
<1>10. ASSUME NEW e \in Entries, SendNow(e) PROVE GuardHeld'
  BY <1>10 DEF SendNow
<1>11. ASSUME NEW e \in Entries, Remove(e) PROVE GuardHeld'
  BY <1>11 DEF Remove
<1>12. ASSUME NEW k \in Tasks, TaskFinishes(k) PROVE GuardHeld'
  BY <1>12 DEF TaskFinishes
<1>13. ASSUME Stop PROVE GuardHeld'
  BY <1>13 DEF Stop
<1>14. ASSUME StartDirect PROVE GuardHeld'
  BY <1>14 DEF StartDirect
<1>15. ASSUME Crash PROVE GuardHeld'
  BY <1>15 DEF Crash
<1>16. ASSUME NEW t \in Threads, Resume(t) PROVE GuardHeld'
  BY <1>16 DEF Resume
<1>17. ASSUME NEW t \in Threads, SendNowCancel(t) PROVE GuardHeld'
  BY <1>17 DEF SendNowCancel
<1>18. ASSUME NEW t \in Threads, StopCancel(t) PROVE GuardHeld'
  BY <1>18 DEF StopCancel
<1>19. ASSUME NEW t \in Threads, StopReturns(t) PROVE GuardHeld'
  BY <1>19 DEF StopReturns
<1>20. ASSUME NEW t \in Threads, StopRemovesRound(t) PROVE GuardHeld'
  BY <1>20 DEF StopRemovesRound
<1>21. ASSUME NEW t \in Threads, SpawnRejectsRound(t) PROVE GuardHeld'
  BY <1>21 DEF SpawnRejectsRound
<1>22. ASSUME NEW t \in Threads, SpawnFindsNothing(t) PROVE GuardHeld'
  BY <1>22 DEF SpawnFindsNothing
<1>23. ASSUME NEW t \in Threads, SpawnDropsGuard(t) PROVE GuardHeld'
  BY <1>23 DEF SpawnDropsGuard
<1>24. ASSUME NEW t \in Threads, SpawnFails(t) PROVE GuardHeld'
  BY <1>24 DEF SpawnFails
<1>25. ASSUME NEW t \in Threads, WakeYields(t) PROVE GuardHeld'
  BY <1>25 DEF WakeYields
<1>26. ASSUME NEW t \in Threads, WakeChecks(t) PROVE GuardHeld'
  BY <1>26 DEF WakeChecks
<1>27. ASSUME NEW t \in Threads, WakeReadsTasks(t) PROVE GuardHeld'
  BY <1>27 DEF WakeReadsTasks
<1>28. ASSUME NEW t \in Threads, WakeStarts(t) PROVE GuardHeld'
  BY <1>28 DEF WakeStarts
<1>29. ASSUME NEW t \in Threads, WakeParks(t) PROVE GuardHeld'
  BY <1>29 DEF WakeParks
<1>30. ASSUME NEW t \in Threads, WakeDropsGuard(t) PROVE GuardHeld'
  BY <1>30 DEF WakeDropsGuard
<1>31. ASSUME NEW t \in Threads, WakeFails(t) PROVE GuardHeld'
  BY <1>31 DEF WakeFails
<1>32. ASSUME NEW t \in Threads, RunMerges(t) PROVE GuardHeld'
  BY <1>32 DEF RunMerges
<1>33. ASSUME NEW t \in Threads, RunSaves(t) PROVE GuardHeld'
  BY <1>33, RunSavesMoves DEF MovesTo, TranscriptGrows, CarrySaved
<1>34. ASSUME NEW t \in Threads, RunDequeues(t) PROVE GuardHeld'
  BY <1>34 DEF RunDequeues
<1>35. ASSUME NEW t \in Threads, RunIterates(t) PROVE GuardHeld'
  BY <1>35, RunIteratesMoves DEF MovesTo, TranscriptGrows
<1>36. ASSUME NEW t \in Threads, RunErrs(t) PROVE GuardHeld'
  BY <1>36 DEF RunErrs
<1>37. ASSUME NEW t \in Threads, RunTimesOut(t) PROVE GuardHeld'
  BY <1>37 DEF RunTimesOut
<1>38. ASSUME NEW t \in Threads, RunCompletes(t) PROVE GuardHeld'
  BY <1>38, RunCompletesMoves DEF MovesTo, TranscriptGrows
<1>39. ASSUME NEW t \in Threads, RunFinishes(t) PROVE GuardHeld'
  BY <1>39 DEF RunFinishes
<1>40. ASSUME NEW t \in Threads, RunDropsGuard(t) PROVE GuardHeld'
  BY <1>40 DEF RunDropsGuard
<1>41. CASE UNCHANGED vars
  BY <1>41 DEF vars
<1>. QED
  BY <1>1, <1>2, <1>3, <1>4, <1>5, <1>6, <1>7, <1>8, <1>9, <1>10, <1>11,
     <1>12, <1>13, <1>14, <1>15, <1>16, <1>17, <1>18, <1>19, <1>20, <1>21,
       <1>22,
     <1>23, <1>24, <1>25, <1>26, <1>27, <1>28, <1>29, <1>30, <1>31, <1>32,
       <1>33,
     <1>34, <1>35, <1>36, <1>37, <1>38, <1>39, <1>40, <1>41
  DEF Next, Environment, ThreadStep, Request, Spawn, WakeUp, Run

(* StopHolds, and the dispatch that has passed its last look at            *)
(* stopped_sessions counts as a run already.                               *)
StopReaches ==
  stopped /\ (\A t \in Threads : ~At(t, "stopCancel")) =>
    \A t \in Threads :
      \/ At(t, "claim")
      \/ thread[t].pc \in RunPcs /\ thread[t].kind \in {"queued", "wake"}
      => cancel

(* A run that goes on, neither cancelled nor stopped meanwhile.            *)
LEMMA RunGoesOn ==
  ASSUME TypeOK, StopReaches, UNCHANGED <<cancel, stopped>>, NEW t \in Threads,
         NEW p \in RunPcs, thread[t].pc \in RunPcs, MovesTo(t, p)
  PROVE  StopReaches'
<1>1. \A u \in Threads : thread'[u].pc = "stopCancel" <=> thread[u].pc = "stopCancel"
  BY DEF MovesTo, RunPcs
<1>2. \A u \in Threads : At(u, "claim")' => At(u, "claim")
  BY DEF MovesTo, RunPcs, At
<1>3. \A u \in Threads :
        thread'[u].pc \in RunPcs /\ thread'[u].kind \in {"queued", "wake"} =>
          thread[u].pc \in RunPcs /\ thread[u].kind \in {"queued", "wake"}
  BY DEF MovesTo
<1>. QED  BY <1>1, <1>2, <1>3 DEF StopReaches, At

(* A guard is taken only when no run is there to be stopped; what is then  *)
(* started has read stopped_sessions again.                                *)
LEMMA StopStep == TypeOK /\ GuardHeld /\ StopReaches /\ [Next]_vars => StopReaches'
<1> SUFFICES ASSUME TypeOK, GuardHeld, StopReaches, [Next]_vars PROVE StopReaches'
  OBVIOUS
<1> USE NoneIsNothing DEF TypeOK, ThreadRecords, GuardHeld, HoldingPcs, RunPcs, StopReaches
<1>1. ASSUME NEW t \in Threads, SendNowBusy(t) PROVE StopReaches'
  <2>1. CASE active # None
    BY <1>1, <2>1 DEF SendNowBusy, At, Goto, queue, results, memory, history
  <2>2. Dispatch.pc = "spawn" /\ Dispatch.kind = "none"
    BY DEF Dispatch, Idle
  <2>3. CASE active = None
    <3>1. Become(t, Dispatch) /\ UNCHANGED <<queue, transcript, results,
      memory, history>>
      BY <1>1, <2>3 DEF SendNowBusy
    <3>. QED  BY <1>1, <2>2, <2>3, <3>1 DEF SendNowBusy, At, Become, queue,
      results, memory, history
  <2>. QED  BY <2>1, <2>3
<1>2. ASSUME NEW t \in Threads, SpawnChecksStopped(t) PROVE StopReaches'
  <2>1. CASE stopped
    BY <1>2, <2>1, ReturnedRecord DEF SpawnChecksStopped, At, Become, queue,
      results, memory, history
  <2>2. CASE ~stopped
    BY <1>2, <2>2 DEF SpawnChecksStopped, At, Goto, queue, results, memory,
      history
  <2>. QED  BY <2>1, <2>2
<1>3. ASSUME NEW t \in Threads, SpawnStarts(t) PROVE StopReaches'
  <2>1. CASE TryStartRun(t) /\ Goto(t, "recheck")
    BY <1>3, <2>1 DEF SpawnStarts, At, TryStartRun, Goto, queue, results,
      memory, history
  <2>2. CASE Become(t, Returned(t)) /\ UNCHANGED <<active, cancel>>
    BY <1>3, <2>2, ReturnedRecord DEF SpawnStarts, At, Become, queue, results,
      memory, history
  <2>. QED  BY <1>3, <2>1, <2>2 DEF SpawnStarts
<1>4. ASSUME NEW t \in Threads, SpawnRechecks(t) PROVE StopReaches'
  <2>1. CASE stopped
    BY <1>4, <2>1, ReturnedRecord DEF SpawnRechecks, At, Become, DropGuard,
      queue, results, memory, history
  <2>2. CASE ~stopped
    BY <1>4, <2>2 DEF SpawnRechecks, At, Goto, queue, results, memory, history
  <2>. QED  BY <2>1, <2>2
<1>5. ASSUME NEW t \in Threads, SpawnClaims(t) PROVE StopReaches'
  <2>1. PICK e \in Entries :
          \/ Become(t, [Idle EXCEPT !.pc = "merge", !.from = "dispatch",
                                    !.kind = "queued", !.entry = e])
          \/ thread' = [thread EXCEPT ![t] = [@ EXCEPT !.pc = "reject",
                                                       !.entry = e]]
    BY <1>5 DEF SpawnClaims
  <2>2. CASE Become(t, [Idle EXCEPT !.pc = "merge", !.from = "dispatch",
                                   !.kind = "queued", !.entry = e])
    BY <1>5, <2>2 DEF SpawnClaims, At, Become, Idle, queue, results, memory,
      history
  <2>3. CASE thread' = [thread EXCEPT ![t] = [@ EXCEPT !.pc = "reject",
                                                       !.entry = e]]
    BY <1>5, <2>3 DEF SpawnClaims, At, queue, results, memory, history
  <2>. QED  BY <2>1, <2>2, <2>3
<1>6. ASSUME NEW t \in Threads, SpawnSettles(t) PROVE StopReaches'
  <2>1. Wake.pc = "wake" /\ Wake.kind = "none"
    BY DEF Wake, Idle
  <2>. QED
    BY <1>6, <2>1, ReturnedRecord DEF SpawnSettles, At, Become, Free, queue,
      results, memory, history
<1>7. ASSUME NEW t \in Threads, DispatchChecksWake(t) PROVE StopReaches'
  <2>1. Wake.pc = "wake" /\ Wake.kind = "none" /\ Idle.pc = "idle" /\
    Idle.kind = "none"
    BY DEF Wake, Idle
  <2>. QED
    BY <1>7, <2>1 DEF DispatchChecksWake, At, Become, Exit, queue, results,
      memory, history
<1>8. ASSUME NEW t \in Threads, WakeRechecks(t) PROVE StopReaches'
  <2>1. CASE stopped
    BY <1>8, <2>1 DEF WakeRechecks, At, Goto, queue, results, memory, history
  <2> DEFINE run == [Idle EXCEPT !.pc = "merge", !.from = "dispatch", !.kind =
    "wake"]
  <2>2. run.pc = "merge" /\ run.kind = "wake"
    BY DEF Idle
  <2>3. CASE ~stopped
    <3>1. Become(t, run)
      BY <1>8, <2>3 DEF WakeRechecks
    <3> HIDE DEF run
    <3>. QED  BY <1>8, <2>2, <2>3, <3>1 DEF WakeRechecks, At, Become, queue,
      results, memory, history
  <2>. QED  BY <2>1, <2>3
<1> USE DEF At, Goto, Become, Exit, Arrive, Free, Count, TryStartRun,
  DropGuard, Returned, Save, Handler, Dispatch, Wake, Idle, queue, results,
  memory, history
<1>9. ASSUME NEW m \in Messages, Send(m) PROVE StopReaches'
  BY <1>9 DEF Send
<1>10. ASSUME NEW e \in Entries, SendNow(e) PROVE StopReaches'
  BY <1>10 DEF SendNow
<1>11. ASSUME NEW e \in Entries, Remove(e) PROVE StopReaches'
  BY <1>11 DEF Remove
<1>12. ASSUME NEW k \in Tasks, TaskFinishes(k) PROVE StopReaches'
  BY <1>12 DEF TaskFinishes
<1>13. ASSUME Stop PROVE StopReaches'
  BY <1>13 DEF Stop
<1>14. ASSUME StartDirect PROVE StopReaches'
  BY <1>14 DEF StartDirect
<1>15. ASSUME Crash PROVE StopReaches'
  BY <1>15 DEF Crash
<1>16. ASSUME NEW t \in Threads, Resume(t) PROVE StopReaches'
  BY <1>16 DEF Resume
<1>17. ASSUME NEW t \in Threads, SendNowCancel(t) PROVE StopReaches'
  BY <1>17 DEF SendNowCancel
<1>18. ASSUME NEW t \in Threads, StopCancel(t) PROVE StopReaches'
  BY <1>18 DEF StopCancel
<1>19. ASSUME NEW t \in Threads, StopReturns(t) PROVE StopReaches'
  BY <1>19 DEF StopReturns
<1>20. ASSUME NEW t \in Threads, StopRemovesRound(t) PROVE StopReaches'
  BY <1>20 DEF StopRemovesRound
<1>21. ASSUME NEW t \in Threads, SpawnRejectsRound(t) PROVE StopReaches'
  BY <1>21 DEF SpawnRejectsRound
<1>22. ASSUME NEW t \in Threads, SpawnFindsNothing(t) PROVE StopReaches'
  BY <1>22 DEF SpawnFindsNothing
<1>23. ASSUME NEW t \in Threads, SpawnDropsGuard(t) PROVE StopReaches'
  BY <1>23 DEF SpawnDropsGuard
<1>24. ASSUME NEW t \in Threads, SpawnFails(t) PROVE StopReaches'
  BY <1>24 DEF SpawnFails
<1>25. ASSUME NEW t \in Threads, WakeYields(t) PROVE StopReaches'
  BY <1>25 DEF WakeYields
<1>26. ASSUME NEW t \in Threads, WakeChecks(t) PROVE StopReaches'
  BY <1>26 DEF WakeChecks
<1>27. ASSUME NEW t \in Threads, WakeReadsTasks(t) PROVE StopReaches'
  BY <1>27 DEF WakeReadsTasks
<1>28. ASSUME NEW t \in Threads, WakeStarts(t) PROVE StopReaches'
  BY <1>28 DEF WakeStarts
<1>29. ASSUME NEW t \in Threads, WakeParks(t) PROVE StopReaches'
  BY <1>29 DEF WakeParks
<1>30. ASSUME NEW t \in Threads, WakeDropsGuard(t) PROVE StopReaches'
  BY <1>30 DEF WakeDropsGuard
<1>31. ASSUME NEW t \in Threads, WakeFails(t) PROVE StopReaches'
  BY <1>31 DEF WakeFails
<1>32. ASSUME NEW t \in Threads, RunMerges(t) PROVE StopReaches'
  BY <1>32 DEF RunMerges
<1>33. ASSUME NEW t \in Threads, RunSaves(t) PROVE StopReaches'
  <2>1. \E p \in {"dequeue", "loop"} : MovesTo(t, p)
    BY <1>33, RunSavesMoves
  <2>2. UNCHANGED <<cancel, stopped>> /\ thread[t].pc \in RunPcs
    BY <1>33, RunSavesMoves
  <2>. QED  BY <2>1, <2>2, RunGoesOn
<1>34. ASSUME NEW t \in Threads, RunDequeues(t) PROVE StopReaches'
  BY <1>34 DEF RunDequeues
<1>35. ASSUME NEW t \in Threads, RunIterates(t) PROVE StopReaches'
  <2>1. \E p \in {"drop", "complete"} : MovesTo(t, p)
    BY <1>35, RunIteratesMoves
  <2>2. UNCHANGED <<cancel, stopped>> /\ thread[t].pc \in RunPcs
    BY <1>35, RunIteratesMoves
  <2>. QED  BY <2>1, <2>2, RunGoesOn
<1>36. ASSUME NEW t \in Threads, RunErrs(t) PROVE StopReaches'
  BY <1>36 DEF RunErrs
<1>37. ASSUME NEW t \in Threads, RunTimesOut(t) PROVE StopReaches'
  BY <1>37 DEF RunTimesOut
<1>38. ASSUME NEW t \in Threads, RunCompletes(t) PROVE StopReaches'
  <2>1. \E p \in {"finish"} : MovesTo(t, p)
    BY <1>38, RunCompletesMoves
  <2>2. UNCHANGED <<cancel, stopped>> /\ thread[t].pc \in RunPcs
    BY <1>38, RunCompletesMoves
  <2>. QED  BY <2>1, <2>2, RunGoesOn
<1>39. ASSUME NEW t \in Threads, RunFinishes(t) PROVE StopReaches'
  BY <1>39 DEF RunFinishes
<1>40. ASSUME NEW t \in Threads, RunDropsGuard(t) PROVE StopReaches'
  BY <1>40 DEF RunDropsGuard
<1>41. CASE UNCHANGED vars
  BY <1>41 DEF vars
<1>. QED
  BY <1>1, <1>2, <1>3, <1>4, <1>5, <1>6, <1>7, <1>8, <1>9, <1>10, <1>11,
     <1>12, <1>13, <1>14, <1>15, <1>16, <1>17, <1>18, <1>19, <1>20, <1>21,
       <1>22,
     <1>23, <1>24, <1>25, <1>26, <1>27, <1>28, <1>29, <1>30, <1>31, <1>32,
       <1>33,
     <1>34, <1>35, <1>36, <1>37, <1>38, <1>39, <1>40, <1>41
  DEF Next, Environment, ThreadStep, Request, Spawn, WakeUp, Run

(* The counts of requests, failures and crashes only grow. *)
LEMMA UsedGrows ==
  ASSUME TypeOK, [Next]_vars
  PROVE  \A r \in {"fault", "crash"} : used'[r] = 0 => used[r] = 0
<1>1. ASSUME NEW r \in {"stop", "sendNow", "remove", "direct", "timeout", "fault", "crash"},
             NEW limit, Count(r, limit)
      PROVE  \A q \in {"fault", "crash"} : used'[q] = 0 => used[q] = 0
  BY <1>1 DEF Count, TypeOK
<1>2. CASE UNCHANGED used
  BY <1>2
<1>3. CASE Environment
  BY <1>1, <1>2, <1>3 DEF Environment, Send, SendNow, Remove, TaskFinishes, Stop,
    StartDirect, Crash, history
<1>4. ASSUME NEW t \in Threads, Request(t) \/ Spawn(t) \/ WakeUp(t) PROVE UNCHANGED used
  BY <1>4 DEF Request, Spawn, WakeUp, Resume, SendNowBusy, SendNowCancel, StopCancel,
    StopReturns, SpawnChecksStopped, SpawnStarts, SpawnRechecks, SpawnClaims,
    SpawnRejectsRound, SpawnFindsNothing, SpawnDropsGuard, SpawnSettles,
    DispatchChecksWake, WakeYields, WakeChecks, WakeReadsTasks, WakeStarts, WakeParks,
    WakeRechecks, WakeDropsGuard, history
<1>5. ASSUME NEW t \in Threads, Run(t) PROVE UNCHANGED used \/ Count("fault", MaxFaults)
  BY <1>5 DEF Run, RunMerges, RunSaves, RunDequeues, RunIterates, RunCompletes,
    RunFinishes, RunDropsGuard, history
<1>6. ASSUME NEW t \in Threads,
             StopRemovesRound(t) \/ SpawnFails(t) \/ WakeFails(t) \/ RunErrs(t)
               \/ RunTimesOut(t)
      PROVE  \/ UNCHANGED used
             \/ Count("fault", MaxFaults) \/ Count("timeout", MaxTimeouts)
  BY <1>6 DEF StopRemovesRound, SpawnFails, WakeFails, RunErrs, RunTimesOut
<1>7. CASE UNCHANGED vars
  BY <1>2, <1>7 DEF vars, history
<1>. QED  BY <1>1, <1>2, <1>3, <1>4, <1>5, <1>6, <1>7 DEF Next, ThreadStep

(* A run about to save holds its message, one about to delete its row has  *)
(* saved it.                                                               *)
Delivering ==
  \A t \in Threads :
    /\ At(t, "save") /\ thread[t].kind = "queued" => thread[t].entry \in thread[t].carry
    /\ At(t, "dequeue") => thread[t].kind = "queued" /\ transcript[thread[t].entry] > 0

MessagesHeld ==
  \A m \in sent \ removed : m \in waiting \cup claimed \/ transcript[m] > 0

Kept == MessagesHeld /\ Delivering

(* Without failing operations a row is deleted only after the save of its  *)
(* message, or on request.                                                 *)
LEMMA KeptStep ==
  ASSUME Faultless', TypeOK, EntryCarried, Kept, [Next]_vars
  PROVE  Kept'
<1>0. ~Count("fault", MaxFaults)
  BY DEF Faultless, TypeOK, Count
<1> USE <1>0, NoneIsNothing DEF TypeOK, ThreadRecords, EntryCarried, Kept, MessagesHeld, Delivering
<1> USE DEF Entries, Q!Enqueue, Q!Remove, Q!Claim, Q!Promote
<1>1. ASSUME NEW t \in Threads, SendNowBusy(t) PROVE Kept'
  <2>1. CASE active # None
    BY <1>1, <2>1 DEF SendNowBusy, At, Goto, queue, results, memory, history
  <2>2. Dispatch.pc = "spawn" /\ Dispatch.kind = "none"
    BY DEF Dispatch, Idle
  <2>3. CASE active = None
    <3>1. Become(t, Dispatch) /\ UNCHANGED <<queue, transcript, results,
      memory, history>>
      BY <1>1, <2>3 DEF SendNowBusy
    <3>. QED  BY <1>1, <2>2, <2>3, <3>1 DEF SendNowBusy, At, Become, queue,
      results, memory, history
  <2>. QED  BY <2>1, <2>3
<1>2. ASSUME NEW t \in Threads, SpawnChecksStopped(t) PROVE Kept'
  <2>1. CASE stopped
    BY <1>2, <2>1, ReturnedRecord DEF SpawnChecksStopped, At, Become, queue,
      results, memory, history
  <2>2. CASE ~stopped
    BY <1>2, <2>2 DEF SpawnChecksStopped, At, Goto, queue, results, memory,
      history
  <2>. QED  BY <2>1, <2>2
<1>3. ASSUME NEW t \in Threads, SpawnStarts(t) PROVE Kept'
  <2>1. CASE TryStartRun(t) /\ Goto(t, "recheck")
    BY <1>3, <2>1 DEF SpawnStarts, At, TryStartRun, Goto, queue, results,
      memory, history
  <2>2. CASE Become(t, Returned(t)) /\ UNCHANGED <<active, cancel>>
    BY <1>3, <2>2, ReturnedRecord DEF SpawnStarts, At, Become, queue, results,
      memory, history
  <2>. QED  BY <1>3, <2>1, <2>2 DEF SpawnStarts
<1>4. ASSUME NEW t \in Threads, SpawnRechecks(t) PROVE Kept'
  <2>1. CASE stopped
    BY <1>4, <2>1, ReturnedRecord DEF SpawnRechecks, At, Become, DropGuard,
      queue, results, memory, history
  <2>2. CASE ~stopped
    BY <1>4, <2>2 DEF SpawnRechecks, At, Goto, queue, results, memory, history
  <2>. QED  BY <2>1, <2>2
<1>5. ASSUME NEW t \in Threads, SpawnClaims(t) PROVE Kept'
  <2>1. PICK e \in Entries :
          \/ Become(t, [Idle EXCEPT !.pc = "merge", !.from = "dispatch",
                                    !.kind = "queued", !.entry = e])
          \/ thread' = [thread EXCEPT ![t] = [@ EXCEPT !.pc = "reject",
                                                       !.entry = e]]
    BY <1>5 DEF SpawnClaims
  <2>2. CASE Become(t, [Idle EXCEPT !.pc = "merge", !.from = "dispatch",
                                   !.kind = "queued", !.entry = e])
    BY <1>5, <2>2 DEF SpawnClaims, At, Become, Idle, queue, results, memory,
      history
  <2>3. CASE thread' = [thread EXCEPT ![t] = [@ EXCEPT !.pc = "reject",
                                                       !.entry = e]]
    BY <1>5, <2>3 DEF SpawnClaims, At, queue, results, memory, history
  <2>. QED  BY <2>1, <2>2, <2>3
<1>6. ASSUME NEW t \in Threads, SpawnSettles(t) PROVE Kept'
  <2>1. Wake.pc = "wake" /\ Wake.kind = "none"
    BY DEF Wake, Idle
  <2>. QED
    BY <1>6, <2>1, ReturnedRecord DEF SpawnSettles, At, Become, Free, queue,
      results, memory, history
<1>7. ASSUME NEW t \in Threads, DispatchChecksWake(t) PROVE Kept'
  <2>1. Wake.pc = "wake" /\ Wake.kind = "none" /\ Idle.pc = "idle" /\
    Idle.kind = "none"
    BY DEF Wake, Idle
  <2>. QED
    BY <1>7, <2>1 DEF DispatchChecksWake, At, Become, Exit, queue, results,
      memory, history
<1>8. ASSUME NEW t \in Threads, WakeRechecks(t) PROVE Kept'
  <2>1. CASE stopped
    BY <1>8, <2>1 DEF WakeRechecks, At, Goto, queue, results, memory, history
  <2> DEFINE run == [Idle EXCEPT !.pc = "merge", !.from = "dispatch", !.kind =
    "wake"]
  <2>2. run.pc = "merge" /\ run.kind = "wake"
    BY DEF Idle
  <2>3. CASE ~stopped
    <3>1. Become(t, run)
      BY <1>8, <2>3 DEF WakeRechecks
    <3> HIDE DEF run
    <3>. QED  BY <1>8, <2>2, <2>3, <3>1 DEF WakeRechecks, At, Become, queue,
      results, memory, history
  <2>. QED  BY <2>1, <2>3
<1> USE DEF At, Goto, Become, Exit, Arrive, Free, TryStartRun, DropGuard,
  Returned, Save, Handler, Dispatch, Wake, Idle, queue, results, memory,
  history
<1>9. ASSUME NEW m \in Messages, Send(m) PROVE Kept'
  BY <1>9 DEF Send
<1>10. ASSUME NEW e \in Entries, SendNow(e) PROVE Kept'
  BY <1>10 DEF SendNow
<1>11. ASSUME NEW e \in Entries, Remove(e) PROVE Kept'
  BY <1>11 DEF Remove
<1>12. ASSUME NEW k \in Tasks, TaskFinishes(k) PROVE Kept'
  BY <1>12 DEF TaskFinishes
<1>13. ASSUME Stop PROVE Kept'
  BY <1>13 DEF Stop
<1>14. ASSUME StartDirect PROVE Kept'
  BY <1>14 DEF StartDirect
<1>15. ASSUME Crash PROVE Kept'
  BY <1>15 DEF Crash
<1>16. ASSUME NEW t \in Threads, Resume(t) PROVE Kept'
  BY <1>16 DEF Resume
<1>17. ASSUME NEW t \in Threads, SendNowCancel(t) PROVE Kept'
  BY <1>17 DEF SendNowCancel
<1>18. ASSUME NEW t \in Threads, StopCancel(t) PROVE Kept'
  BY <1>18 DEF StopCancel
<1>19. ASSUME NEW t \in Threads, StopReturns(t) PROVE Kept'
  BY <1>19 DEF StopReturns
<1>20. ASSUME NEW t \in Threads, StopRemovesRound(t) PROVE Kept'
  BY <1>20 DEF StopRemovesRound
<1>21. ASSUME NEW t \in Threads, SpawnRejectsRound(t) PROVE Kept'
  BY <1>21 DEF SpawnRejectsRound
<1>22. ASSUME NEW t \in Threads, SpawnFindsNothing(t) PROVE Kept'
  BY <1>22 DEF SpawnFindsNothing
<1>23. ASSUME NEW t \in Threads, SpawnDropsGuard(t) PROVE Kept'
  BY <1>23 DEF SpawnDropsGuard
<1>24. ASSUME NEW t \in Threads, SpawnFails(t) PROVE Kept'
  BY <1>24 DEF SpawnFails
<1>25. ASSUME NEW t \in Threads, WakeYields(t) PROVE Kept'
  BY <1>25 DEF WakeYields
<1>26. ASSUME NEW t \in Threads, WakeChecks(t) PROVE Kept'
  BY <1>26 DEF WakeChecks
<1>27. ASSUME NEW t \in Threads, WakeReadsTasks(t) PROVE Kept'
  BY <1>27 DEF WakeReadsTasks
<1>28. ASSUME NEW t \in Threads, WakeStarts(t) PROVE Kept'
  BY <1>28 DEF WakeStarts
<1>29. ASSUME NEW t \in Threads, WakeParks(t) PROVE Kept'
  BY <1>29 DEF WakeParks
<1>30. ASSUME NEW t \in Threads, WakeDropsGuard(t) PROVE Kept'
  BY <1>30 DEF WakeDropsGuard
<1>31. ASSUME NEW t \in Threads, WakeFails(t) PROVE Kept'
  BY <1>31 DEF WakeFails
<1>32. ASSUME NEW t \in Threads, RunMerges(t) PROVE Kept'
  BY <1>32 DEF RunMerges
<1>33. ASSUME NEW t \in Threads, RunSaves(t) PROVE Kept'
  BY <1>33, RunSavesMoves DEF MovesTo, TranscriptGrows, CarrySaved
<1>34. ASSUME NEW t \in Threads, RunDequeues(t) PROVE Kept'
  BY <1>34 DEF RunDequeues
<1>35. ASSUME NEW t \in Threads, RunIterates(t) PROVE Kept'
  BY <1>35, RunIteratesMoves DEF MovesTo, TranscriptGrows
<1>36. ASSUME NEW t \in Threads, RunErrs(t) PROVE Kept'
  BY <1>36 DEF RunErrs
<1>37. ASSUME NEW t \in Threads, RunTimesOut(t) PROVE Kept'
  BY <1>37 DEF RunTimesOut
<1>38. ASSUME NEW t \in Threads, RunCompletes(t) PROVE Kept'
  BY <1>38, RunCompletesMoves DEF MovesTo, TranscriptGrows
<1>39. ASSUME NEW t \in Threads, RunFinishes(t) PROVE Kept'
  BY <1>39 DEF RunFinishes
<1>40. ASSUME NEW t \in Threads, RunDropsGuard(t) PROVE Kept'
  BY <1>40 DEF RunDropsGuard
<1>41. CASE UNCHANGED vars
  BY <1>41 DEF vars
<1>. QED
  BY <1>1, <1>2, <1>3, <1>4, <1>5, <1>6, <1>7, <1>8, <1>9, <1>10, <1>11,
     <1>12, <1>13, <1>14, <1>15, <1>16, <1>17, <1>18, <1>19, <1>20, <1>21,
       <1>22,
     <1>23, <1>24, <1>25, <1>26, <1>27, <1>28, <1>29, <1>30, <1>31, <1>32,
       <1>33,
     <1>34, <1>35, <1>36, <1>37, <1>38, <1>39, <1>40, <1>41
  DEF Next, Environment, ThreadStep, Request, Spawn, WakeUp, Run

(* A result that is marked notified was not told yet while the run that    *)
(* marked it is about to save it; without crashes it is not lost.          *)
Undelivered(t) == {k \in Tasks : k \in thread[t].carry}

Results ==
  /\ \A k \in Tasks : transcript[k] <= 1 /\ (k \notin notified => transcript[k] = 0)
  /\ \A t \in Threads : \A k \in Undelivered(t) :
       At(t, "save") /\ transcript[k] = 0 /\ k \in notified
  /\ used["crash"] = 0 =>
       \A k \in notified : transcript[k] = 1 \/ \E t \in Threads : k \in Undelivered(t)

(* Without failing operations a result is marked and carried in one step,  *)
(* and carried by one thread: the one that holds the guard.                *)
LEMMA ResultsStep ==
  ASSUME Faultless', TypeOK, EntryCarried, GuardHeld, Results, [Next]_vars
  PROVE  Results'
<1>0. /\ ~Count("fault", MaxFaults)
      /\ used'["crash"] = 0 => used["crash"] = 0 /\ ~Count("crash", MaxCrashes)
  BY UsedGrows DEF Faultless, TypeOK, Count
<1> USE <1>0, NoneIsNothing, TasksAreNoEntries DEF TypeOK, ThreadRecords, Results, Undelivered
<1>1. ASSUME NEW t \in Threads, SendNowBusy(t) PROVE Results'
  <2>1. CASE active # None
    BY <1>1, <2>1 DEF SendNowBusy, At, Goto, queue, results, memory, history
  <2>2. Dispatch.pc = "spawn" /\ Dispatch.carry = {}
    BY DEF Dispatch, Idle
  <2>3. CASE active = None
    <3>1. Become(t, Dispatch) /\ UNCHANGED <<queue, transcript, results,
      memory, history>>
      BY <1>1, <2>3 DEF SendNowBusy
    <3>. QED  BY <1>1, <2>2, <2>3, <3>1 DEF SendNowBusy, At, Become, queue,
      results, memory, history
  <2>. QED  BY <2>1, <2>3
<1>2. ASSUME NEW t \in Threads, SpawnChecksStopped(t) PROVE Results'
  <2>1. CASE stopped
    BY <1>2, <2>1, ReturnedRecord DEF SpawnChecksStopped, At, Become, queue,
      results, memory, history
  <2>2. CASE ~stopped
    BY <1>2, <2>2 DEF SpawnChecksStopped, At, Goto, queue, results, memory,
      history
  <2>. QED  BY <2>1, <2>2
<1>3. ASSUME NEW t \in Threads, SpawnStarts(t) PROVE Results'
  <2>1. CASE TryStartRun(t) /\ Goto(t, "recheck")
    BY <1>3, <2>1 DEF SpawnStarts, At, TryStartRun, Goto, queue, results,
      memory, history
  <2>2. CASE Become(t, Returned(t)) /\ UNCHANGED <<active, cancel>>
    BY <1>3, <2>2, ReturnedRecord DEF SpawnStarts, At, Become, queue, results,
      memory, history
  <2>. QED  BY <1>3, <2>1, <2>2 DEF SpawnStarts
<1>4. ASSUME NEW t \in Threads, SpawnRechecks(t) PROVE Results'
  <2>1. CASE stopped
    BY <1>4, <2>1, ReturnedRecord DEF SpawnRechecks, At, Become, DropGuard,
      queue, results, memory, history
  <2>2. CASE ~stopped
    BY <1>4, <2>2 DEF SpawnRechecks, At, Goto, queue, results, memory, history
  <2>. QED  BY <2>1, <2>2
<1>5. ASSUME NEW t \in Threads, SpawnClaims(t) PROVE Results'
  <2>1. PICK e \in Entries :
          \/ Become(t, [Idle EXCEPT !.pc = "merge", !.from = "dispatch",
                                    !.kind = "queued", !.entry = e])
          \/ thread' = [thread EXCEPT ![t] = [@ EXCEPT !.pc = "reject",
                                                       !.entry = e]]
    BY <1>5 DEF SpawnClaims
  <2>2. CASE Become(t, [Idle EXCEPT !.pc = "merge", !.from = "dispatch",
                                   !.kind = "queued", !.entry = e])
    BY <1>5, <2>2 DEF SpawnClaims, At, Become, Idle, queue, results, memory,
      history
  <2>3. CASE thread' = [thread EXCEPT ![t] = [@ EXCEPT !.pc = "reject",
                                                       !.entry = e]]
    BY <1>5, <2>3 DEF SpawnClaims, At, queue, results, memory, history
  <2>. QED  BY <2>1, <2>2, <2>3
<1>6. ASSUME NEW t \in Threads, SpawnSettles(t) PROVE Results'
  <2>1. Wake.pc = "wake" /\ Wake.carry = {}
    BY DEF Wake, Idle
  <2>. QED
    BY <1>6, <2>1, ReturnedRecord DEF SpawnSettles, At, Become, Free, queue,
      results, memory, history
<1>7. ASSUME NEW t \in Threads, DispatchChecksWake(t) PROVE Results'
  <2>1. Wake.pc = "wake" /\ Wake.carry = {} /\ Idle.pc = "idle" /\
    Idle.carry = {}
    BY DEF Wake, Idle
  <2>. QED
    BY <1>7, <2>1 DEF DispatchChecksWake, At, Become, Exit, queue, results,
      memory, history
<1>8. ASSUME NEW t \in Threads, WakeRechecks(t) PROVE Results'
  <2>1. CASE stopped
    BY <1>8, <2>1 DEF WakeRechecks, At, Goto, queue, results, memory, history
  <2> DEFINE run == [Idle EXCEPT !.pc = "merge", !.from = "dispatch", !.kind =
    "wake"]
  <2>2. run.pc = "merge" /\ run.carry = {}
    BY DEF Idle
  <2>3. CASE ~stopped
    <3>1. Become(t, run)
      BY <1>8, <2>3 DEF WakeRechecks
    <3> HIDE DEF run
    <3>. QED  BY <1>8, <2>2, <2>3, <3>1 DEF WakeRechecks, At, Become, queue,
      results, memory, history
  <2>. QED  BY <2>1, <2>3
<1> USE DEF At, Goto, Become, Exit, Arrive, Free, TryStartRun, DropGuard,
  Returned, Save, Handler, Dispatch, Wake, Idle, queue, results, memory,
  history
<1>9. ASSUME NEW m \in Messages, Send(m) PROVE Results'
  BY <1>9 DEF Send
<1>10. ASSUME NEW e \in Entries, SendNow(e) PROVE Results'
  BY <1>10 DEF SendNow
<1>11. ASSUME NEW e \in Entries, Remove(e) PROVE Results'
  BY <1>11 DEF Remove
<1>12. ASSUME NEW k \in Tasks, TaskFinishes(k) PROVE Results'
  BY <1>12 DEF TaskFinishes
<1>13. ASSUME Stop PROVE Results'
  BY <1>13 DEF Stop
<1>14. ASSUME StartDirect PROVE Results'
  BY <1>14 DEF StartDirect
<1>15. ASSUME Crash PROVE Results'
  BY <1>15 DEF Crash
<1>16. ASSUME NEW t \in Threads, Resume(t) PROVE Results'
  BY <1>16 DEF Resume
<1>17. ASSUME NEW t \in Threads, SendNowCancel(t) PROVE Results'
  BY <1>17 DEF SendNowCancel
<1>18. ASSUME NEW t \in Threads, StopCancel(t) PROVE Results'
  BY <1>18 DEF StopCancel
<1>19. ASSUME NEW t \in Threads, StopReturns(t) PROVE Results'
  BY <1>19 DEF StopReturns
<1>20. ASSUME NEW t \in Threads, StopRemovesRound(t) PROVE Results'
  BY <1>20 DEF StopRemovesRound
<1>21. ASSUME NEW t \in Threads, SpawnRejectsRound(t) PROVE Results'
  BY <1>21 DEF SpawnRejectsRound
<1>22. ASSUME NEW t \in Threads, SpawnFindsNothing(t) PROVE Results'
  BY <1>22 DEF SpawnFindsNothing
<1>23. ASSUME NEW t \in Threads, SpawnDropsGuard(t) PROVE Results'
  BY <1>23 DEF SpawnDropsGuard
<1>24. ASSUME NEW t \in Threads, SpawnFails(t) PROVE Results'
  BY <1>24 DEF SpawnFails
<1>25. ASSUME NEW t \in Threads, WakeYields(t) PROVE Results'
  BY <1>25 DEF WakeYields
<1>26. ASSUME NEW t \in Threads, WakeChecks(t) PROVE Results'
  BY <1>26 DEF WakeChecks
<1>27. ASSUME NEW t \in Threads, WakeReadsTasks(t) PROVE Results'
  BY <1>27 DEF WakeReadsTasks
<1>28. ASSUME NEW t \in Threads, WakeStarts(t) PROVE Results'
  BY <1>28 DEF WakeStarts
<1>29. ASSUME NEW t \in Threads, WakeParks(t) PROVE Results'
  BY <1>29 DEF WakeParks
<1>30. ASSUME NEW t \in Threads, WakeDropsGuard(t) PROVE Results'
  BY <1>30 DEF WakeDropsGuard
<1>31. ASSUME NEW t \in Threads, WakeFails(t) PROVE Results'
  BY <1>31 DEF WakeFails
<1>32. ASSUME NEW t \in Threads, RunMerges(t) PROVE Results'
  BY <1>32 DEF RunMerges
<1>33. ASSUME NEW t \in Threads, RunSaves(t) PROVE Results'
  <2>1. /\ At(t, "save") /\ UNCHANGED notified /\ TranscriptGrows(t) /\ CarrySaved(t)
        /\ \A u \in Threads \ {t} : thread'[u] = thread[u]
    BY <1>33, RunSavesMoves DEF MovesTo
  <2>2. ASSUME NEW u \in Threads \ {t} PROVE Undelivered(u) = {} /\ Undelivered(u)' = {}
    <3>1. Undelivered(u) = {}
      BY <2>1 DEF GuardHeld, HoldingPcs, RunPcs, At
    <3>. QED  BY <2>1, <3>1
  <2>3. Undelivered(t)' = {}
    BY <2>1 DEF CarrySaved
  <2>4. ASSUME NEW k \in Tasks
        PROVE transcript'[k] = IF k \in Undelivered(t) THEN 1 ELSE transcript[k]
    BY <2>1 DEF CarrySaved, TranscriptGrows
  <2>. QED  BY <2>1, <2>2, <2>3, <2>4
<1>34. ASSUME NEW t \in Threads, RunDequeues(t) PROVE Results'
  BY <1>34 DEF RunDequeues
<1>35. ASSUME NEW t \in Threads, RunIterates(t) PROVE Results'
  BY <1>35, RunIteratesMoves DEF MovesTo, TranscriptGrows
<1>36. ASSUME NEW t \in Threads, RunErrs(t) PROVE Results'
  BY <1>36 DEF RunErrs
<1>37. ASSUME NEW t \in Threads, RunTimesOut(t) PROVE Results'
  BY <1>37 DEF RunTimesOut
<1>38. ASSUME NEW t \in Threads, RunCompletes(t) PROVE Results'
  BY <1>38, RunCompletesMoves DEF MovesTo, TranscriptGrows
<1>39. ASSUME NEW t \in Threads, RunFinishes(t) PROVE Results'
  BY <1>39 DEF RunFinishes
<1>40. ASSUME NEW t \in Threads, RunDropsGuard(t) PROVE Results'
  BY <1>40 DEF RunDropsGuard
<1>41. CASE UNCHANGED vars
  BY <1>41 DEF vars
<1>. QED
  BY <1>1, <1>2, <1>3, <1>4, <1>5, <1>6, <1>7, <1>8, <1>9, <1>10, <1>11,
     <1>12, <1>13, <1>14, <1>15, <1>16, <1>17, <1>18, <1>19, <1>20, <1>21,
       <1>22,
     <1>23, <1>24, <1>25, <1>26, <1>27, <1>28, <1>29, <1>30, <1>31, <1>32,
       <1>33,
     <1>34, <1>35, <1>36, <1>37, <1>38, <1>39, <1>40, <1>41
  DEF Next, Environment, ThreadStep, Request, Spawn, WakeUp, Run

IInv == TypeOK /\ EntryCarried /\ GuardHeld /\ StopReaches

LEMMA InitHolds == Init => IInv /\ Kept /\ Results
<1> SUFFICES ASSUME Init PROVE IInv /\ Kept /\ Results
  OBVIOUS
<1> USE NoneIsNothing DEF Init, Q!Init
<1>1. TypeOK
  BY DEF TypeOK, Q!TypeOK, ThreadRecords, Idle, Pcs, HoldingPcs, RunPcs, Entries
<1>2. EntryCarried /\ GuardHeld /\ StopReaches
  BY DEF EntryCarried, GuardHeld, StopReaches, Idle, HoldingPcs, RunPcs
<1>3. Kept
  BY DEF Kept, MessagesHeld, Delivering, Idle, At
<1>4. Results
  BY DEF Results, Undelivered, Idle
<1>. QED  BY <1>1, <1>2, <1>3, <1>4 DEF IInv

LEMMA Invariance == Spec => []IInv
<1>1. Init => IInv
  BY InitHolds
<1>2. IInv /\ [Next]_vars => IInv'
  BY TypeStep, EntryStep, GuardStep, StopStep DEF IInv
<1>. QED  BY <1>1, <1>2, PTL DEF Spec

(* Every variable keeps its type: in particular, what a run or a rejected  *)
(* round deletes is an entry of the queue.                                 *)
THEOREM TypeCorrect == Spec => []TypeOK
<1>1. IInv => TypeOK
  BY DEF IInv
<1>. QED  BY <1>1, Invariance, PTL

(* However many requests, dispatches and wake-ups run at once, and         *)
(* whatever fails or crashes, the RunGuard belongs to exactly the thread   *)
(* between try_start_run and the drop: two runs of a session never         *)
(* overlap, and no way out of the code leaves the session busy.            *)
THEOREM GuardIsExclusive == Spec => []GuardHeld
<1>1. IInv => GuardHeld
  BY DEF IInv
<1>. QED  BY <1>1, Invariance, PTL

(* stop_session reaches every run the queue or a wake-up starts, also the  *)
(* one that is being started: the second look at stopped_sessions is       *)
(* enough.                                                                 *)
THEOREM StopReachesEveryRun == Spec => []StopHolds
<1>1. IInv => StopHolds
  BY DEF IInv, StopReaches, StopHolds
<1>. QED  BY <1>1, Invariance, PTL

(* As long as database operations do not fail, no number of crashes at any *)
(* point loses an acknowledged message.                                    *)
THEOREM MessagesSurviveCrashes == Spec => []NoMessageLost
<1>1. Init => IInv /\ (Faultless => Kept)
  BY InitHolds
<1>2. IInv /\ (Faultless => Kept) /\ [Next]_vars => (Faultless => Kept)'
  BY KeptStep, UsedGrows DEF IInv, Faultless
<1>3. (Faultless => Kept) => NoMessageLost
  BY DEF Kept, MessagesHeld, NoMessageLost
<1>. QED  BY <1>1, <1>2, <1>3, Invariance, PTL DEF Spec

(* As long as database operations do not fail, no number of crashes tells  *)
(* a subagent result to the parent twice, and until the first crash it is  *)
(* told exactly once, however turns, wake-ups, stops and timeouts          *)
(* interleave.                                                             *)
THEOREM ResultsDelivered == Spec => []ResultsExactlyOnce
<1>1. Init => IInv /\ (Faultless => Results)
  BY InitHolds
<1>2. IInv /\ (Faultless => Results) /\ [Next]_vars => (Faultless => Results)'
  BY ResultsStep, UsedGrows DEF IInv, Faultless
<1>3. IInv /\ (Faultless => Results) => ResultsExactlyOnce
  BY DEF Results, ResultsExactlyOnce, Undelivered, IInv, TypeOK
<1>. QED  BY <1>1, <1>2, <1>3, Invariance, PTL DEF Spec

-----------------------------------------------------------------------------
(* Faults and crashes so far. *)
Failures == used["crash"] + used["fault"]

(* A run carries no entry but its own, and has one only if it came from    *)
(* the queue.                                                              *)
CarriesOwn ==
  \A t \in Threads :
    /\ thread[t].carry # {} => thread[t].pc \in {"save", "dequeue", "loop", "complete", "drop"}
    /\ thread[t].pc \in RunPcs /\ thread[t].kind # "queued" => thread[t].entry = None
    /\ \A e \in Entries \cap thread[t].carry : thread[t].entry = e

(* What can still be saved was saved no more often than there were         *)
(* failures: what waits, what a run is about to take up, and what a run    *)
(* carries; and once less when the first save of the run has failed. Only  *)
(* the row of a run between its first save and the delete is ahead.        *)
Spared ==
  \A e \in Entries :
    /\ transcript[e] <= Failures + 1
    /\ e \in waiting \cup claimed =>
         transcript[e] <= Failures \/ \E t \in Threads : At(t, "dequeue") /\ thread[t].entry = e
    /\ \A t \in Threads :
         /\ At(t, "merge") /\ thread[t].entry = e => transcript[e] <= Failures
         /\ e \in thread[t].carry =>
              transcript[e] <= Failures /\ (At(t, "save") \/ transcript[e] + 1 <= Failures)

(* Nothing knows a message that was not sent.                              *)
Unknown ==
  \A m \in Messages \ sent :
    /\ transcript[m] = 0 /\ m \notin waiting \cup claimed
    /\ \A t \in Threads : m \notin thread[t].carry /\ ~(At(t, "merge") /\ thread[t].entry = m)

Sparing == CarriesOwn /\ Spared /\ Unknown

(* What counts a failure raises the count of failures; nothing lowers it.  *)
LEMMA CountFails ==
  ASSUME TypeOK, NEW limit,
         NEW r \in {"stop", "sendNow", "remove", "direct", "timeout", "fault", "crash"},
         Count(r, limit)
  PROVE  /\ Failures' >= Failures
         /\ r \in {"fault", "crash"} => Failures' = Failures + 1
<1>1. used \in [{"stop", "sendNow", "remove", "direct", "timeout", "fault", "crash"} -> Nat]
  BY DEF TypeOK
<1>2. used["crash"] \in Nat /\ used["fault"] \in Nat
  BY <1>1
<1>3. /\ used'["crash"] = IF r = "crash" THEN used["crash"] + 1 ELSE used["crash"]
      /\ used'["fault"] = IF r = "fault" THEN used["fault"] + 1 ELSE used["fault"]
  BY <1>1 DEF Count
<1>. QED  BY <1>2, <1>3 DEF Failures

LEMMA FailuresNat ==
  ASSUME TypeOK
  PROVE  Failures \in Nat /\ \A e \in Entries : transcript[e] \in Nat
BY DEF TypeOK, Failures

(* A step after which thread u has nothing more to save than before, and   *)
(* that is neither a save, the step after it, nor the start of a run of    *)
(* the queue.                                                              *)
Plain(u) ==
  /\ ~At(u, "save") /\ ~At(u, "dequeue")
  /\ \/ thread'[u].pc \notin RunPcs /\ thread'[u].carry = {}
     \/ /\ thread'[u].pc = "merge" /\ thread'[u].carry = {}
        /\ thread'[u].kind # "queued" /\ thread'[u].entry = None
     \/ /\ thread[u].pc \in RunPcs /\ thread'[u].pc \in {"complete", "drop"}
        /\ thread'[u].kind = thread[u].kind /\ thread'[u].entry = thread[u].entry
        /\ thread'[u].carry \subseteq thread[u].carry

LEMMA QuietStep ==
  ASSUME TypeOK, TypeOK', Sparing, UNCHANGED transcript, Failures' >= Failures,
         waiting' \cup claimed' \subseteq waiting \cup claimed, sent \subseteq sent',
         \A u \in Threads : thread'[u] = thread[u] \/ Plain(u)
  PROVE  Sparing'
<1> USE FailuresNat, NoneIsNothing
<1>0. \A e \in Entries : transcript[e] \in Nat
  OBVIOUS
<1>f. Failures \in Nat /\ Failures' \in Nat
  BY DEF TypeOK, Failures
<1>n. None \notin Entries
  OBVIOUS
<1>1. CarriesOwn'
  <2> SUFFICES ASSUME NEW u \in Threads
      PROVE /\ thread'[u].carry # {} =>
                 thread'[u].pc \in {"save", "dequeue", "loop", "complete", "drop"}
            /\ thread'[u].pc \in RunPcs /\ thread'[u].kind # "queued" => thread'[u].entry = None
            /\ \A e \in Entries \cap thread'[u].carry : thread'[u].entry = e
    BY DEF CarriesOwn
  <2>1. CASE thread'[u] = thread[u]
    BY <2>1 DEF Sparing, CarriesOwn
  <2>2. CASE Plain(u)
    BY <2>2 DEF Plain, Sparing, CarriesOwn, RunPcs
  <2>. QED  BY <2>1, <2>2
<1>2. Spared'
  <2> SUFFICES ASSUME NEW e \in Entries
      PROVE /\ transcript'[e] <= Failures' + 1
            /\ e \in waiting' \cup claimed' =>
                 \/ transcript'[e] <= Failures'
                 \/ \E u \in Threads : thread'[u].pc = "dequeue" /\ thread'[u].entry = e
            /\ \A u \in Threads :
                 /\ thread'[u].pc = "merge" /\ thread'[u].entry = e => transcript'[e] <= Failures'
                 /\ e \in thread'[u].carry =>
                      /\ transcript'[e] <= Failures'
                      /\ thread'[u].pc = "save" \/ transcript'[e] + 1 <= Failures'
    BY DEF Spared, At
  <2>0. transcript'[e] = transcript[e] /\ transcript[e] \in Nat
    BY <1>0
  <2>1. transcript'[e] <= Failures' + 1
    BY <1>f, <2>0 DEF Sparing, Spared
  <2>2. ASSUME e \in waiting' \cup claimed'
        PROVE  \/ transcript'[e] <= Failures'
               \/ \E u \in Threads : thread'[u].pc = "dequeue" /\ thread'[u].entry = e
    <3>1. CASE transcript[e] <= Failures
      BY <1>f, <2>0, <3>1
    <3>2. CASE \E u \in Threads : At(u, "dequeue") /\ thread[u].entry = e
      BY <3>2 DEF Plain, At
    <3>. QED  BY <2>2, <3>1, <3>2 DEF Sparing, Spared
  <2>3. ASSUME NEW u \in Threads
        PROVE  /\ thread'[u].pc = "merge" /\ thread'[u].entry = e => transcript'[e] <= Failures'
               /\ e \in thread'[u].carry =>
                    /\ transcript'[e] <= Failures'
                    /\ thread'[u].pc = "save" \/ transcript'[e] + 1 <= Failures'
    <3>1. CASE thread'[u] = thread[u]
      BY <1>f, <2>0, <3>1 DEF Sparing, Spared, At
    <3>2. CASE Plain(u)
      BY <1>f, <1>n, <2>0, <3>2 DEF Plain, Sparing, Spared, At, RunPcs
    <3>. QED  BY <3>1, <3>2
  <2>. QED  BY <2>1, <2>2, <2>3
<1>3. Unknown'
  <2> SUFFICES ASSUME NEW m \in Messages \ sent'
      PROVE /\ transcript'[m] = 0 /\ m \notin waiting' \cup claimed'
            /\ \A u \in Threads :
                 m \notin thread'[u].carry /\ ~(thread'[u].pc = "merge" /\ thread'[u].entry = m)
    BY DEF Unknown, At
  <2>1. m \in Messages \ sent /\ m # None
    BY DEF Entries
  <2>2. ASSUME NEW u \in Threads
        PROVE  m \notin thread'[u].carry /\ ~(thread'[u].pc = "merge" /\ thread'[u].entry = m)
    BY <2>1 DEF Plain, Sparing, Unknown, At, RunPcs
  <2>. QED  BY <2>1, <2>2 DEF Sparing, Unknown
<1>. QED  BY <1>1, <1>2, <1>3 DEF Sparing

AllPlain == \A u \in Threads : thread'[u] = thread[u] \/ Plain(u)

LEMMA BecomePlain ==
  ASSUME TypeOK, NEW t \in Threads, NEW r, Become(t, r),
         ~At(t, "save"), ~At(t, "dequeue"), r.carry = {},
         r.pc \notin RunPcs \/ (r.pc = "merge" /\ r.kind # "queued" /\ r.entry = None)
  PROVE  AllPlain
BY DEF TypeOK, Become, AllPlain, Plain

LEMMA GotoPlain ==
  ASSUME TypeOK, Sparing, NEW t \in Threads, NEW p \in Pcs, Goto(t, p),
         ~At(t, "save"), ~At(t, "dequeue"),
         \/ p \notin RunPcs /\ thread[t].pc \notin RunPcs
         \/ p \in {"complete", "drop"} /\ thread[t].pc \in RunPcs
  PROVE  AllPlain
<1>1. MovesTo(t, p)
  BY GotoMoves
<1>2. thread[t].pc \notin RunPcs => thread[t].carry = {}
  BY DEF Sparing, CarriesOwn, RunPcs
<1>. QED  BY <1>1, <1>2 DEF MovesTo, AllPlain, Plain

(* Requests and callbacks arrive on idle threads and carry nothing.        *)
LEMMA ArrivePlain ==
  ASSUME TypeOK, NEW r, Arrive(r), r.carry = {}, r.pc \notin RunPcs
  PROVE  AllPlain
<1>1. PICK t \in Threads : At(t, "idle") /\ Become(t, r)
  BY DEF Arrive, Free
<1>. QED  BY <1>1, BecomePlain DEF At

LEMMA PlainRecords ==
  /\ Idle.carry = {} /\ Idle.pc \notin RunPcs
  /\ Dispatch.carry = {} /\ Dispatch.pc \notin RunPcs
  /\ Wake.carry = {} /\ Wake.pc \notin RunPcs
  /\ \A t \in Threads : Returned(t).carry = {} /\ Returned(t).pc \notin RunPcs
  /\ \A e : Handler("resume", e).carry = {} /\ Handler("resume", e).pc \notin RunPcs
  /\ Handler("stopCancel", None).carry = {} /\ Handler("stopCancel", None).pc \notin RunPcs
BY DEF Idle, Dispatch, Wake, Returned, Handler, RunPcs

LEMMA UsedStays ==
  ASSUME TypeOK, UNCHANGED used
  PROVE  Failures' = Failures /\ Failures' >= Failures
BY FailuresNat DEF Failures

(* The steps that save nothing and start no run of the queue.              *)
LEMMA QuietActions ==
  ASSUME TypeOK, TypeOK', Sparing, NEW t \in Threads,
         \/ Resume(t) \/ SendNowBusy(t) \/ SendNowCancel(t) \/ StopCancel(t)
         \/ StopReturns(t) \/ StopRemovesRound(t)
         \/ SpawnChecksStopped(t) \/ SpawnStarts(t) \/ SpawnRechecks(t)
         \/ SpawnRejectsRound(t) \/ SpawnFindsNothing(t) \/ SpawnFails(t)
         \/ SpawnDropsGuard(t) \/ SpawnSettles(t) \/ DispatchChecksWake(t)
         \/ WakeUp(t) \/ WakeFails(t) \/ RunErrs(t) \/ RunTimesOut(t) \/ RunDropsGuard(t)
  PROVE  Sparing'
<1> USE QuietStep, UsedStays DEF queue, results, memory, history
<1>p. /\ "spawn" \in Pcs \ RunPcs /\ "busy" \in Pcs \ RunPcs /\ "cancel" \in Pcs \ RunPcs
      /\ "stopGoal" \in Pcs \ RunPcs /\ "start" \in Pcs \ RunPcs
      /\ "recheck" \in Pcs \ RunPcs /\ "claim" \in Pcs \ RunPcs /\ "empty" \in Pcs \ RunPcs
      /\ "settle" \in Pcs \ RunPcs /\ "wakeCheck" \in Pcs \ RunPcs
      /\ "wakePark" \in Pcs \ RunPcs /\ "wakeTasks" \in Pcs \ RunPcs
      /\ "wakeStart" \in Pcs \ RunPcs /\ "wakeRecheck" \in Pcs \ RunPcs
      /\ "wakeDrop" \in Pcs \ RunPcs /\ "drop" \in Pcs \cap RunPcs
  BY DEF Pcs, HoldingPcs, RunPcs
<1>q. /\ \A p \in {"resume", "busy", "cancel", "stopCancel", "stopGoal", "spawn", "start",
                   "recheck", "claim", "reject", "empty", "settle", "after", "wake",
                   "wakeCheck", "wakeTasks", "wakeStart", "wakePark", "wakeRecheck",
                   "wakeDrop", "idle"} : p \notin RunPcs
      /\ {"merge", "loop", "complete", "drop"} \subseteq RunPcs
  BY DEF RunPcs
<1>1. CASE Resume(t)
  <2>. DEFINE p == IF thread[t].entry = None THEN "spawn" ELSE "busy"
  <2>1. p \in Pcs \ RunPcs
    BY <1>p
  <2>2. At(t, "resume") /\ Goto(t, p)
    BY <1>1 DEF Resume
  <2>. HIDE DEF p
  <2>3. AllPlain
    BY <1>q, <2>1, <2>2, GotoPlain DEF At
  <2>. QED  BY <1>1, <2>3 DEF Resume, AllPlain
<1>2. CASE SendNowBusy(t)
  <2>1. AllPlain
    BY <1>2, <1>p, <1>q, GotoPlain, BecomePlain, PlainRecords DEF SendNowBusy, At
  <2>. QED  BY <1>2, <2>1 DEF SendNowBusy, AllPlain
<1>3. CASE SendNowCancel(t)
  <2>1. AllPlain
    BY <1>3, <1>q, BecomePlain, PlainRecords DEF SendNowCancel, At, Exit
  <2>. QED  BY <1>3, <2>1 DEF SendNowCancel, AllPlain
<1>4. CASE StopCancel(t)
  <2>1. AllPlain
    BY <1>4, <1>p, <1>q, GotoPlain DEF StopCancel, At
  <2>. QED  BY <1>4, <2>1 DEF StopCancel, AllPlain
<1>5. CASE StopReturns(t)
  <2>1. AllPlain
    BY <1>5, <1>q, BecomePlain, PlainRecords DEF StopReturns, At, Exit
  <2>. QED  BY <1>5, <2>1 DEF StopReturns, AllPlain
<1>6. CASE StopRemovesRound(t)
  BY <1>6 DEF StopRemovesRound, Q!Remove
<1>7. CASE SpawnChecksStopped(t)
  <2>1. AllPlain
    BY <1>7, <1>p, <1>q, GotoPlain, BecomePlain, PlainRecords DEF SpawnChecksStopped, At
  <2>. QED  BY <1>7, <2>1 DEF SpawnChecksStopped, AllPlain
<1>8. CASE SpawnStarts(t)
  <2>1. AllPlain
    BY <1>8, <1>p, <1>q, GotoPlain, BecomePlain, PlainRecords DEF SpawnStarts, At
  <2>. QED  BY <1>8, <2>1 DEF SpawnStarts, AllPlain
<1>9. CASE SpawnRechecks(t)
  <2>1. AllPlain
    BY <1>9, <1>p, <1>q, GotoPlain, BecomePlain, PlainRecords DEF SpawnRechecks, At
  <2>. QED  BY <1>9, <2>1 DEF SpawnRechecks, AllPlain
<1>10. CASE SpawnRejectsRound(t)
  <2>1. AllPlain
    <3>1. /\ At(t, "reject")
          /\ thread' = [thread EXCEPT ![t] = [@ EXCEPT !.pc = "recheck", !.entry = None]]
      BY <1>10 DEF SpawnRejectsRound
    <3>2. thread[t].carry = {} /\ thread[t] \in ThreadRecords
      BY <1>q, <3>1 DEF Sparing, CarriesOwn, RunPcs, At, TypeOK
    <3>3. thread'[t].pc = "recheck" /\ thread'[t].carry = {}
      BY <3>1, <3>2 DEF TypeOK, ThreadRecords
    <3>. QED  BY <1>p, <3>1, <3>3 DEF AllPlain, Plain, At, TypeOK
  <2>2. waiting' \cup claimed' \subseteq waiting \cup claimed
    BY <1>10 DEF SpawnRejectsRound, Q!Remove
  <2>. QED  BY <1>10, <2>1, <2>2 DEF SpawnRejectsRound, AllPlain
<1>11. CASE SpawnFindsNothing(t)
  <2>1. AllPlain
    BY <1>11, <1>p, <1>q, GotoPlain DEF SpawnFindsNothing, At
  <2>. QED  BY <1>11, <2>1 DEF SpawnFindsNothing, AllPlain
<1>12. CASE SpawnFails(t)
  <2>1. AllPlain
    BY <1>12, <1>q, BecomePlain, PlainRecords DEF SpawnFails, At
  <2>2. Failures' >= Failures
    BY <1>12, CountFails DEF SpawnFails
  <2>. QED  BY <1>12, <2>1, <2>2 DEF SpawnFails, AllPlain
<1>13. CASE SpawnDropsGuard(t)
  <2>1. AllPlain
    BY <1>13, <1>p, <1>q, GotoPlain DEF SpawnDropsGuard, At
  <2>. QED  BY <1>13, <2>1 DEF SpawnDropsGuard, AllPlain
<1>14. CASE SpawnSettles(t)
  <2>1. AllPlain
    <3>1. CASE parked /\ ~stopped
      <4>1. PICK u \in Free : thread' = [thread EXCEPT ![t] = Returned(t), ![u] = Wake]
        BY <1>14, <3>1 DEF SpawnSettles
      <4>2. At(t, "settle") /\ At(u, "idle") /\ u \in Threads
        BY <1>14, <4>1 DEF SpawnSettles, Free
      <4>. QED  BY <4>1, <4>2, PlainRecords DEF AllPlain, Plain, At, TypeOK
    <3>2. CASE ~(parked /\ ~stopped)
      BY <1>14, <3>2, <1>q, BecomePlain, PlainRecords DEF SpawnSettles, At
    <3>. QED  BY <3>1, <3>2
  <2>. QED  BY <1>14, <2>1 DEF SpawnSettles, AllPlain
<1>15. CASE DispatchChecksWake(t)
  <2>1. AllPlain
    BY <1>15, <1>q, BecomePlain, PlainRecords DEF DispatchChecksWake, At, Exit
  <2>. QED  BY <1>15, <2>1 DEF DispatchChecksWake, AllPlain
<1>16. CASE WakeYields(t)
  <2>1. AllPlain
    BY <1>16, <1>p, <1>q, GotoPlain, BecomePlain, PlainRecords DEF WakeYields, At, Exit
  <2>. QED  BY <1>16, <2>1 DEF WakeYields, AllPlain
<1>17. CASE WakeChecks(t)
  <2>1. AllPlain
    BY <1>17, <1>p, <1>q, GotoPlain DEF WakeChecks, At
  <2>. QED  BY <1>17, <2>1 DEF WakeChecks, AllPlain
<1>18. CASE WakeReadsTasks(t)
  <2>1. AllPlain
    BY <1>18, <1>p, <1>q, GotoPlain, BecomePlain, PlainRecords DEF WakeReadsTasks, At, Exit
  <2>. QED  BY <1>18, <2>1 DEF WakeReadsTasks, AllPlain
<1>19. CASE WakeStarts(t)
  <2>1. AllPlain
    BY <1>19, <1>p, <1>q, GotoPlain DEF WakeStarts, At
  <2>. QED  BY <1>19, <2>1 DEF WakeStarts, AllPlain
<1>20. CASE WakeParks(t)
  <2>1. AllPlain
    BY <1>20, <1>q, BecomePlain, PlainRecords DEF WakeParks, At, Exit
  <2>. QED  BY <1>20, <2>1 DEF WakeParks, AllPlain
<1>21. CASE WakeRechecks(t)
  <2>1. AllPlain
    <3>1. CASE stopped
      BY <1>21, <3>1, <1>p, <1>q, GotoPlain DEF WakeRechecks, At
    <3>2. CASE ~stopped
      <4> DEFINE run == [Idle EXCEPT !.pc = "merge", !.from = "dispatch", !.kind = "wake"]
      <4>1. run.pc = "merge" /\ run.carry = {} /\ run.kind # "queued" /\ run.entry = None
        BY DEF Idle
      <4>2. Become(t, run) /\ At(t, "wakeRecheck")
        BY <1>21, <3>2 DEF WakeRechecks
      <4> HIDE DEF run
      <4>. QED  BY <4>1, <4>2, BecomePlain DEF At
    <3>. QED  BY <3>1, <3>2
  <2>. QED  BY <1>21, <2>1 DEF WakeRechecks, AllPlain
<1>22. CASE WakeDropsGuard(t)
  <2>1. AllPlain
    BY <1>22, <1>q, BecomePlain, PlainRecords DEF WakeDropsGuard, At, Exit
  <2>. QED  BY <1>22, <2>1 DEF WakeDropsGuard, AllPlain
<1>23. CASE WakeFails(t)
  <2>1. AllPlain
    BY <1>23, <1>q, BecomePlain, PlainRecords DEF WakeFails, At, Exit
  <2>2. Failures' >= Failures
    BY <1>23, CountFails DEF WakeFails
  <2>. QED  BY <1>23, <2>1, <2>2 DEF WakeFails, AllPlain
<1>24. CASE RunErrs(t)
  <2>1. AllPlain
    BY <1>24, <1>p, <1>q, GotoPlain DEF RunErrs, At
  <2>2. Failures' >= Failures
    BY <1>24, CountFails DEF RunErrs
  <2>. QED  BY <1>24, <2>1, <2>2 DEF RunErrs, AllPlain
<1>25. CASE RunTimesOut(t)
  <2>1. AllPlain
    BY <1>25, BecomePlain, PlainRecords DEF RunTimesOut, At, Exit
  <2>2. Failures' >= Failures
    BY <1>25, CountFails DEF RunTimesOut
  <2>. QED  BY <1>25, <2>1, <2>2 DEF RunTimesOut, AllPlain
<1>26. CASE RunDropsGuard(t)
  <2>1. AllPlain
    BY <1>26, BecomePlain, PlainRecords DEF RunDropsGuard, At
  <2>. QED  BY <1>26, <2>1 DEF RunDropsGuard, AllPlain
<1>. QED
  BY <1>1, <1>2, <1>3, <1>4, <1>5, <1>6, <1>7, <1>8, <1>9, <1>10, <1>11, <1>12, <1>13,
     <1>14, <1>15, <1>16, <1>17, <1>18, <1>19, <1>20, <1>21, <1>22, <1>23, <1>24, <1>25,
     <1>26 DEF WakeUp

(* A step that moves thread t only, with what it must keep for each entry. *)
LEMMA OneMoves ==
  ASSUME TypeOK, TypeOK', Sparing, NEW t \in Threads,
         \A u \in Threads \ {t} : thread'[u] = thread[u],
         Failures' >= Failures, sent \subseteq sent',
         \* the thread
         thread'[t].carry # {} =>
           thread'[t].pc \in {"save", "dequeue", "loop", "complete", "drop"},
         thread'[t].pc \in RunPcs /\ thread'[t].kind # "queued" => thread'[t].entry = None,
         \A e \in Entries \cap thread'[t].carry : thread'[t].entry = e,
         \* the transcript: only what the thread carried has grown
         \A e \in Entries \ thread[t].carry : transcript'[e] = transcript[e],
         \A u \in Threads \ {t} : Entries \cap thread[t].carry \cap thread[u].carry = {},
         \A u \in Threads \ {t} : At(u, "merge") => thread[u].entry \notin thread[t].carry,
         \* each entry
         \A e \in Entries :
           /\ transcript'[e] <= Failures' + 1
           /\ e \in waiting' \cup claimed' =>
                \/ transcript'[e] <= Failures'
                \/ \E u \in Threads : thread'[u].pc = "dequeue" /\ thread'[u].entry = e
           /\ thread'[t].pc = "merge" /\ thread'[t].entry = e => transcript'[e] <= Failures'
           /\ e \in thread'[t].carry =>
                /\ transcript'[e] <= Failures'
                /\ thread'[t].pc = "save" \/ transcript'[e] + 1 <= Failures',
         \A m \in Messages \ sent' :
           /\ m \notin waiting' \cup claimed'
           /\ m \notin thread'[t].carry /\ ~(thread'[t].pc = "merge" /\ thread'[t].entry = m)
  PROVE  Sparing'
<1> USE NoneIsNothing
<1>f. Failures \in Nat /\ Failures' \in Nat
  BY DEF TypeOK, Failures
<1>e. \A e \in Entries : transcript[e] \in Nat /\ transcript'[e] \in Nat
  BY DEF TypeOK
<1>1. CarriesOwn'
  BY DEF Sparing, CarriesOwn
<1>2. ASSUME NEW e \in Entries, NEW u \in Threads
      PROVE  /\ thread'[u].pc = "merge" /\ thread'[u].entry = e => transcript'[e] <= Failures'
             /\ e \in thread'[u].carry =>
                  /\ transcript'[e] <= Failures'
                  /\ thread'[u].pc = "save" \/ transcript'[e] + 1 <= Failures'
  <2>1. CASE u = t
    BY <2>1
  <2>2. CASE u # t
    <3>1. thread'[u] = thread[u]
      BY <2>2
    <3>2. (At(u, "merge") /\ thread[u].entry = e) \/ e \in thread[u].carry
            => transcript'[e] = transcript[e]
      BY <2>2
    <3>. QED  BY <1>f, <1>e, <3>1, <3>2 DEF Sparing, Spared, At
  <2>. QED  BY <2>1, <2>2
<1>3. Spared'
  BY <1>2 DEF Spared, At
<1>4. ASSUME NEW m \in Messages \ sent'
      PROVE /\ transcript'[m] = 0 /\ m \notin waiting' \cup claimed'
            /\ \A u \in Threads :
                 m \notin thread'[u].carry /\ ~(thread'[u].pc = "merge" /\ thread'[u].entry = m)
  <2>1. m \in Messages \ sent /\ m \in Entries
    BY DEF Entries
  <2>2. transcript[m] = 0 /\ \A u \in Threads :
          m \notin thread[u].carry /\ ~(At(u, "merge") /\ thread[u].entry = m)
    BY <2>1 DEF Sparing, Unknown
  <2>. QED  BY <2>1, <2>2 DEF At
<1>5. Unknown'
  BY <1>4 DEF Unknown, At
<1>. QED  BY <1>1, <1>3, <1>5 DEF Sparing

(* The holder of the guard is the only run.                                *)
LEMMA OnlyRun ==
  ASSUME TypeOK, GuardHeld, Sparing, NEW t \in Threads, thread[t].pc \in HoldingPcs,
         NEW u \in Threads \ {t}
  PROVE  thread[u].pc \notin HoldingPcs /\ thread[u].pc \notin RunPcs /\ thread[u].carry = {}
         /\ ~At(u, "merge") /\ ~At(u, "dequeue")
BY DEF GuardHeld, Sparing, CarriesOwn, HoldingPcs, RunPcs, At

LEMMA RunPcsHold == RunPcs \subseteq HoldingPcs /\ "claim" \in HoldingPcs
BY DEF HoldingPcs

LEMMA QuietEnvironment ==
  ASSUME TypeOK, TypeOK', Sparing,
         \/ \E e \in Entries : SendNow(e) \/ Remove(e)
         \/ \E k \in Tasks : TaskFinishes(k)
         \/ Stop \/ StartDirect \/ UNCHANGED vars
  PROVE  Sparing'
<1> USE QuietStep, UsedStays, CountFails DEF queue, results, memory, history
<1>1. ASSUME NEW e \in Entries, SendNow(e) PROVE Sparing'
  <2>1. AllPlain
    BY <1>1, ArrivePlain, PlainRecords DEF SendNow
  <2>. QED  BY <1>1, <2>1 DEF SendNow, Q!Promote, AllPlain
<1>2. ASSUME NEW e \in Entries, Remove(e) PROVE Sparing'
  BY <1>2 DEF Remove, Q!Remove
<1>3. ASSUME NEW k \in Tasks, TaskFinishes(k) PROVE Sparing'
  <2>1. AllPlain
    BY <1>3, ArrivePlain, PlainRecords DEF TaskFinishes
  <2>. QED  BY <1>3, <2>1 DEF TaskFinishes, AllPlain
<1>4. CASE Stop
  <2>1. AllPlain
    BY <1>4, ArrivePlain, PlainRecords DEF Stop
  <2>. QED  BY <1>4, <2>1 DEF Stop, AllPlain
<1>5. CASE StartDirect
  <2> DEFINE run == [Idle EXCEPT !.pc = "merge", !.kind = "direct"]
  <2>1. run.pc = "merge" /\ run.carry = {} /\ run.kind # "queued" /\ run.entry = None
    BY DEF Idle
  <2>2. PICK t \in Free : Become(t, run)
    BY <1>5 DEF StartDirect
  <2> HIDE DEF run
  <2>3. AllPlain
    BY <2>1, <2>2, BecomePlain DEF Free, At
  <2>. QED  BY <1>5, <2>3 DEF StartDirect, AllPlain
<1>6. CASE UNCHANGED vars
  BY <1>6 DEF vars
<1>. QED  BY <1>1, <1>2, <1>3, <1>4, <1>5, <1>6

(* A message is enqueued once, and was never saved before.                 *)
LEMMA SendSpares ==
  ASSUME TypeOK, TypeOK', Sparing, NEW m \in Messages, Send(m)
  PROVE  Sparing'
<1> USE DEF queue, results, memory, history
<1> DEFINE r == Handler("resume", None)
<1>1. PICK t \in Threads : At(t, "idle") /\ Become(t, r)
  BY DEF Send, Arrive, Free
<1>2. r.carry = {} /\ r.pc \notin RunPcs
  BY PlainRecords
<1> HIDE DEF r
<1>3. /\ \A u \in Threads \ {t} : thread'[u] = thread[u]
      /\ thread'[t].carry = {} /\ thread'[t].pc \notin RunPcs /\ thread[t].carry = {}
  BY <1>1, <1>2 DEF Become, TypeOK, Sparing, CarriesOwn, At
<1>4. /\ UNCHANGED transcript /\ Failures' = Failures /\ Failures \in Nat
      /\ waiting' \cup claimed' = waiting \cup claimed \cup {m}
      /\ sent' = sent \cup {m} /\ m \notin sent
  BY FailuresNat, UsedStays DEF Send, Q!Enqueue
<1>5. transcript[m] = 0
  BY <1>4 DEF Sparing, Unknown
<1>6. ASSUME NEW e \in Entries
      PROVE  /\ transcript'[e] <= Failures' + 1
             /\ e \in waiting' \cup claimed' =>
                  \/ transcript'[e] <= Failures'
                  \/ \E u \in Threads : thread'[u].pc = "dequeue" /\ thread'[u].entry = e
  <2>1. CASE e = m
    BY <1>4, <1>5, <2>1
  <2>2. CASE e # m
    <3>1. \A u \in Threads : At(u, "dequeue") => thread'[u] = thread[u]
      BY <1>1, <1>3 DEF At
    <3>. QED  BY <1>4, <2>2, <3>1 DEF Sparing, Spared, At
  <2>. QED  BY <2>1, <2>2
<1>7. ASSUME NEW n \in Messages \ sent'
      PROVE  n \notin waiting' \cup claimed'
  BY <1>4 DEF Sparing, Unknown
<1>8. "merge" \in RunPcs
  BY DEF RunPcs
<1>9. Failures' >= Failures /\ sent \subseteq sent'
  BY <1>4
<1>. QED  BY <1>3, <1>4, <1>6, <1>7, <1>8, <1>9, OneMoves

(* A crash may cut a run off between its save and the delete of its row:   *)
(* the claim hands the row out again.                                      *)
LEMMA CrashSpares ==
  ASSUME TypeOK, TypeOK', Sparing, Crash
  PROVE  Sparing'
<1>1. /\ UNCHANGED <<waiting, claimed, transcript, sent>> /\ Failures' = Failures + 1
      /\ \A t \in Threads : thread'[t] = Idle
  BY CountFails DEF Crash, queue
<1>2. Failures \in Nat /\ \A e \in Entries : transcript[e] \in Nat
  BY FailuresNat
<1>3. \A t \in Threads : thread'[t].carry = {} /\ thread'[t].pc \notin RunPcs
                         /\ thread'[t].pc # "merge"
  BY <1>1, PlainRecords DEF Idle
<1>4. CarriesOwn'
  BY <1>3 DEF CarriesOwn
<1>5. Spared'
  BY <1>1, <1>2, <1>3 DEF Sparing, Spared, At
<1>6. Unknown'
  BY <1>1, <1>3 DEF Sparing, Unknown, At
<1>. QED  BY <1>4, <1>5, <1>6 DEF Sparing

(* What is claimed was saved no more often than there were failures: no    *)
(* other run is between its save and the delete.                           *)
LEMMA ClaimSpares ==
  ASSUME TypeOK, TypeOK', GuardHeld, Sparing, NEW t \in Threads, SpawnClaims(t)
  PROVE  Sparing'
<1> USE DEF queue, results, memory, history
<1>1. PICK e \in Entries :
        /\ (e \in claimed /\ UNCHANGED queue) \/ Q!Claim(e)
        /\ \/ Become(t, [Idle EXCEPT !.pc = "merge", !.from = "dispatch",
                                     !.kind = "queued", !.entry = e])
           \/ thread' = [thread EXCEPT ![t] = [@ EXCEPT !.pc = "reject", !.entry = e]]
  BY DEF SpawnClaims
<1>2. At(t, "claim") /\ UNCHANGED <<transcript, used, sent>>
  BY DEF SpawnClaims
<1>3. e \in waiting \cup claimed /\ waiting' \cup claimed' = waiting \cup claimed
  BY <1>1 DEF Q!Claim, Q!IsHead
<1>4. thread[t].carry = {} /\ thread[t] \in ThreadRecords
  BY <1>2 DEF TypeOK, Sparing, CarriesOwn, At
<1>5. /\ thread'[t].carry = {} /\ thread'[t].entry = e
      /\ \/ thread'[t].pc = "merge" /\ thread'[t].kind = "queued"
         \/ thread'[t].pc = "reject"
      /\ \A u \in Threads \ {t} : thread'[u] = thread[u]
  <2>1. CASE Become(t, [Idle EXCEPT !.pc = "merge", !.from = "dispatch",
                                    !.kind = "queued", !.entry = e])
    BY <2>1 DEF Become, Idle, TypeOK
  <2>2. CASE thread' = [thread EXCEPT ![t] = [@ EXCEPT !.pc = "reject", !.entry = e]]
    BY <1>4, <2>2 DEF TypeOK, ThreadRecords
  <2>. QED  BY <1>1, <2>1, <2>2
<1>6. \A u \in Threads : ~At(u, "dequeue")
  BY <1>2, RunPcsHold, OnlyRun DEF At
<1>7. /\ Failures' = Failures /\ Failures' >= Failures /\ Failures \in Nat
      /\ \A x \in Entries : transcript[x] \in Nat
  BY <1>2, UsedStays, FailuresNat
<1>8. \A x \in waiting \cup claimed : x \in Entries => transcript[x] <= Failures
  BY <1>6 DEF Sparing, Spared
<1>9. ASSUME NEW n \in Messages \ sent'
      PROVE  n \notin waiting' \cup claimed' /\ n # e
  BY <1>2, <1>3 DEF Sparing, Unknown
<1>10. "reject" \notin RunPcs
  BY DEF RunPcs
<1>11. \A x \in Entries :
         /\ transcript'[x] <= Failures' + 1
         /\ x \in waiting' \cup claimed' => transcript'[x] <= Failures'
         /\ thread'[t].pc = "merge" /\ thread'[t].entry = x => transcript'[x] <= Failures'
  BY <1>2, <1>3, <1>5, <1>7, <1>8 DEF Sparing, Spared
<1>12. sent \subseteq sent'
  BY <1>2
<1>. QED  BY <1>2, <1>4, <1>5, <1>7, <1>9, <1>10, <1>11, <1>12, OneMoves

(* The merge adds the entry of the run to what it carries.                 *)
LEMMA MergeSpares ==
  ASSUME TypeOK, TypeOK', GuardHeld, Sparing, NEW t \in Threads, RunMerges(t)
  PROVE  Sparing'
<1> USE DEF queue, results, memory, history
<1> DEFINE found == finished \ notified
           message == {thread[t].entry} \ {None}
           p == IF thread[t].kind = "wake" /\ found = {} THEN "drop" ELSE "save"
           next == [thread[t] EXCEPT !.carry = found \cup message, !.pc = p]
<1>1. /\ At(t, "merge") /\ thread' = [thread EXCEPT ![t] = next]
      /\ UNCHANGED <<waiting, claimed, transcript, sent>>
  BY DEF RunMerges
<1>2. Failures' >= Failures
  <2>1. UNCHANGED used \/ Count("fault", MaxFaults)
    BY DEF RunMerges
  <2>. QED  BY <2>1, UsedStays, CountFails
<1>3. thread[t] \in ThreadRecords /\ thread[t].carry = {}
  BY <1>1 DEF TypeOK, Sparing, CarriesOwn, At
<1>4. /\ next.pc = p /\ next.carry = found \cup message
      /\ next.kind = thread[t].kind /\ next.entry = thread[t].entry
  BY <1>3 DEF ThreadRecords
<1> HIDE DEF next
<1>5. /\ thread'[t] = next /\ \A u \in Threads \ {t} : thread'[u] = thread[u]
  BY <1>1 DEF TypeOK
<1>6. found \cap Entries = {}
  BY TasksAreNoEntries DEF TypeOK
<1>7. thread[t].kind # "queued" => thread[t].entry = None
  BY <1>1 DEF Sparing, CarriesOwn, RunPcs, At
<1>8. p = "drop" => found \cup message = {}
  BY <1>7
<1>9. \A e \in Entries \cap (found \cup message) : thread[t].entry = e
  BY <1>6
<1>10. p \in {"drop", "save"}
  OBVIOUS
<1> HIDE DEF p, found, message
<1>11. /\ thread'[t].carry # {} => thread'[t].pc = "save"
       /\ \A e \in Entries \cap thread'[t].carry : thread'[t].entry = e
       /\ thread'[t].pc \in RunPcs /\ thread'[t].kind # "queued" => thread'[t].entry = None
  BY <1>4, <1>5, <1>7, <1>8, <1>9, <1>10
<1>12. /\ Failures \in Nat /\ Failures' \in Nat
       /\ \A e \in Entries : transcript[e] \in Nat /\ transcript'[e] = transcript[e]
  BY <1>1, FailuresNat DEF TypeOK, Failures
<1>13. ASSUME NEW e \in Entries
       PROVE  /\ transcript'[e] <= Failures' + 1
              /\ e \in waiting' \cup claimed' =>
                   \/ transcript'[e] <= Failures'
                   \/ \E u \in Threads : thread'[u].pc = "dequeue" /\ thread'[u].entry = e
              /\ e \in thread'[t].carry => transcript'[e] <= Failures'
  <2>1. transcript'[e] <= Failures' + 1
    BY <1>2, <1>12 DEF Sparing, Spared
  <2>2. ASSUME e \in waiting' \cup claimed' PROVE transcript'[e] <= Failures'
    <3>1. \A u \in Threads : ~At(u, "dequeue")
      BY <1>1, OnlyRun, RunPcsHold DEF At, RunPcs
    <3>. QED  BY <1>1, <1>2, <1>12, <2>2, <3>1 DEF Sparing, Spared
  <2>3. ASSUME e \in thread'[t].carry PROVE transcript'[e] <= Failures'
    <3>1. thread[t].entry = e
      BY <1>4, <1>5, <1>9, <2>3
    <3>. QED  BY <1>1, <1>2, <1>12, <3>1 DEF Sparing, Spared
  <2>. QED  BY <2>1, <2>2, <2>3
<1>14. ASSUME NEW m \in Messages \ sent'
       PROVE  m \notin waiting' \cup claimed' /\ m \notin thread'[t].carry
  <2>1. m \in Messages \ sent /\ m \in Entries
    BY <1>1 DEF Entries
  <2>2. thread[t].entry # m /\ m \notin waiting' \cup claimed'
    BY <1>1, <2>1 DEF Sparing, Unknown
  <2>. QED  BY <1>11, <1>4, <1>5, <2>1, <2>2
<1>15. thread'[t].pc # "merge"
  BY <1>4, <1>5, <1>10
<1>16. sent \subseteq sent'
  BY <1>1
<1>. QED  BY <1>2, <1>3, <1>5, <1>11, <1>12, <1>13, <1>14, <1>15, <1>16, OneMoves

(* A run goes on: other threads carry nothing.                             *)
LEMMA RunMoves ==
  ASSUME TypeOK, TypeOK', GuardHeld, Sparing, NEW t \in Threads, thread[t].pc \in RunPcs,
         NEW p \in {"dequeue", "loop", "complete", "finish", "drop"}, MovesTo(t, p),
         thread'[t].carry # {} => p \in {"dequeue", "loop", "complete", "drop"},
         TranscriptGrows(t), UNCHANGED sent, Failures' >= Failures,
         waiting' \cup claimed' \subseteq waiting \cup claimed \cup (Entries \ Messages),
         \A e \in Entries :
           /\ transcript'[e] <= Failures' + 1
           /\ e \in waiting' \cup claimed' =>
                \/ transcript'[e] <= Failures'
                \/ p = "dequeue" /\ thread[t].entry = e
           /\ e \in thread'[t].carry => transcript'[e] + 1 <= Failures'
  PROVE  Sparing'
<1>1. \A u \in Threads \ {t} : thread[u].carry = {} /\ ~At(u, "merge")
  BY OnlyRun, RunPcsHold
<1>2. /\ thread'[t].pc = p /\ thread'[t].kind = thread[t].kind
      /\ thread'[t].entry = thread[t].entry /\ thread'[t].carry \subseteq thread[t].carry
      /\ \A u \in Threads \ {t} : thread'[u] = thread[u]
  BY DEF MovesTo
<1>3. /\ thread'[t].kind # "queued" => thread'[t].entry = None
      /\ \A e \in Entries \cap thread'[t].carry : thread'[t].entry = e
  BY <1>2 DEF Sparing, CarriesOwn
<1>4. \A e \in Entries \ thread[t].carry : transcript'[e] = transcript[e]
  BY DEF TranscriptGrows
<1>5. ASSUME NEW m \in Messages \ sent'
      PROVE  m \notin waiting' \cup claimed' /\ m \notin thread'[t].carry
  BY <1>2, <1>5 DEF Sparing, Unknown
<1>6. Failures' \in Nat /\ \A e \in Entries : transcript'[e] \in Nat
  BY DEF TypeOK, Failures
<1>7. \A e \in Entries : e \in thread'[t].carry => transcript'[e] <= Failures'
  BY <1>6
<1>8. \A e \in Entries : e \in waiting' \cup claimed' =>
        \/ transcript'[e] <= Failures'
        \/ \E u \in Threads : thread'[u].pc = "dequeue" /\ thread'[u].entry = e
  BY <1>2
<1>9. sent \subseteq sent'
  OBVIOUS
<1>. QED  BY <1>1, <1>2, <1>3, <1>4, <1>5, <1>7, <1>8, <1>9, OneMoves

(* What a run carries was saved less often than there were failures, so    *)
(* that its save is allowed for.                                           *)
LEMMA SaveSpares ==
  ASSUME TypeOK, TypeOK', GuardHeld, Sparing, NEW t \in Threads,
         RunSaves(t) \/ RunIterates(t) \/ RunCompletes(t)
  PROVE  Sparing'
<1> USE DEF queue, results, memory, history
<1>f. /\ Failures \in Nat /\ Failures' \in Nat
      /\ \A e \in Entries : transcript[e] \in Nat /\ transcript'[e] \in Nat
  BY DEF TypeOK, Failures
<1>r. "save" \in RunPcs /\ "loop" \in RunPcs /\ "complete" \in RunPcs
  BY DEF RunPcs
<1>u. UNCHANGED <<waiting, claimed, sent>> /\ thread[t].pc \in RunPcs
  BY <1>r DEF RunSaves, RunIterates, RunCompletes, At
<1>h. \A u \in Threads \ {t} : ~At(u, "dequeue")
  BY <1>u, OnlyRun, RunPcsHold
<1>p. /\ "drop" \in Pcs /\ "complete" \in Pcs /\ "finish" \in Pcs
      /\ "dequeue" \in Pcs /\ "loop" \in Pcs
  BY DEF Pcs, HoldingPcs, RunPcs
<1>q. ASSUME ~At(t, "dequeue"), NEW e \in Entries, e \in waiting \cup claimed
      PROVE  transcript[e] <= Failures
  BY <1>h, <1>q DEF Sparing, Spared
<1>1. CASE RunSaves(t)
  <2> DEFINE next == IF thread[t].kind = "queued" THEN "dequeue" ELSE "loop"
  <2>1. /\ At(t, "save") /\ ~At(t, "dequeue") /\ next \in {"dequeue", "loop"}
        /\ \/ Save(t, next) /\ UNCHANGED used
           \/ Count("fault", MaxFaults) /\ Goto(t, next) /\ UNCHANGED transcript
    BY <1>1 DEF RunSaves, At
  <2>2. \A e \in Entries \cap thread[t].carry :
          transcript[e] <= Failures /\ thread[t].entry = e /\ next = "dequeue"
    BY <1>u, NoneIsNothing DEF Sparing, Spared, CarriesOwn
  <2> HIDE DEF next
  <2>3. CASE Save(t, next) /\ UNCHANGED used
    <3>1. MovesTo(t, next) /\ TranscriptGrows(t) /\ CarrySaved(t)
      BY <1>p, <2>1, <2>3, SaveMoves
    <3>2. Failures' = Failures
      BY <2>3, UsedStays
    <3>3. \A e \in Entries : transcript'[e] = IF e \in thread[t].carry THEN transcript[e] + 1
                                                                       ELSE transcript[e]
      BY <3>1 DEF TranscriptGrows, CarrySaved
    <3>4. ASSUME NEW e \in Entries
          PROVE  /\ transcript'[e] <= Failures' + 1
                 /\ e \in waiting' \cup claimed' =>
                      transcript'[e] <= Failures' \/ (next = "dequeue" /\ thread[t].entry = e)
      <4>1. CASE e \in thread[t].carry
        BY <1>f, <2>2, <3>2, <3>3, <4>1
      <4>2. CASE e \notin thread[t].carry
        BY <1>f, <1>q, <1>u, <2>1, <3>2, <3>3, <4>2 DEF Sparing, Spared
      <4>. QED  BY <4>1, <4>2
    <3>5. thread'[t].carry = {} /\ Failures' >= Failures
      BY <1>f, <3>1, <3>2 DEF CarrySaved
    <3>. QED  BY <1>u, <2>1, <3>1, <3>4, <3>5, RunMoves
  <2>4. CASE Count("fault", MaxFaults) /\ Goto(t, next) /\ UNCHANGED transcript
    <3>1. MovesTo(t, next) /\ TranscriptGrows(t)
      BY <1>p, <2>1, <2>4, GotoMoves DEF TranscriptGrows, TypeOK
    <3>2. Failures' = Failures + 1 /\ Failures' >= Failures
      BY <2>4, CountFails
    <3>3. ASSUME NEW e \in Entries
          PROVE  /\ transcript'[e] <= Failures' + 1
                 /\ e \in waiting' \cup claimed' => transcript'[e] <= Failures'
                 /\ e \in thread'[t].carry => transcript'[e] + 1 <= Failures'
      <4>1. transcript'[e] = transcript[e] /\ transcript[e] <= Failures + 1
        BY <2>4 DEF Sparing, Spared
      <4>2. e \in thread'[t].carry => transcript[e] <= Failures
        BY <2>2, <3>1 DEF MovesTo
      <4>. QED  BY <1>f, <3>2, <4>1, <4>2
    <3>. QED  BY <1>u, <2>1, <3>1, <3>2, <3>3, RunMoves
  <2>. QED  BY <2>1, <2>3, <2>4
<1>2. CASE RunIterates(t) \/ RunCompletes(t)
  <2>1. PICK p \in {"drop", "complete", "finish"} :
          Save(t, p) \/ (p # "finish" /\ Goto(t, p) /\ UNCHANGED transcript)
    BY <1>2 DEF RunIterates, RunCompletes
  <2>2. ~At(t, "save") /\ ~At(t, "dequeue") /\ Failures' = Failures /\ Failures' >= Failures
    BY <1>2, UsedStays DEF RunIterates, RunCompletes, At
  <2>3. \A e \in Entries \cap thread[t].carry : transcript[e] + 1 <= Failures
    BY <2>2 DEF Sparing, Spared
  <2>4. CASE Save(t, p)
    <3>1. MovesTo(t, p) /\ TranscriptGrows(t) /\ CarrySaved(t)
      BY <1>p, <2>4, SaveMoves
    <3>2. \A e \in Entries : transcript'[e] = IF e \in thread[t].carry THEN transcript[e] + 1
                                                                       ELSE transcript[e]
      BY <3>1 DEF TranscriptGrows, CarrySaved
    <3>3. ASSUME NEW e \in Entries
          PROVE  /\ transcript'[e] <= Failures' + 1
                 /\ e \in waiting' \cup claimed' => transcript'[e] <= Failures'
      <4>1. CASE e \in thread[t].carry
        BY <1>f, <2>2, <2>3, <3>2, <4>1
      <4>2. CASE e \notin thread[t].carry
        BY <1>f, <1>q, <1>u, <2>2, <3>2, <4>2 DEF Sparing, Spared
      <4>. QED  BY <4>1, <4>2
    <3>4. thread'[t].carry = {}
      BY <3>1 DEF CarrySaved
    <3>. QED  BY <1>u, <2>2, <3>1, <3>3, <3>4, RunMoves
  <2>5. CASE p # "finish" /\ Goto(t, p) /\ UNCHANGED transcript
    <3>1. AllPlain
      BY <1>p, <1>u, <2>2, <2>5, GotoPlain
    <3>. QED  BY <1>u, <2>2, <2>5, <3>1, QuietStep DEF AllPlain
  <2>. QED  BY <2>1, <2>4, <2>5
<1>. QED  BY <1>1, <1>2

(* After the delete the row is gone, or the delete was a failure.          *)
LEMMA DequeueSpares ==
  ASSUME TypeOK, TypeOK', GuardHeld, Sparing, NEW t \in Threads, RunDequeues(t)
  PROVE  Sparing'
<1> USE DEF queue, results, memory, history
<1> DEFINE x == thread[t].entry
<1>1. /\ At(t, "dequeue") /\ Goto(t, "loop") /\ UNCHANGED <<transcript, sent>>
      /\ \/ x \notin waiting' \cup claimed' /\ UNCHANGED used
         \/ Count("fault", MaxFaults)
      /\ waiting' \cup claimed' \subseteq waiting \cup claimed
  BY DEF RunDequeues, Q!Remove
<1>2. thread[t].pc \in RunPcs /\ "loop" \in Pcs
  BY <1>1 DEF At, Pcs, HoldingPcs, RunPcs
<1>3. MovesTo(t, "loop") /\ TranscriptGrows(t)
  BY <1>1, <1>2, GotoMoves DEF TranscriptGrows, TypeOK
<1>4. /\ Failures \in Nat /\ Failures' \in Nat
      /\ \A e \in Entries : transcript[e] \in Nat /\ transcript'[e] = transcript[e]
  BY <1>1, FailuresNat DEF TypeOK, Failures
<1>5. \/ x \notin waiting' \cup claimed' /\ Failures' = Failures
      \/ Failures' = Failures + 1
  BY <1>1, UsedStays, CountFails
<1>6. Failures' >= Failures
  BY <1>4, <1>5
<1>7. ASSUME NEW e \in Entries
      PROVE  /\ transcript'[e] <= Failures' + 1
             /\ e \in waiting' \cup claimed' => transcript'[e] <= Failures'
             /\ e \in thread'[t].carry => transcript'[e] + 1 <= Failures'
  <2>1. /\ transcript[e] <= Failures + 1
        /\ e \in thread[t].carry => transcript[e] + 1 <= Failures
    BY <1>1 DEF Sparing, Spared, At
  <2>2. e \in waiting \cup claimed /\ e # x => transcript[e] <= Failures
    <3>1. \A u \in Threads \ {t} : ~At(u, "dequeue")
      BY <1>2, OnlyRun, RunPcsHold
    <3>. QED  BY <3>1 DEF Sparing, Spared
  <2>3. e \in thread'[t].carry => e \in thread[t].carry
    BY <1>3 DEF MovesTo
  <2> HIDE DEF x
  <2>. QED  BY <1>1, <1>4, <1>5, <2>1, <2>2, <2>3
<1>. QED  BY <1>1, <1>2, <1>3, <1>6, <1>7, RunMoves

(* A round is enqueued only if it was never saved.                         *)
LEMMA FinishSpares ==
  ASSUME TypeOK, TypeOK', GuardHeld, Sparing, NEW t \in Threads, RunFinishes(t)
  PROVE  Sparing'
<1> USE DEF queue, results, memory, history
<1>1. /\ At(t, "finish") /\ Goto(t, "drop") /\ UNCHANGED <<transcript, sent, used>>
      /\ \/ \E r \in Rounds : transcript[r] = 0 /\ waiting' = waiting \cup {r}
                              /\ claimed' = claimed
         \/ UNCHANGED <<waiting, claimed>>
  BY DEF RunFinishes, Q!Enqueue
<1>2. thread[t].pc \in RunPcs /\ "drop" \in Pcs /\ thread[t].carry = {}
  BY <1>1 DEF At, Pcs, HoldingPcs, RunPcs, Sparing, CarriesOwn
<1>3. MovesTo(t, "drop") /\ TranscriptGrows(t)
  BY <1>1, <1>2, GotoMoves DEF TranscriptGrows, TypeOK
<1>4. /\ Failures \in Nat /\ Failures' = Failures /\ Failures' >= Failures
      /\ \A e \in Entries : transcript[e] \in Nat /\ transcript'[e] = transcript[e]
  BY <1>1, FailuresNat, UsedStays
<1>5. Rounds \subseteq Entries \ Messages
  BY RoundsAreNoMessages DEF Entries
<1>6. \A u \in Threads : ~At(u, "dequeue")
  BY <1>1, <1>2, OnlyRun, RunPcsHold DEF At
<1>7. ASSUME NEW e \in Entries
      PROVE  /\ transcript'[e] <= Failures' + 1
             /\ e \in waiting' \cup claimed' => transcript'[e] <= Failures'
  BY <1>1, <1>4, <1>6 DEF Sparing, Spared
<1>8. waiting' \cup claimed' \subseteq waiting \cup claimed \cup (Entries \ Messages)
  BY <1>1, <1>5
<1>9. thread'[t].carry = {}
  BY <1>2, <1>3 DEF MovesTo
<1>. QED  BY <1>1, <1>2, <1>3, <1>4, <1>7, <1>8, <1>9, RunMoves

LEMMA SparingStep ==
  ASSUME TypeOK, TypeOK', GuardHeld, Sparing, [Next]_vars
  PROVE  Sparing'
<1>1. ASSUME Environment PROVE Sparing'
  BY <1>1, QuietEnvironment, SendSpares, CrashSpares DEF Environment
<1>2. ASSUME NEW t \in Threads, ThreadStep(t) PROVE Sparing'
  BY <1>2, QuietActions, ClaimSpares, MergeSpares, SaveSpares, DequeueSpares, FinishSpares
  DEF ThreadStep, Request, Spawn, Run
<1>3. ASSUME NEW t \in Threads,
             StopRemovesRound(t) \/ SpawnFails(t) \/ WakeFails(t) \/ RunErrs(t)
               \/ RunTimesOut(t)
      PROVE Sparing'
  BY <1>3, QuietActions
<1>4. CASE UNCHANGED vars
  BY <1>4, QuietEnvironment
<1>. QED  BY <1>1, <1>2, <1>3, <1>4 DEF Next

(* The claim hands a row out again after a crash or a delete that failed,  *)
(* and a failed first save leaves its message to a later one: a message is *)
(* saved once, and once more for each crash and failing operation at most, *)
(* whatever is sent, stopped, removed or rejected meanwhile.               *)
THEOREM RepeatsAreBounded == Spec => []RepeatsNeedFailures
<1>1. Init => Sparing
  <2> SUFFICES ASSUME Init PROVE Sparing
    OBVIOUS
  <2>1. CarriesOwn
    BY DEF Init, CarriesOwn, Idle, RunPcs
  <2>2. Spared
    <3>1. Failures = 0 /\ \A e \in Entries : transcript[e] = 0
      BY DEF Init, Failures
    <3>. QED  BY <3>1, NoneIsNothing DEF Init, Q!Init, Spared, Idle, At
  <2>3. Unknown
    BY DEF Init, Q!Init, Unknown, Idle, At, Entries
  <2>. QED  BY <2>1, <2>2, <2>3 DEF Sparing
<1>2. IInv /\ IInv' /\ Sparing /\ [Next]_vars => Sparing'
  BY SparingStep DEF IInv
<1>3. IInv /\ Sparing => RepeatsNeedFailures
  <2> SUFFICES ASSUME IInv, Sparing, NEW e \in Entries
               PROVE  transcript[e] <= 1 + used["crash"] + used["fault"]
    BY DEF RepeatsNeedFailures
  <2>1. used["crash"] \in Nat /\ used["fault"] \in Nat /\ transcript[e] \in Nat
    BY DEF IInv, TypeOK
  <2>2. transcript[e] <= Failures + 1
    BY DEF Sparing, Spared
  <2>. QED  BY <2>1, <2>2 DEF Failures
<1>. QED  BY <1>1, <1>2, <1>3, Invariance, PTL DEF Spec
=============================================================================
