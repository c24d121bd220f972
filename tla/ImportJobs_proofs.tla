------------------------- MODULE ImportJobs_proofs -------------------------
(***************************************************************************)
(* Proofs about ImportJobs for any number of jobs, threads and stops.      *)
(*                                                                         *)
(* A job is handed on: from the request that submits it to the queue of    *)
(* the pool to one thread.  IInv says that it is in one place at a time    *)
(* and that its file is on disk as long as somebody will read it.          *)
(***************************************************************************)
EXTENDS ImportJobs, TLAPS

Busy(t) == thread[t].at # "idle"

(* What waits in the queue is there once and nowhere else. *)
QueueOnce ==
    /\ \A i, k \in DOMAIN queue : i # k => queue[i] # queue[k]
    /\ \A i \in DOMAIN queue : submit[queue[i]] = "none"
    /\ \A i \in DOMAIN queue, t \in Threads : Busy(t) => thread[t].job # queue[i]

(* What a thread works on is nowhere else. *)
ThreadOnce ==
    /\ \A t \in Threads : Busy(t) => thread[t].job \in Jobs /\ submit[thread[t].job] = "none"
    /\ \A t, u \in Threads : t # u /\ Busy(t) /\ Busy(u) => thread[t].job # thread[u].job

(* A job that was never inserted is nowhere. *)
NewIsNowhere ==
    \A j \in Jobs : status[j] = "none" =>
        /\ submit[j] = "none"
        /\ ~Waiting(j)
        /\ \A t \in Threads : Busy(t) => thread[t].job # j

FilesKept ==
    /\ \A j \in Jobs : submit[j] = "persisted" => j \in disk
    /\ \A i \in DOMAIN queue : queue[i] \in disk
    /\ RunningHasItsFile

FinishedIsImported == \A t \in Threads : thread[t].at = "finish" => thread[t].job \in imported

DownHasNoQueue == ~up => queue = <<>>

IInv ==
    /\ TypeOK
    /\ QueueOnce
    /\ ThreadOnce
    /\ NewIsNowhere
    /\ FilesKept
    /\ FinishedIsImported
    /\ DownHasNoQueue
    /\ DoneIsImported

-----------------------------------------------------------------------------
(* Type correctness *)

(* Every step of Next keeps the types. *)
LEMMA TypeStep == ASSUME TypeOK, ThreadOnce, [Next]_vars PROVE TypeOK'
<1> USE JobAssumption DEF TypeOK, Ended, Idle, NoCancel
<1>1. ASSUME NEW j \in Jobs, Insert(j) PROVE TypeOK'
  BY <1>1 DEF Insert
<1>2. ASSUME NEW j \in Jobs, Persist(j) PROVE TypeOK'
  BY <1>2 DEF Persist
<1>3. ASSUME NEW j \in Jobs, Enqueue(j) PROVE TypeOK'
  BY <1>3 DEF Enqueue, jobTable
<1>4. ASSUME NEW j \in Jobs, ReadForCancel(j) PROVE TypeOK'
  BY <1>4 DEF ReadForCancel, jobTable
<1>5. ASSUME NEW t \in Threads, Take(t) PROVE TypeOK'
  <2>1. Head(queue) \in Jobs /\ Tail(queue) \in Seq(Jobs)
    BY <1>5 DEF Take
  <2> QED
    BY <2>1, <1>5 DEF Take, jobTable
<1>6. ASSUME NEW t \in Threads, NEW how \in Ended, End(t, how) PROVE TypeOK'
  BY <1>6 DEF End
<1>7. ASSUME NEW t \in Threads, Start(t) PROVE TypeOK'
  <2>1. CASE thread[t].flag
    BY <2>1, <1>6, <1>7 DEF Start
  <2>2. CASE ~thread[t].flag
    <3>1. status' = [status EXCEPT ![thread[t].job] = "running"]
      BY <2>2, <1>7 DEF Start, End
    <3>2. thread' = [thread EXCEPT ![t].at = "import"]
      BY <2>2, <1>7 DEF Start, End
    <3>3. UNCHANGED <<flagged, disk, imported, lost, submit, queue, cancel, up, stops>>
      BY <2>2, <1>7 DEF Start, End
    <3>4. thread' \in [Threads -> [at : {"idle", "start", "import", "finish"},
                                    job : Jobs \cup {None}, flag : BOOLEAN]]
      BY <3>2
    <3>5. status' \in [Jobs -> {"none", "pending", "running"} \cup Ended]
      BY <3>1
    <3> QED
      BY <3>3, <3>4, <3>5
  <2> QED
    BY <2>1, <2>2
<1>8. ASSUME NEW t \in Threads, Tick(t) \/ ImportFails(t) \/ Finish(t) PROVE TypeOK'
  BY <1>8, <1>6 DEF Tick, ImportFails, Finish
<1>9. ASSUME NEW t \in Threads, CommitRows(t) PROVE TypeOK'
  <2>1. thread[t].job \in Jobs
    BY <1>9 DEF CommitRows, ThreadOnce, Busy
  <2> QED
    BY <2>1, <1>9 DEF CommitRows
<1>10. CASE CommitCancel
  BY <1>10 DEF CommitCancel
<1>11. CASE Stop
  <2>1. <<>> \in Seq(Jobs) /\ stops' \in 0..MaxStops
    BY <1>11 DEF Stop
  <2> QED
    BY <2>1, <1>11 DEF Stop, jobTable
<1>12. CASE Kill
  BY <1>12 DEF Kill, jobTable
<1>13. CASE Restart \/ RecoveryFails
  <2>1. /\ Cleaned \subseteq Jobs /\ Unfinished \subseteq Jobs /\ disk' \subseteq Jobs
        /\ lost' \subseteq Jobs /\ <<>> \in Seq(Jobs)
    BY <1>13 DEF Restart, RecoveryFails, Cleaned, Unfinished
  <2>2. status' \in [Jobs -> {"none", "pending", "running"} \cup Ended]
    BY <1>13 DEF Restart, RecoveryFails
  <2>3. NewProcess
    BY <1>13 DEF Restart, RecoveryFails
  <2> QED
    BY <2>1, <2>2, <2>3 DEF NewProcess
<1>15. ASSUME NEW j \in Jobs, RequestFails(j) PROVE TypeOK'
  BY <1>15 DEF RequestFails
<1>16. ASSUME NEW t \in Threads, WriteFails(t) PROVE TypeOK'
  <2>1. thread[t].job \in Jobs
    BY <1>16 DEF WriteFails, ThreadOnce, Busy
  <2> QED
    BY <2>1, <1>16 DEF WriteFails
<1>14. CASE UNCHANGED vars
  BY <1>14 DEF vars, jobTable, memory
<1> QED
  BY <1>1, <1>2, <1>3, <1>4, <1>5, <1>7, <1>8, <1>9, <1>10, <1>11, <1>12, <1>13, <1>14,
     <1>15, <1>16 DEF Next, RunJob

-----------------------------------------------------------------------------
(* The inductive invariant *)

(* The initial state satisfies the invariant. *)
LEMMA InitHolds == Init => IInv
<1> SUFFICES ASSUME Init PROVE IInv
  OBVIOUS
<1>1. TypeOK
  <2>1. <<>> \in Seq(Jobs)
    OBVIOUS
  <2> QED
    BY <2>1, JobAssumption DEF Init, TypeOK, Idle, NoCancel
<1>2. DOMAIN queue = {} /\ \A t \in Threads : ~Busy(t) /\ thread[t].at = "idle"
  BY DEF Init, Idle, Busy
<1> QED
  BY <1>1, <1>2 DEF Init, IInv, QueueOnce, ThreadOnce, NewIsNowhere, FilesKept,
     FinishedIsImported, DownHasNoQueue, DoneIsImported, RunningHasItsFile, Waiting

(* The parts of the invariant, for the steps below. *)
Places == QueueOnce /\ ThreadOnce /\ NewIsNowhere /\ FilesKept /\ FinishedIsImported
          /\ DownHasNoQueue /\ DoneIsImported

(* A request that is submitting a job keeps the invariant. *)
LEMMA SubmitStep ==
  ASSUME IInv, NEW j \in Jobs, Insert(j) \/ Persist(j) \/ Enqueue(j) \/ ReadForCancel(j) \/ RequestFails(j)
  PROVE  Places'
<1> USE DEF IInv, TypeOK, Places, QueueOnce, ThreadOnce, NewIsNowhere, FilesKept,
            FinishedIsImported, DownHasNoQueue, DoneIsImported, RunningHasItsFile, Waiting, Busy
<1>1. CASE Insert(j)
  BY <1>1 DEF Insert
<1>2. CASE Persist(j)
  BY <1>2 DEF Persist, Ended
<1>3. CASE Enqueue(j)
  <2>1. /\ DOMAIN queue = 1..Len(queue) /\ DOMAIN queue' = 1..(Len(queue) + 1)
        /\ Len(queue) \in Nat
        /\ \A i \in 1..Len(queue) : queue'[i] = queue[i]
        /\ queue'[Len(queue) + 1] = j
    BY <1>3 DEF Enqueue
  <2>2. UNCHANGED <<status, flagged, disk, imported, thread, cancel, up>> /\ up
        /\ submit' = [submit EXCEPT ![j] = "none"] /\ submit[j] = "persisted"
    BY <1>3 DEF Enqueue, jobTable
  <2>3. ~Waiting(j) /\ \A t \in Threads : Busy(t) => thread[t].job # j
    BY <2>2
  <2>4. QueueOnce'
    <3>1. \A i \in DOMAIN queue' : \/ i \in DOMAIN queue /\ queue'[i] = queue[i] /\ queue[i] # j
                                   \/ i = Len(queue) + 1 /\ queue'[i] = j
      BY <2>1, <2>3
    <3>2. \A i \in DOMAIN queue : queue[i] \in Jobs /\ submit[queue[i]] = "none"
      OBVIOUS
    <3>3. \A i, k \in DOMAIN queue' : i # k => queue'[i] # queue'[k]
      BY <3>1
    <3>4. \A i \in DOMAIN queue' : submit'[queue'[i]] = "none"
      BY <3>1, <3>2, <2>2
    <3>5. \A i \in DOMAIN queue', t \in Threads : Busy(t)' => thread'[t].job # queue'[i]
      BY <3>1, <2>2, <2>3
    <3> QED
      BY <3>3, <3>4, <3>5
  <2>5. ThreadOnce'
    BY <2>2
  <2>6. NewIsNowhere'
    <3>1. status[j] # "none" /\ \A k \in Jobs : Waiting(k)' => Waiting(k) \/ k = j
      BY <2>1, <2>2
    <3>2. ASSUME NEW k \in Jobs, status'[k] = "none"
          PROVE  submit'[k] = "none" /\ ~Waiting(k)' /\ \A t \in Threads : Busy(t)' => thread'[t].job # k
      <4>1. status[k] = "none" /\ k # j
        BY <2>2, <3>1, <3>2
      <4>2. submit[k] = "none" /\ ~Waiting(k) /\ \A t \in Threads : Busy(t) => thread[t].job # k
        BY <4>1
      <4> QED
        BY <4>1, <4>2, <3>1, <2>2
    <3> QED
      BY <3>2
  <2>7. FilesKept'
    BY <2>1, <2>2
  <2> QED
    BY <2>2, <2>4, <2>5, <2>6, <2>7
<1>4. CASE ReadForCancel(j)
  BY <1>4 DEF ReadForCancel, jobTable
<1>5. CASE RequestFails(j)
  <2>1. /\ UNCHANGED <<status, disk, imported, queue, thread, up>>
        /\ \A k \in Jobs : submit'[k] # submit[k] => k = j /\ submit'[k] \in {"none", "stray"}
        /\ submit[j] # "none"
    BY <1>5 DEF RequestFails
  <2>2. QueueOnce' /\ ThreadOnce'
    BY <2>1
  <2>3. NewIsNowhere'
    BY <2>1
  <2> QED
    BY <2>1, <2>2, <2>3
<1> QED
  BY <1>1, <1>2, <1>3, <1>4, <1>5

(* A thread that takes a job from the queue keeps the invariant. *)
LEMMA TakeStep == ASSUME IInv, NEW t \in Threads, Take(t) PROVE Places'
<1> DEFINE j == Head(queue)
<1> USE DEF IInv, TypeOK, Places, QueueOnce, ThreadOnce, NewIsNowhere, FilesKept,
            FinishedIsImported, DownHasNoQueue, DoneIsImported, RunningHasItsFile, Waiting, Busy
<1>1. /\ UNCHANGED <<status, flagged, disk, imported, submit, cancel, up>> /\ up
      /\ thread' = [thread EXCEPT ![t] = [at |-> "start", job |-> j, flag |-> flagged[j]]]
      /\ ~Busy(t)
  BY DEF Take, jobTable, Idle
<1>2. /\ 1 \in DOMAIN queue /\ j = queue[1] /\ j \in Jobs
      /\ \A i \in DOMAIN queue' : /\ i \in Nat /\ i + 1 \in DOMAIN queue /\ i + 1 # 1
                                 /\ queue'[i] = queue[i + 1]
  BY DEF Take
<1>3. \A i \in DOMAIN queue' : queue'[i] # j
  BY <1>2
<1>4. /\ \A u \in Threads \ {t} : thread'[u] = thread[u] /\ (Busy(u)' <=> Busy(u))
      /\ Busy(t)' /\ thread'[t].job = j /\ thread'[t].at = "start"
  BY <1>1
<1>5. QueueOnce'
  <2>1. \A i, k \in DOMAIN queue' : i # k => queue'[i] # queue'[k]
    <3> TAKE i, k \in DOMAIN queue'
    <3>1. i # k => i + 1 # k + 1
      BY <1>2
    <3> QED
      BY <3>1, <1>2
  <2>2. \A i \in DOMAIN queue' : submit'[queue'[i]] = "none"
    BY <1>1, <1>2
  <2>3. \A i \in DOMAIN queue', u \in Threads : Busy(u)' => thread'[u].job # queue'[i]
    BY <1>2, <1>3, <1>4
  <2> QED
    BY <2>1, <2>2, <2>3
<1>6. ThreadOnce'
  <2>1. submit[j] = "none" /\ \A u \in Threads : Busy(u) => thread[u].job # j
    BY <1>2
  <2> QED
    BY <2>1, <1>1, <1>2, <1>4
<1>7. NewIsNowhere'
  <2>1. status[j] # "none" /\ \A k \in Jobs : Waiting(k)' => Waiting(k)
    BY <1>2
  <2> QED
    BY <2>1, <1>1, <1>4
<1>8. FilesKept' /\ FinishedIsImported' /\ DownHasNoQueue' /\ DoneIsImported'
  BY <1>1, <1>2, <1>4
<1> QED
  BY <1>5, <1>6, <1>7, <1>8

(* A thread that works on its job, or ends it, keeps the invariant. *)
LEMMA WorkStep ==
  ASSUME IInv, NEW t \in Threads,
         Start(t) \/ Tick(t) \/ ImportFails(t) \/ CommitRows(t) \/ Finish(t) \/ WriteFails(t)
  PROVE  Places'
<1> USE DEF IInv, TypeOK, Places, QueueOnce, ThreadOnce, NewIsNowhere, FilesKept,
            FinishedIsImported, DownHasNoQueue, DoneIsImported, RunningHasItsFile, Waiting, Busy
<1>1. ASSUME NEW how \in Ended, Busy(t), End(t, how),
             how = "done" => thread[t].at = "finish"
      PROVE  Places'
  <2> DEFINE j == thread[t].job
  <2>1. /\ UNCHANGED <<flagged, imported, submit, queue, cancel, up>>
        /\ status' = [status EXCEPT ![j] = how] /\ disk' = disk \ {j}
        /\ thread' = [thread EXCEPT ![t] = Idle] /\ j \in Jobs
    BY <1>1 DEF End
  <2>2. how # "none" /\ (how = "done" => j \in imported)
    BY <1>1 DEF Ended
  <2>3. /\ \A u \in Threads \ {t} : thread'[u] = thread[u] /\ (Busy(u)' <=> Busy(u))
        /\ ~Busy(t)' /\ thread'[t].at = "idle"
    BY <2>1 DEF Idle
  <2>4. /\ \A u \in Threads \ {t} : Busy(u) => thread[u].job # j
        /\ \A i \in DOMAIN queue : queue[i] # j
        /\ submit[j] = "none"
    BY <1>1
  <2>5. QueueOnce' /\ ThreadOnce'
    BY <2>1, <2>3
  <2>6. NewIsNowhere'
    BY <2>1, <2>2, <2>3
  <2>7. FilesKept'
    BY <2>1, <2>3, <2>4
  <2>8. FinishedIsImported' /\ DownHasNoQueue' /\ DoneIsImported'
    BY <2>1, <2>2, <2>3
  <2> QED
    BY <2>5, <2>6, <2>7, <2>8
<1>2. CASE Start(t)
  <2>1. CASE thread[t].flag
    BY <2>1, <1>1, <1>2 DEF Start, Ended
  <2>2. CASE ~thread[t].flag
    <3> DEFINE j == thread[t].job
    <3>1. /\ UNCHANGED <<flagged, disk, imported, submit, queue, cancel, up>>
          /\ status' = [status EXCEPT ![j] = "running"] /\ thread[t].at = "start"
          /\ thread' = [thread EXCEPT ![t].at = "import"]
      BY <2>2, <1>2 DEF Start
    <3>2. /\ \A u \in Threads \ {t} : thread'[u] = thread[u]
          /\ thread'[t].at = "import" /\ thread'[t].job = j
      BY <3>1
    <3>3. QueueOnce' /\ ThreadOnce'
      BY <3>1, <3>2
    <3>4. NewIsNowhere'
      BY <3>1, <3>2
    <3>5. FilesKept'
      BY <3>1, <3>2
    <3>6. FinishedIsImported' /\ DownHasNoQueue' /\ DoneIsImported'
      BY <3>1, <3>2
    <3> QED
      BY <3>3, <3>4, <3>5, <3>6
  <2> QED
    BY <2>1, <2>2
<1>3. CASE Tick(t)
  BY <1>1, <1>3 DEF Tick, Ended
<1>4. CASE ImportFails(t)
  BY <1>1, <1>4 DEF ImportFails, Ended
<1>5. CASE CommitRows(t)
  BY <1>5 DEF CommitRows
<1>6. CASE Finish(t)
  BY <1>1, <1>6 DEF Finish, Ended
<1>7. CASE WriteFails(t)
  <2>1. /\ UNCHANGED <<status, disk, imported, submit, queue, up>>
        /\ \A u \in Threads \ {t} : thread'[u] = thread[u] /\ (Busy(u)' <=> Busy(u))
        /\ ~Busy(t)' /\ thread'[t].at = "idle"
    BY <1>7 DEF WriteFails, Idle
  <2> QED
    BY <2>1
<1> QED
  BY <1>2, <1>3, <1>4, <1>5, <1>6, <1>7

(* A cancellation, a stop and a restart keep the invariant. *)
LEMMA ProcessStep == ASSUME IInv, CommitCancel \/ Stop \/ Kill \/ Restart \/ RecoveryFails PROVE Places'
<1> USE DEF IInv, TypeOK, Places, QueueOnce, ThreadOnce, NewIsNowhere, FilesKept,
            FinishedIsImported, DownHasNoQueue, DoneIsImported, RunningHasItsFile, Waiting, Busy
<1>1. CASE CommitCancel
  <2>1. \A j \in Jobs : status'[j] \in {status[j], "cancelled"}
    BY <1>1 DEF CommitCancel
  <2>2. UNCHANGED <<disk, imported, submit, queue, thread, up>>
    BY <1>1 DEF CommitCancel
  <2> QED
    BY <2>1, <2>2
<1>2. CASE Stop
  <2>1. DOMAIN queue' = {} /\ UNCHANGED <<status, disk, imported, submit, thread>> /\ queue' = <<>>
    BY <1>2 DEF Stop, jobTable
  <2> QED
    BY <2>1
<1>3. CASE Kill
  <2>1. \A t \in Threads : thread'[t].at = "idle"
    BY <1>3 DEF Kill, Idle
  <2>2. UNCHANGED <<status, disk, imported, submit, queue, up>>
    BY <1>3 DEF Kill, jobTable
  <2> QED
    BY <2>1, <2>2
<1>4. CASE Restart \/ RecoveryFails
  <2>1. /\ \A t \in Threads : thread'[t].at = "idle"
        /\ queue' = <<>> /\ DOMAIN queue' = {} /\ imported' = imported /\ up'
        /\ \A j \in Jobs : submit'[j] = "none"
    BY <1>4 DEF Restart, RecoveryFails, NewProcess, Idle
  <2>2. \A j \in Jobs : status'[j] \in {status[j], "failed"}
    BY <1>4 DEF Restart, RecoveryFails
  <2> QED
    BY <2>1, <2>2
<1> QED
  BY <1>1, <1>2, <1>3, <1>4

(* IInv is inductive. *)
LEMMA StepHolds == ASSUME IInv, [Next]_vars PROVE IInv'
<1>1. TypeOK'
  BY TypeStep DEF IInv
<1>2. Places'
  <2>1. CASE UNCHANGED vars
    BY <2>1 DEF vars, jobTable, memory, IInv, Places, QueueOnce, ThreadOnce, NewIsNowhere,
       FilesKept, FinishedIsImported, DownHasNoQueue, DoneIsImported, RunningHasItsFile,
       Waiting, Busy
  <2>2. CASE Next
    BY <2>2, SubmitStep, TakeStep, WorkStep, ProcessStep DEF Next, RunJob
  <2> QED
    BY <2>1, <2>2
<1> QED
  BY <1>1, <1>2 DEF IInv, Places

(* Every reachable state satisfies the invariant. *)
THEOREM InvariantHolds == Spec => []IInv
<1> QED
  BY InitHolds, StepHolds, PTL DEF Spec

-----------------------------------------------------------------------------
(* What follows *)

(* The variables keep their types. *)
THEOREM TypeCorrect == Spec => []TypeOK
<1>1. IInv => TypeOK
  BY DEF IInv
<1> QED
  BY <1>1, InvariantHolds, PTL

(* A job that is reported as done has its rows in the business tables,     *)
(* also when it was cancelled meanwhile or the process was restarted.      *)
THEOREM DoneIsTrue == Spec => []DoneIsImported
<1>1. IInv => DoneIsImported
  BY DEF IInv
<1> QED
  BY <1>1, InvariantHolds, PTL

(* The file of a job is on disk until the thread that reads it has ended:  *)
(* no cancellation and no restart takes it away.                           *)
THEOREM FileStays == Spec => []RunningHasItsFile
<1>1. IInv => RunningHasItsFile
  BY DEF IInv, FilesKept
<1> QED
  BY <1>1, InvariantHolds, PTL

(* A job with rows in the business tables has left the queue for good.     *)
ImportedIsPast ==
    \A j \in imported :
        /\ submit[j] = "none" /\ status[j] # "none" /\ ~Waiting(j)
        /\ \A t \in Threads : Busy(t) /\ thread[t].job = j => thread[t].at = "finish"

(* A job that has been submitted is known for good, and is not submitted   *)
(* again.                                                                  *)
LEMMA SubmittedOnce ==
  ASSUME TypeOK, NEW j \in Jobs, status[j] # "none", submit[j] = "none", [Next]_vars
  PROVE  status'[j] # "none" /\ submit'[j] = "none"
<1>1. status \in [Jobs -> {"none", "pending", "running"} \cup Ended] /\ "none" \notin Ended
      /\ submit \in [Jobs -> {"none", "inserted", "persisted", "stray"}]
  BY DEF TypeOK, Ended
<1>2. ASSUME NEW k \in Jobs, Insert(k) \/ Persist(k) \/ Enqueue(k) \/ ReadForCancel(k) \/ RequestFails(k)
      PROVE  status'[j] # "none" /\ submit'[j] = "none"
  BY <1>1, <1>2 DEF Insert, Persist, Enqueue, ReadForCancel, RequestFails, jobTable
<1>3. ASSUME NEW t \in Threads, NEW how \in Ended, End(t, how)
      PROVE  status'[j] # "none" /\ submit'[j] = "none"
  BY <1>1, <1>3 DEF End
<1>4. ASSUME NEW t \in Threads, RunJob(t) PROVE status'[j] # "none" /\ submit'[j] = "none"
  <2>1. CASE \E how \in Ended : End(t, how)
    BY <1>3, <2>1
  <2>2. CASE Take(t) \/ Start(t) \/ CommitRows(t)
    <3>1. CASE Start(t)
      <4>1. CASE status' = [status EXCEPT ![thread[t].job] = "running"] /\ submit' = submit
        BY <1>1, <4>1
      <4> QED
        BY <2>1, <3>1, <4>1 DEF Start, Ended
    <3>2. CASE Take(t) \/ CommitRows(t)
      BY <3>2 DEF Take, CommitRows, jobTable
    <3> QED
      BY <2>2, <3>1, <3>2
  <2>3. CASE Tick(t) \/ ImportFails(t) \/ Finish(t)
    BY <2>1, <2>3 DEF Tick, ImportFails, Finish, Ended
  <2> QED
    BY <1>4, <2>2, <2>3 DEF RunJob
<1>5. CASE CommitCancel \/ Stop \/ Kill \/ Restart \/ RecoveryFails
  BY <1>1, <1>5 DEF CommitCancel, Stop, Kill, Restart, RecoveryFails, NewProcess, jobTable
<1>7. ASSUME NEW t \in Threads, WriteFails(t) PROVE status'[j] # "none" /\ submit'[j] = "none"
  BY <1>7 DEF WriteFails
<1>6. CASE UNCHANGED vars
  BY <1>6 DEF vars, jobTable, memory
<1> QED
  BY <1>2, <1>4, <1>5, <1>6, <1>7 DEF Next

(* Only a thread imports rows, and what it imports is in no other place.   *)
LEMMA PastStep == ASSUME IInv, IInv', ImportedIsPast, [Next]_vars PROVE ImportedIsPast'
<1> USE DEF TypeOK, Busy
<1>0. TypeOK
  BY DEF IInv
<1>1. CASE imported' = imported
  <2> SUFFICES ASSUME NEW j \in imported
               PROVE  /\ submit'[j] = "none" /\ status'[j] # "none" /\ ~Waiting(j)'
                      /\ \A t \in Threads : Busy(t)' /\ thread'[t].job = j => thread'[t].at = "finish"
    BY <1>1 DEF ImportedIsPast
  <2>1. /\ j \in Jobs /\ submit[j] = "none" /\ status[j] # "none" /\ ~Waiting(j)
        /\ \A t \in Threads : Busy(t) /\ thread[t].job = j => thread[t].at = "finish"
    BY <1>0 DEF ImportedIsPast
  <2>2. submit'[j] = "none" /\ status'[j] # "none"
    BY <2>1, <1>0, SubmittedOnce
  <2>3. ~Waiting(j)'
    <3>1. ASSUME NEW k \in Jobs, Enqueue(k) PROVE ~Waiting(j)'
      <4>1. /\ DOMAIN queue' = 1..(Len(queue) + 1) /\ DOMAIN queue = 1..Len(queue)
            /\ Len(queue) \in Nat
            /\ \A i \in 1..Len(queue) : queue'[i] = queue[i]
            /\ queue'[Len(queue) + 1] = k /\ k # j
        BY <3>1, <2>1, <1>0 DEF Enqueue
      <4> QED
        BY <4>1, <2>1 DEF Waiting
    <3>2. ASSUME NEW t \in Threads, Take(t) PROVE ~Waiting(j)'
      <4>1. \A i \in DOMAIN queue' : i + 1 \in DOMAIN queue /\ queue'[i] = queue[i + 1]
        BY <3>2, <1>0 DEF Take
      <4> QED
        BY <4>1, <2>1 DEF Waiting
    <3>3. queue' = <<>> => ~Waiting(j)'
      BY DEF Waiting
    <3>4. queue' = queue => ~Waiting(j)'
      BY <2>1 DEF Waiting
    <3> QED
      BY <3>1, <3>2, <3>3, <3>4 DEF Next, vars, jobTable, memory, Insert, Persist,
         RequestFails, WriteFails, ReadForCancel, RunJob, Start, Tick, ImportFails, CommitRows,
         Finish, End, CommitCancel, Stop, Kill, Restart, RecoveryFails, NewProcess
  <2>4. ASSUME NEW t \in Threads, Busy(t)', thread'[t].job = j PROVE thread'[t].at = "finish"
    <3>1. ASSUME NEW u \in Threads, Take(u) PROVE thread'[t].at = "finish"
      <4>1. queue # <<>> /\ Head(queue) = queue[1] /\ 1 \in DOMAIN queue
        BY <3>1, <1>0 DEF Take
      <4>2. Head(queue) # j
        BY <4>1, <2>1 DEF Waiting
      <4> QED
        BY <3>1, <4>2, <2>1, <2>4, <1>0 DEF Take
    <3>2. ASSUME NEW u \in Threads, Start(u) PROVE thread'[t].at = "finish"
      <4>1. CASE thread[u].flag
        BY <4>1, <3>2, <2>1, <2>4, <1>0 DEF Start, End, Idle
      <4>2. CASE ~thread[u].flag
        BY <4>2, <3>2, <2>1, <2>4, <1>0 DEF Start
      <4> QED
        BY <4>1, <4>2
    <3>3. ASSUME NEW u \in Threads, Tick(u) \/ ImportFails(u) \/ Finish(u)
          PROVE  thread'[t].at = "finish"
      BY <3>3, <2>1, <2>4, <1>0 DEF Tick, ImportFails, Finish, End, Idle
    <3>4. ASSUME NEW u \in Threads, CommitRows(u) PROVE thread'[t].at = "finish"
      BY <3>4, <2>1, <2>4, <1>0 DEF CommitRows
    <3>5. CASE thread' = thread
      BY <3>5, <2>1, <2>4
    <3>6. CASE Kill
      BY <3>6, <2>4 DEF Kill, Idle
    <3>7. ASSUME NEW u \in Threads, WriteFails(u) PROVE thread'[t].at = "finish"
      BY <3>7, <2>1, <2>4, <1>0 DEF WriteFails, Idle
    <3> QED
      BY <3>1, <3>2, <3>3, <3>4, <3>5, <3>6, <3>7 DEF Next, vars, jobTable, memory, Insert,
         Persist, Enqueue, RequestFails, ReadForCancel, RunJob, CommitCancel, Stop, Restart,
         RecoveryFails, NewProcess
  <2> QED
    BY <2>2, <2>3, <2>4
<1>2. ASSUME NEW t \in Threads, CommitRows(t) PROVE ImportedIsPast'
  <2> DEFINE k == thread[t].job
  <2>1. /\ UNCHANGED <<status, submit, queue>> /\ imported' = imported \cup {k}
        /\ thread' = [thread EXCEPT ![t].at = "finish"] /\ thread[t].at = "import"
    BY <1>2 DEF CommitRows
  <2>2. k \in Jobs /\ submit[k] = "none" /\ status[k] # "none" /\ ~Waiting(k)
        /\ \A u \in Threads \ {t} : Busy(u) => thread[u].job # k
    BY <2>1 DEF IInv, ThreadOnce, NewIsNowhere, QueueOnce, Waiting
  <2>3. \A j : Waiting(j)' <=> Waiting(j)
    BY <2>1 DEF Waiting
  <2>4. \A u \in Threads \ {t} : thread'[u] = thread[u]
    BY <2>1, <1>0
  <2>5. thread'[t].at = "finish" /\ thread'[t].job = k
    BY <2>1, <1>0
  <2> QED
    BY <2>1, <2>2, <2>3, <2>4, <2>5, <1>0 DEF ImportedIsPast
<1> QED
  BY <1>1, <1>2 DEF Next, vars, jobTable, memory, Insert, Persist, Enqueue, ReadForCancel,
     RunJob, Take, Start, Tick, ImportFails, Finish, End, RequestFails, WriteFails,
     CommitCancel, Stop, Kill, Restart, RecoveryFails, NewProcess

(* A job whose rows will never be imported: it is flagged, and a thread    *)
(* that has it has read the flag.                                          *)
Doomed(j) ==
    /\ flagged[j] /\ j \notin imported /\ submit[j] = "none" /\ status[j] # "none"
    /\ \A t \in Threads : Busy(t) /\ thread[t].job = j => thread[t].at = "start" /\ thread[t].flag

(* Nothing saves a doomed job. *)
LEMMA DoomedStays == ASSUME TypeOK, NEW j \in Jobs, Doomed(j), [Next]_vars PROVE Doomed(j)'
<1> USE DEF TypeOK, Busy
<1>0. /\ flagged[j] /\ j \notin imported /\ submit[j] = "none" /\ status[j] # "none"
      /\ \A t \in Threads : Busy(t) /\ thread[t].job = j => thread[t].at = "start" /\ thread[t].flag
  BY DEF Doomed
<1>1. submit'[j] = "none" /\ status'[j] # "none" /\ flagged'[j] /\ j \notin imported'
  <2>1. submit'[j] = "none" /\ status'[j] # "none"
    BY <1>0, SubmittedOnce
  <2>2. ASSUME NEW t \in Threads, CommitRows(t) PROVE flagged'[j] /\ j \notin imported'
    BY <1>0, <2>2 DEF CommitRows
  <2>3. CASE CommitCancel
    BY <1>0, <2>1, <2>3 DEF CommitCancel
  <2>4. CASE flagged' = flagged /\ imported' = imported
    BY <1>0, <2>1, <2>4
  <2>5. ASSUME NEW t \in Threads, RunJob(t) PROVE flagged'[j] /\ j \notin imported'
    <3> HIDE DEF TypeOK, Busy
    <3>1. CASE Take(t) \/ Start(t)
      <4>1. flagged' = flagged /\ imported' = imported
        BY <3>1 DEF Take, Start, End, jobTable
      <4> QED
        BY <2>4, <4>1
    <3>2. CASE Tick(t) \/ ImportFails(t) \/ Finish(t)
      BY <2>4, <3>2 DEF Tick, ImportFails, Finish, End
    <3> QED
      BY <2>2, <2>5, <3>1, <3>2 DEF RunJob
  <2>6. ASSUME NEW k \in Jobs, Insert(k) \/ Persist(k) \/ Enqueue(k) \/ ReadForCancel(k) \/ RequestFails(k)
        PROVE  flagged'[j] /\ j \notin imported'
    BY <2>4, <2>6 DEF Insert, Persist, Enqueue, ReadForCancel, RequestFails, jobTable
  <2>7. CASE Stop \/ Kill \/ Restart \/ RecoveryFails \/ UNCHANGED vars
    BY <2>4, <2>7 DEF Stop, Kill, Restart, RecoveryFails, NewProcess, vars, jobTable
  <2>8. ASSUME NEW t \in Threads, WriteFails(t) PROVE flagged'[j] /\ j \notin imported'
    BY <2>4, <2>8 DEF WriteFails
  <2> QED
    BY <2>1, <2>3, <2>5, <2>6, <2>7, <2>8 DEF Next
<1>2. ASSUME NEW t \in Threads, Busy(t)', thread'[t].job = j
      PROVE  thread'[t].at = "start" /\ thread'[t].flag
  <2>1. ASSUME NEW u \in Threads, Take(u) PROVE thread'[t].at = "start" /\ thread'[t].flag
    BY <2>1, <1>0, <1>2 DEF Take
  <2>2. ASSUME NEW u \in Threads, Start(u) PROVE thread'[t].at = "start" /\ thread'[t].flag
    <3>1. CASE thread[u].flag
      BY <3>1, <2>2, <1>0, <1>2 DEF Start, End, Idle
    <3>2. CASE ~thread[u].flag
      BY <3>2, <2>2, <1>0, <1>2 DEF Start
    <3> QED
      BY <3>1, <3>2
  <2>3. ASSUME NEW u \in Threads, Tick(u) \/ ImportFails(u) \/ Finish(u)
        PROVE  thread'[t].at = "start" /\ thread'[t].flag
    BY <2>3, <1>0, <1>2 DEF Tick, ImportFails, Finish, End, Idle
  <2>4. ASSUME NEW u \in Threads, CommitRows(u) PROVE thread'[t].at = "start" /\ thread'[t].flag
    BY <2>4, <1>0, <1>2 DEF CommitRows
  <2>5. CASE thread' = thread
    BY <2>5, <1>0, <1>2
  <2>6. CASE Kill
    BY <2>6, <1>2 DEF Kill, Idle
  <2>7. ASSUME NEW u \in Threads, WriteFails(u) PROVE thread'[t].at = "start" /\ thread'[t].flag
    BY <2>7, <1>0, <1>2 DEF WriteFails, Idle
  <2> QED
    BY <2>1, <2>2, <2>3, <2>4, <2>5, <2>6, <2>7 DEF Next, vars, jobTable, memory, Insert, Persist,
       Enqueue, RequestFails, ReadForCancel, RunJob, CommitCancel, Stop, Restart, RecoveryFails,
       NewProcess
<1> QED
  BY <1>1, <1>2 DEF Doomed

(* A cancelled job that still waits in the queue is never imported. *)
THEOREM CancelledIsFinal == Spec => CancelledWaitingNeverRuns
<1> SUFFICES ASSUME NEW j \in Jobs
             PROVE  Spec => [](flagged[j] /\ Waiting(j) => [](j \notin imported))
  BY DEF CancelledWaitingNeverRuns
<1>1. Init => ImportedIsPast
  BY DEF Init, ImportedIsPast
<1>2. IInv /\ IInv' /\ ImportedIsPast /\ [Next]_vars => ImportedIsPast'
  BY PastStep
<1>3. IInv /\ ImportedIsPast /\ flagged[j] /\ Waiting(j) => Doomed(j)
  BY DEF IInv, QueueOnce, NewIsNowhere, Doomed, ImportedIsPast, Waiting, Busy
<1>4. TypeOK /\ Doomed(j) /\ [Next]_vars => Doomed(j)'
  BY DoomedStays
<1>5. Doomed(j) => j \notin imported
  BY DEF Doomed
<1>6. IInv => TypeOK
  BY DEF IInv
<1> QED
  BY <1>1, <1>2, <1>3, <1>4, <1>5, <1>6, InvariantHolds, PTL DEF Spec

-----------------------------------------------------------------------------
(* Nothing is forgotten *)

(* A job that its request has not handed over yet, that waits, or that a   *)
(* thread works on                                                         *)
InHands(j) ==
    \/ submit[j] \in {"inserted", "persisted"} \/ Waiting(j)
    \/ \E t \in Threads : Busy(t) /\ thread[t].job = j

Open(j) == status[j] \in {"pending", "running"}

LostAreKnown == up => \A j \in Jobs : Open(j) => InHands(j) \/ j \in lost

(* A job that waits goes on waiting when another one joins the queue, and  *)
(* until it is its turn.                                                   *)
LEMMA WaitsOn ==
  ASSUME TypeOK, NEW j \in Jobs, Waiting(j)
  PROVE  /\ \A k \in Jobs : queue' = Append(queue, k) => Waiting(j)'
         /\ queue # <<>> /\ queue' = Tail(queue) => Waiting(j)' \/ Head(queue) = j
<1>1. queue \in Seq(Jobs)
  BY DEF TypeOK
<1>2. PICK i \in 1..Len(queue) : queue[i] = j
  BY <1>1 DEF Waiting
<1>3. ASSUME NEW k \in Jobs, queue' = Append(queue, k) PROVE Waiting(j)'
  <2>1. i \in DOMAIN queue' /\ queue'[i] = j
    BY <1>1, <1>2, <1>3
  <2> QED
    BY <2>1 DEF Waiting
<1>4. ASSUME queue # <<>>, queue' = Tail(queue), i # 1 PROVE Waiting(j)'
  <2>1. i - 1 \in DOMAIN queue' /\ queue'[i - 1] = j
    BY <1>1, <1>2, <1>4
  <2> QED
    BY <2>1 DEF Waiting
<1>5. queue # <<>> /\ i = 1 => Head(queue) = j
  BY <1>1, <1>2
<1> QED
  BY <1>3, <1>4, <1>5

(* A job that joins the queue waits. *)
LEMMA AppendWaits ==
  ASSUME TypeOK, NEW k \in Jobs, queue' = Append(queue, k)
  PROVE  Waiting(k)'
<1>1. queue \in Seq(Jobs)
  BY DEF TypeOK
<1>2. Len(queue) + 1 \in DOMAIN queue' /\ queue'[Len(queue) + 1] = k
  BY <1>1
<1> QED
  BY <1>2 DEF Waiting

LEMMA LostStep == ASSUME TypeOK, LostAreKnown, [Next]_vars PROVE LostAreKnown'
<1> SUFFICES ASSUME up', NEW j \in Jobs, Open(j)', j \notin lost' PROVE InHands(j)'
  BY DEF LostAreKnown
<1>0. /\ status \in [Jobs -> {"none", "pending", "running"} \cup Ended]
      /\ submit \in [Jobs -> {"none", "inserted", "persisted", "stray"}]
      /\ thread \in [Threads -> [at : {"idle", "start", "import", "finish"},
                                 job : Jobs \cup {None}, flag : BOOLEAN]]
      /\ Ended \cap {"none", "pending", "running"} = {}
  BY DEF TypeOK, Ended
<1>1. up /\ Open(j) /\ j \notin lost => InHands(j)
  BY DEF LostAreKnown
<1>2. ASSUME UNCHANGED <<submit, queue, thread, lost>>, up, Open(j) PROVE InHands(j)'
  BY <1>1, <1>2 DEF InHands, Waiting, Busy
<1>3. ASSUME NEW k \in Jobs, Insert(k) \/ Persist(k) PROVE InHands(j)'
  <2>1. CASE k = j
    <3>1. submit'[j] \in {"inserted", "persisted"} \/ status'[j] = "failed"
      BY <1>0, <1>3, <2>1 DEF Insert, Persist
    <3> QED
      BY <3>1 DEF InHands, Open
  <2>2. CASE k # j
    <3>1. /\ up /\ UNCHANGED <<queue, thread, lost>> /\ status'[j] = status[j]
          /\ submit'[j] = submit[j]
      BY <1>0, <1>3, <2>2 DEF Insert, Persist
    <3> QED
      BY <1>1, <3>1 DEF Open, InHands, Waiting, Busy
  <2> QED
    BY <2>1, <2>2
<1>4. ASSUME NEW k \in Jobs, Enqueue(k) PROVE InHands(j)'
  <2>1. /\ up /\ UNCHANGED <<status, thread, lost>> /\ queue' = Append(queue, k)
        /\ k # j => submit'[j] = submit[j]
    BY <1>0, <1>4 DEF Enqueue, jobTable
  <2>2. InHands(j)
    BY <1>1, <2>1 DEF Open
  <2>3. Waiting(j) => Waiting(j)'
    BY <2>1, WaitsOn
  <2>4. k = j => Waiting(j)'
    BY <2>1, AppendWaits
  <2> QED
    BY <2>1, <2>2, <2>3, <2>4 DEF InHands, Busy
<1>5. ASSUME NEW t \in Threads, Take(t) PROVE InHands(j)'
  <2>1. /\ up /\ UNCHANGED <<status, submit, lost>> /\ queue # <<>> /\ queue' = Tail(queue)
        /\ ~Busy(t) /\ Busy(t)' /\ thread'[t].job = Head(queue)
        /\ \A u \in Threads \ {t} : thread'[u] = thread[u]
    BY <1>0, <1>5 DEF Take, jobTable, Busy, Idle
  <2>2. InHands(j)
    BY <1>1, <2>1 DEF Open
  <2>3. Waiting(j) => Waiting(j)' \/ Head(queue) = j
    BY <2>1, WaitsOn
  <2> QED
    BY <2>1, <2>2, <2>3 DEF InHands, Busy
<1>6. ASSUME NEW t \in Threads, NEW how \in Ended, End(t, how) PROVE InHands(j)'
  <2>1. /\ status' = [status EXCEPT ![thread[t].job] = how] /\ UNCHANGED <<submit, queue, up, lost>>
        /\ \A u \in Threads \ {t} : thread'[u] = thread[u]
    BY <1>0, <1>6 DEF End
  <2>2. thread[t].job # j /\ status'[j] = status[j]
    BY <1>0, <2>1 DEF Open
  <2>3. InHands(j)
    BY <1>1, <2>1, <2>2 DEF Open
  <2> QED
    BY <2>1, <2>2, <2>3 DEF InHands, Waiting, Busy
<1>7. ASSUME NEW t \in Threads, Start(t) \/ CommitRows(t), ~ \E how \in Ended : End(t, how)
      PROVE  InHands(j)'
  <2>1. /\ UNCHANGED <<submit, queue, up, lost>> /\ Busy(t) /\ Busy(t)'
        /\ \A u \in Threads : thread'[u].job = thread[u].job
        /\ \A u \in Threads \ {t} : thread'[u] = thread[u]
        /\ thread[t].job # j => status'[j] = status[j]
    <3>1. CASE Start(t)
      <4>1. /\ thread[t].at = "start" /\ UNCHANGED <<submit, queue, up, lost>>
            /\ status' = [status EXCEPT ![thread[t].job] = "running"]
            /\ thread' = [thread EXCEPT ![t].at = "import"]
        BY <1>7, <3>1 DEF Start, Ended
      <4> QED
        BY <1>0, <4>1 DEF Busy
    <3>2. CASE CommitRows(t)
      <4>1. /\ thread[t].at = "import" /\ UNCHANGED <<submit, queue, up, status, lost>>
            /\ thread' = [thread EXCEPT ![t].at = "finish"]
        BY <3>2 DEF CommitRows
      <4> QED
        BY <1>0, <4>1 DEF Busy
    <3> QED
      BY <1>7, <3>1, <3>2
  <2>2. CASE thread[t].job = j
    BY <2>1, <2>2 DEF InHands
  <2>3. CASE thread[t].job # j
    <3>1. InHands(j)
      BY <1>1, <2>1, <2>3 DEF Open
    <3> QED
      BY <2>1, <2>3, <3>1 DEF InHands, Waiting, Busy
  <2> QED
    BY <2>2, <2>3
<1>8. ASSUME NEW t \in Threads, RunJob(t) PROVE InHands(j)'
  <2>1. CASE \E how \in Ended : End(t, how)
    BY <1>6, <2>1
  <2>2. CASE Tick(t) \/ ImportFails(t) \/ Finish(t)
    BY <2>1, <2>2 DEF Tick, ImportFails, Finish, Ended
  <2> QED
    BY <1>5, <1>7, <1>8, <2>1, <2>2 DEF RunJob
<1>9. CASE CommitCancel
  <2>1. UNCHANGED <<submit, queue, thread, up, lost>>
    BY <1>9 DEF CommitCancel
  <2>2. status'[j] \in {status[j], "cancelled"}
    BY <1>0, <1>9 DEF CommitCancel
  <2> QED
    BY <1>2, <2>1, <2>2 DEF Open
<1>10. CASE Restart \/ RecoveryFails
  <2>1. CASE Restart
    <3>1. status'[j] \notin {"pending", "running"}
      BY <1>0, <2>1 DEF Restart, Unfinished
    <3> QED
      BY <3>1 DEF Open
  <2>2. CASE RecoveryFails
    BY <2>2 DEF RecoveryFails, Unfinished, Open
  <2> QED
    BY <1>10, <2>1, <2>2
<1>13. ASSUME NEW k \in Jobs, RequestFails(k) PROVE InHands(j)'
  <2>1. /\ up /\ UNCHANGED <<queue, thread, status>> /\ k # j /\ j \notin lost
        /\ submit'[j] = submit[j]
    BY <1>0, <1>13 DEF RequestFails
  <2> QED
    BY <1>1, <2>1 DEF Open, InHands, Waiting, Busy
<1>14. ASSUME NEW t \in Threads, WriteFails(t) PROVE InHands(j)'
  <2>1. /\ UNCHANGED <<queue, submit, status, up>> /\ thread[t].job # j /\ j \notin lost
        /\ \A u \in Threads \ {t} : thread'[u] = thread[u]
    BY <1>0, <1>14 DEF WriteFails
  <2>2. InHands(j)
    BY <1>1, <2>1 DEF Open
  <2> QED
    BY <2>1, <2>2 DEF InHands, Waiting, Busy
<1>11. CASE Stop \/ Kill
  BY <1>11 DEF Stop, Kill
<1>12. CASE UNCHANGED vars \/ \E k \in Jobs : ReadForCancel(k)
  <2>1. UNCHANGED <<submit, queue, thread, up, status, lost>>
    BY <1>12 DEF vars, jobTable, memory, ReadForCancel
  <2> QED
    BY <1>2, <2>1 DEF Open
<1> QED
  BY <1>3, <1>4, <1>8, <1>9, <1>10, <1>11, <1>12, <1>13, <1>14 DEF Next

(* While the service runs, every job that is shown as pending or running   *)
(* is with its request, in the queue or with a thread, or an error that    *)
(* could not be recorded has dropped it: nothing else that the code does,  *)
(* no cancellation, failed import or restart, leaves a job behind.         *)
THEOREM OpenJobsAreInHandsOrLost == Spec => []LostAreKnown
<1>1. Init => LostAreKnown
  BY DEF Init, LostAreKnown, Open
<1>2. TypeOK /\ LostAreKnown /\ [Next]_vars => LostAreKnown'
  BY LostStep
<1> QED
  BY <1>1, <1>2, TypeCorrect, PTL DEF Spec

=============================================================================
