---------------------------- MODULE ImportJobs -----------------------------
(***************************************************************************)
(* Imports of workbooks in the background: import_job_service.  A request  *)
(* inserts the job, puts the file on disk and hands the job to a pool of   *)
(* threads; a thread imports the rows in a transaction of its own and      *)
(* reports in others.  Users cancel jobs at any time.  The pool lives in   *)
(* memory: a stop drops what waits in it, a restart fails what the tables  *)
(* still show as unfinished.                                               *)
(***************************************************************************)
EXTENDS Integers, Sequences

CONSTANTS
    Jobs,
    Threads,        \* IMPORTER_WORKERS
    MaxStops,       \* bound: stops of the process
    None

ASSUME JobAssumption == None \notin Jobs /\ MaxStops \in Nat

VARIABLES
    status,         \* import_jobs.status
    flagged,        \* import_jobs.cancel_requested
    disk,           \* jobs whose file is on disk
    imported,       \* jobs whose rows are in the business tables
    lost,           \* jobs dropped by an error that this process could not record
    submit,         \* the request that hands a job in
    queue,          \* the executor's queue
    thread,
    cancel,         \* a cancellation under way: the job and the status it read
    up, stops

jobTable == <<status, flagged, disk, imported, lost>>
memory   == <<submit, queue, thread, cancel>>
vars     == <<jobTable, memory, up, stops>>

Ended == {"done", "failed", "cancelled"}

Idle == [at |-> "idle", job |-> None, flag |-> FALSE]

NoCancel == [job |-> None, seen |-> "none"]

Init ==
    /\ status = [j \in Jobs |-> "none"]
    /\ flagged = [j \in Jobs |-> FALSE]
    /\ disk = {} /\ imported = {} /\ lost = {}
    /\ submit = [j \in Jobs |-> "none"]
    /\ queue = <<>>
    /\ thread = [t \in Threads |-> Idle]
    /\ cancel = NoCancel
    /\ up = TRUE /\ stops = 0

-----------------------------------------------------------------------------
(* submit_import *)

Insert(j) ==
    /\ up /\ status[j] = "none"
    /\ status' = [status EXCEPT ![j] = "pending"]
    /\ submit' = [submit EXCEPT ![j] = "inserted"]
    /\ UNCHANGED <<flagged, disk, imported, lost, queue, thread, cancel, up, stops>>

Persist(j) ==
    /\ up /\ submit[j] = "inserted"
    /\ \/ /\ disk' = disk \cup {j}
          /\ submit' = [submit EXCEPT ![j] = "persisted"]
          /\ UNCHANGED status
       \/ /\ status' = [status EXCEPT ![j] = "failed"]
          /\ submit' = [submit EXCEPT ![j] = "none"]
          /\ UNCHANGED disk
    /\ UNCHANGED <<flagged, imported, lost, queue, thread, cancel, up, stops>>

Enqueue(j) ==
    /\ up /\ submit[j] = "persisted"
    /\ submit' = [submit EXCEPT ![j] = "none"]
    /\ queue' = Append(queue, j)
    /\ UNCHANGED <<jobTable, thread, cancel, up, stops>>

(* An error of the request behind its first commit is recorded nowhere: the *)
(* job stays pending.  The file may be on disk with its path in no row.    *)
RequestFails(j) ==
    /\ up /\ submit[j] \in {"inserted", "persisted"}
    /\ submit' \in {[submit EXCEPT ![j] = to] :
                     to \in IF submit[j] = "persisted" THEN {"none", "stray"} ELSE {"none"}}
    /\ lost' = lost \cup {j}
    /\ UNCHANGED <<status, flagged, disk, imported, queue, thread, cancel, up, stops>>

-----------------------------------------------------------------------------
(* _run_job *)

(* A free thread takes the next job and reads its row. *)
Take(t) ==
    /\ up /\ thread[t] = Idle /\ queue # <<>>
    /\ thread' = [thread EXCEPT ![t] =
                    [at |-> "start", job |-> Head(queue), flag |-> flagged[Head(queue)]]]
    /\ queue' = Tail(queue)
    /\ UNCHANGED <<jobTable, submit, cancel, up, stops>>

End(t, how) ==
    /\ status' = [status EXCEPT ![thread[t].job] = how]
    /\ disk' = disk \ {thread[t].job}
    /\ thread' = [thread EXCEPT ![t] = Idle]
    /\ UNCHANGED <<flagged, imported, lost, submit, queue, cancel, up, stops>>

(* Mutant: a flag that was set while the job waited is left to the ticks. *)
StartMutant(t) ==
    /\ thread[t].at = "start"
    /\ status' = [status EXCEPT ![thread[t].job] = "running"]
    /\ thread' = [thread EXCEPT ![t].at = "import"]
    /\ UNCHANGED <<flagged, disk, imported, lost, submit, queue, cancel, up, stops>>

Start(t) ==
    /\ thread[t].at = "start"
    /\ \/ thread[t].flag /\ End(t, "cancelled")
       \/ /\ ~thread[t].flag
          /\ status' = [status EXCEPT ![thread[t].job] = "running"]
          /\ thread' = [thread EXCEPT ![t].at = "import"]
          /\ UNCHANGED <<flagged, disk, imported, lost, submit, queue, cancel, up, stops>>

(* Every so many rows the import looks whether it was cancelled. *)
Tick(t) == thread[t].at = "import" /\ flagged[thread[t].job] /\ End(t, "cancelled")

ImportFails(t) == thread[t].at = "import" /\ End(t, "failed")

(* Mutant: an error of the commit is logged and passed over. *)
CommitRowsMutant(t) ==
    /\ thread[t].at = "import"
    /\ imported' = imported \cup {thread[t].job} \/ UNCHANGED imported
    /\ thread' = [thread EXCEPT ![t].at = "finish"]
    /\ UNCHANGED <<status, flagged, disk, lost, submit, queue, cancel, up, stops>>

CommitRows(t) ==
    /\ thread[t].at = "import"
    /\ imported' = imported \cup {thread[t].job}
    /\ thread' = [thread EXCEPT ![t].at = "finish"]
    /\ UNCHANGED <<status, flagged, disk, lost, submit, queue, cancel, up, stops>>

Finish(t) == thread[t].at = "finish" /\ End(t, "done")

(* The status cannot be written, here or in the handler of another error,  *)
(* which has rolled the rows back: _run_job_safe logs it, the thread is    *)
(* free, the job is left as it is.                                         *)
WriteFails(t) ==
    /\ thread[t].at # "idle"
    /\ lost' = lost \cup {thread[t].job}
    /\ thread' = [thread EXCEPT ![t] = Idle]
    /\ UNCHANGED <<status, flagged, disk, imported, submit, queue, cancel, up, stops>>

-----------------------------------------------------------------------------
(* request_cancel *)

(* Mutant: jobs that have ended are cancelled too. *)
ReadForCancelMutant(j) ==
    /\ up /\ cancel = NoCancel
    /\ status[j] # "none"
    /\ cancel' = [job |-> j, seen |-> status[j]]
    /\ UNCHANGED <<jobTable, submit, queue, thread, up, stops>>

ReadForCancel(j) ==
    /\ up /\ cancel = NoCancel
    /\ status[j] \in {"pending", "running"}
    /\ cancel' = [job |-> j, seen |-> status[j]]
    /\ UNCHANGED <<jobTable, submit, queue, thread, up, stops>>

(* Mutant: a job that has not started needs its file no more. *)
CommitCancelMutant ==
    /\ cancel # NoCancel
    /\ flagged' = [flagged EXCEPT ![cancel.job] = TRUE]
    /\ IF cancel.seen = "pending"
       THEN status' = [status EXCEPT ![cancel.job] = "cancelled"] /\ disk' = disk \ {cancel.job}
       ELSE UNCHANGED <<status, disk>>
    /\ cancel' = NoCancel
    /\ UNCHANGED <<imported, lost, submit, queue, thread, up, stops>>

(* What it read may have changed: the thread has started or ended the job. *)
CommitCancel ==
    /\ cancel # NoCancel
    /\ flagged' = [flagged EXCEPT ![cancel.job] = TRUE]
    /\ status' = IF cancel.seen = "pending" THEN [status EXCEPT ![cancel.job] = "cancelled"]
                 ELSE status
    /\ cancel' = NoCancel
    /\ UNCHANGED <<disk, imported, lost, submit, queue, thread, up, stops>>

-----------------------------------------------------------------------------
(* The process *)

(* shutdown_executor: waiting jobs are dropped, running ones go on. *)
Stop ==
    /\ up /\ stops < MaxStops
    /\ up' = FALSE /\ stops' = stops + 1
    /\ queue' = <<>>
    /\ UNCHANGED <<jobTable, submit, thread, cancel>>

Kill ==
    /\ ~up /\ thread # [t \in Threads |-> Idle]
    /\ thread' = [t \in Threads |-> Idle]
    /\ UNCHANGED <<jobTable, submit, queue, cancel, up, stops>>

(* A process that knows nothing of the old one. *)
NewProcess ==
    /\ ~up /\ thread = [t \in Threads |-> Idle]
    /\ submit' = [j \in Jobs |-> "none"]
    /\ queue' = <<>> /\ cancel' = NoCancel
    /\ up' = TRUE
    /\ UNCHANGED <<flagged, imported, thread, stops>>

Unfinished == {j \in Jobs : status[j] \in {"pending", "running"}}

(* A file whose path is in no row is not found. *)
Cleaned == disk \ {j \in Unfinished : submit[j] \notin {"persisted", "stray"}}

(* Mutant: only jobs that had started are looked for. *)
RestartMutant ==
    /\ NewProcess
    /\ status' = [j \in Jobs |-> IF status[j] = "running" THEN "failed" ELSE status[j]]
    /\ disk' = Cleaned /\ lost' = {}

(* recover_orphaned_jobs *)
Restart ==
    /\ NewProcess
    /\ status' = [j \in Jobs |-> IF j \in Unfinished THEN "failed" ELSE status[j]]
    /\ disk' = Cleaned /\ lost' = {}

(* Its error is logged; the files may be gone already. *)
RecoveryFails ==
    /\ NewProcess
    /\ disk' \in {disk, Cleaned} /\ lost' = Unfinished
    /\ UNCHANGED status

RunJob(t) == Take(t) \/ Start(t) \/ Tick(t) \/ ImportFails(t) \/ CommitRows(t) \/ Finish(t)

Next ==
    \/ \E j \in Jobs : Insert(j) \/ Persist(j) \/ Enqueue(j) \/ RequestFails(j) \/ ReadForCancel(j)
    \/ \E t \in Threads : RunJob(t) \/ WriteFails(t)
    \/ CommitCancel \/ Stop \/ Kill \/ Restart \/ RecoveryFails

Spec == Init /\ [][Next]_vars

(* A request goes on, a thread that has work does it, and a process that   *)
(* was stopped is started again.                                           *)
FairSpec ==
    /\ Spec
    /\ \A j \in Jobs : WF_vars(Persist(j) \/ Enqueue(j))
    /\ \A t \in Threads : WF_vars(RunJob(t))
    /\ WF_vars(Kill \/ Restart \/ RecoveryFails)

-----------------------------------------------------------------------------
(* Properties *)

TypeOK ==
    /\ status \in [Jobs -> {"none", "pending", "running"} \cup Ended]
    /\ flagged \in [Jobs -> BOOLEAN]
    /\ disk \subseteq Jobs /\ imported \subseteq Jobs /\ lost \subseteq Jobs
    /\ submit \in [Jobs -> {"none", "inserted", "persisted", "stray"}]
    /\ queue \in Seq(Jobs)
    /\ thread \in [Threads -> [at : {"idle", "start", "import", "finish"},
                               job : Jobs \cup {None}, flag : BOOLEAN]]
    /\ cancel \in [job : Jobs \cup {None}, seen : {"none", "pending", "running"}]
    /\ up \in BOOLEAN /\ stops \in 0..MaxStops

Waiting(j) == \E i \in DOMAIN queue : queue[i] = j

(* A report of success is true, whatever was cancelled or restarted. *)
DoneIsImported == \A j \in Jobs : status[j] = "done" => j \in imported

(* Nobody takes away the file of a job that a thread works on: not a       *)
(* cancellation that read the job before it started, not a restart.        *)
RunningHasItsFile ==
    \A t \in Threads : thread[t].at \in {"start", "import"} => thread[t].job \in disk

(* A cancellation that is answered while its job still waits is final: no  *)
(* row of the workbook is ever imported.                                   *)
CancelledWaitingNeverRuns ==
    \A j \in Jobs : [](flagged[j] /\ Waiting(j) => [](j \notin imported))

(* A job that is shown as pending or running ends, over every stop, kill   *)
(* and restart; the only exception is an error that could not be recorded, *)
(* whose job waits for the next restart.                                   *)
JobsEnd ==
    \A j \in Jobs : status[j] \in {"pending", "running"} ~> status[j] \in Ended \/ j \in lost

=============================================================================
