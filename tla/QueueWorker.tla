---------------------------- MODULE QueueWorker ----------------------------
(***************************************************************************)
(* The processing queue of meetingctl: the queue file                      *)
(* (process_queue.jsonl), its lock file, the dead-letter file, and the     *)
(* three kinds of command that touch them.                                 *)
(*                                                                         *)
(*   - `process-queue` (queue_worker.process_queue_jobs): takes the lock   *)
(*     file, reads the whole queue, runs the handler on up to MaxJobs      *)
(*     lines, rewrites the queue with the lines it did not consume, then   *)
(*     appends the failures to the dead-letter file.                       *)
(*   - `stop`, `ingest-watch`, `backfill` (cli._queue_process_trigger):    *)
(*     append a line to the queue file, taking no lock.                    *)
(*   - `failed-jobs-requeue` (cli.main): copies dead-lettered payloads     *)
(*     back to the queue, then rewrites the dead-letter file, taking no    *)
(*     lock.                                                               *)
(*                                                                         *)
(***************************************************************************)
EXTENDS Naturals, Sequences, FiniteSets, Functions

CONSTANTS
  Jobs,         \* payloads
  Malformed,    \* lines that are no JSON object (edited by hand): no run
                \* succeeds on them, nor on the dead letter's {"raw_line": ...}
  Workers,      \* process-queue invocations
  Producers,    \* stop, ingest-watch and backfill invocations
  MaxJobs,      \* --max-jobs
  FailureMode,  \* MEETINGCTL_PROCESS_QUEUE_FAILURE_MODE
  RequeueArgs,  \* --meeting-id sets and --max-items values tried
  Faults        \* which faults may happen: "crash", "abort"

Requeue == "requeue"
Appenders == Producers \union {Requeue}

ASSUME ConstantsAssumption ==
  /\ Malformed \subseteq Jobs
  /\ Requeue \notin Producers
  /\ MaxJobs \in Nat \ {0}
  /\ FailureMode \in {"stop", "dead_letter"}
  /\ RequeueArgs \subseteq [wanted : SUBSET Jobs, max : Nat]
  /\ Faults \subseteq {"crash", "abort"}

VARIABLES
  queue,       \* lines of the queue file (<<>>: empty or absent)
  lockFile,    \* does the queue's .lock file exist?
  dead,        \* payloads of the dead-letter file
  handle,      \* an appender's open file: "closed", the "live" queue file,
               \* or an "orphan" that was replaced or unlinked meanwhile
  sending,     \* the job a producer is appending
  pc, raw, consumed, failed,             \* per worker: process_queue_jobs
  rqPc, rqArgs, rqItems, taken, kept,    \* failed-jobs-requeue
  accepted,    \* jobs whose producer returned successfully
  done,        \* jobs whose handler completed (the processed-jobs log)
  exposed      \* history: jobs written into, or held across, an unlocked window

workerVars == <<pc, raw, consumed, failed>>
requeueVars == <<rqPc, rqArgs, rqItems, taken, kept>>
history == <<accepted, done, exposed>>
vars == <<queue, lockFile, dead, handle, sending, workerVars, requeueVars, history>>

Init ==
  /\ queue = <<>> /\ lockFile = FALSE /\ dead = <<>>
  /\ handle = [a \in Appenders |-> "closed"]
  /\ sending = [p \in Producers |-> {}]
  /\ pc = [w \in Workers |-> "idle"]
  /\ raw = [w \in Workers |-> <<>>]
  /\ consumed = [w \in Workers |-> 0]
  /\ failed = [w \in Workers |-> <<>>]
  /\ rqPc = "idle" /\ rqArgs = [wanted |-> {}, max |-> 0]
  /\ rqItems = <<>> /\ taken = <<>> /\ kept = <<>>
  /\ accepted = {} /\ done = {} /\ exposed = {}

-----------------------------------------------------------------------------
(* Appending to the queue, by producers and by failed-jobs-requeue.        *)

(* Some worker has read the queue and not yet rewritten it. *)
WindowOpen == \E w \in Workers : pc[w] \in {"handling", "rewrite"}

(* Replacing or unlinking the queue file strands every open handle. *)
Strand == [a \in Appenders |-> IF handle[a] = "live" THEN "orphan" ELSE handle[a]]

(* Mutant: the list of payloads is written as a single line. *)
Flush_OneLine(a, jobs) ==
  /\ handle[a] # "closed"
  /\ queue' = IF handle[a] = "live" THEN Append(queue, jobs) ELSE queue
  /\ UNCHANGED exposed
  /\ handle' = [handle EXCEPT ![a] = "closed"]

(* Mutant: new lines go in front of the file. *)
Flush_Prepends(a, jobs) ==
  /\ handle[a] # "closed"
  /\ queue' = IF handle[a] = "live" THEN jobs \o queue ELSE queue
  /\ exposed' = IF handle[a] = "orphan" \/ WindowOpen
                THEN exposed \union Range(jobs) ELSE exposed
  /\ handle' = [handle EXCEPT ![a] = "closed"]

(* The write through an open handle, and the close. *)
Flush(a, jobs) ==
  /\ handle[a] # "closed"
  /\ queue' = IF handle[a] = "live" THEN queue \o jobs ELSE queue
  /\ exposed' = IF handle[a] = "orphan" \/ WindowOpen
                THEN exposed \union Range(jobs) ELSE exposed
  /\ handle' = [handle EXCEPT ![a] = "closed"]

OpenQueue(p, j) ==
  /\ handle[p] = "closed"
  /\ j \notin accepted /\ \A q \in Producers : j \notin sending[q]
  /\ sending' = [sending EXCEPT ![p] = {j}]
  /\ handle' = [handle EXCEPT ![p] = "live"]
  /\ UNCHANGED <<queue, lockFile, dead, workerVars, requeueVars, history>>

AppendJob(p, j) ==
  /\ j \in sending[p]
  /\ Flush(p, <<j>>)
  /\ sending' = [sending EXCEPT ![p] = {}]
  /\ accepted' = accepted \union {j}
  /\ UNCHANGED <<lockFile, dead, workerVars, requeueVars, done>>

-----------------------------------------------------------------------------
(* process-queue                                                           *)

(* Mutant: the lock file is opened without O_EXCL. *)
Acquire_NotExclusive(w) ==
  /\ pc[w] = "idle"
  /\ lockFile' = TRUE
  /\ pc' = [pc EXCEPT ![w] = "locked"]
  /\ UNCHANGED <<queue, dead, handle, sending, raw, consumed, failed,
                 requeueVars, history>>

(* O_CREAT | O_EXCL: a held lock ends the invocation with QueueLockError.  *)
Acquire(w) ==
  /\ pc[w] = "idle" /\ ~lockFile
  /\ lockFile' = TRUE
  /\ pc' = [pc EXCEPT ![w] = "locked"]
  /\ UNCHANGED <<queue, dead, handle, sending, raw, consumed, failed,
                 requeueVars, history>>

(* Where the loop over the lines goes after n of len lines are consumed. *)
LoopPc(n, len) == IF n < MaxJobs /\ n < len THEN "handling" ELSE "rewrite"

(* open("a") creates the file, so it may exist with no line in it. *)
QueueFileExists == queue # <<>> \/ \E a \in Appenders : handle[a] = "live"

(* The queue is read whole; a file with no line is unlinked, in a step of  *)
(* its own like any rewrite. *)
ReadQueue(w) ==
  /\ pc[w] = "locked"
  /\ raw' = [raw EXCEPT ![w] = queue]
  /\ consumed' = [consumed EXCEPT ![w] = 0]
  /\ failed' = [failed EXCEPT ![w] = <<>>]
  /\ \/ ~QueueFileExists /\ pc' = [pc EXCEPT ![w] = "release"]
     \/ QueueFileExists /\ pc' = [pc EXCEPT ![w] = LoopPc(0, Len(queue))]
  /\ UNCHANGED <<queue, lockFile, dead, handle, sending, requeueVars, history>>

CurrentJob(w) == raw[w][consumed[w] + 1]

HandleOk(w) ==
  /\ pc[w] = "handling" /\ CurrentJob(w) \notin Malformed
  /\ done' = done \union {CurrentJob(w)}
  /\ consumed' = [consumed EXCEPT ![w] = @ + 1]
  /\ pc' = [pc EXCEPT ![w] = LoopPc(consumed[w] + 1, Len(raw[w]))]
  /\ UNCHANGED <<queue, lockFile, dead, handle, sending, raw, failed,
                 requeueVars, accepted, exposed>>

(* Mutant: a failure ends the batch in dead_letter mode as well. *)
HandleFails_EndsBatch(w) ==
  /\ pc[w] = "handling"
  /\ pc' = [pc EXCEPT ![w] = "rewrite"]
  /\ UNCHANGED <<queue, lockFile, dead, handle, sending, raw, consumed, failed,
                 requeueVars, history>>

(* Mutant: stop mode skips the failed line and goes on. *)
HandleFails_GoesOn(w) ==
  /\ pc[w] = "handling"
  /\ consumed' = [consumed EXCEPT ![w] = @ + 1]
  /\ pc' = [pc EXCEPT ![w] = LoopPc(consumed[w] + 1, Len(raw[w]))]
  /\ UNCHANGED <<queue, lockFile, dead, handle, sending, raw, failed,
                 requeueVars, history>>

(* The handler raised: dead_letter mode collects the payload and goes on,  *)
(* stop mode leaves the line unconsumed and ends the loop.                 *)
HandleFails(w) ==
  /\ pc[w] = "handling"
  /\ \/ /\ FailureMode = "dead_letter"
        /\ failed' = [failed EXCEPT ![w] = Append(@, CurrentJob(w))]
        /\ consumed' = [consumed EXCEPT ![w] = @ + 1]
        /\ pc' = [pc EXCEPT ![w] = LoopPc(consumed[w] + 1, Len(raw[w]))]
     \/ /\ FailureMode = "stop"
        /\ pc' = [pc EXCEPT ![w] = "rewrite"]
        /\ UNCHANGED <<failed, consumed>>
  /\ UNCHANGED <<queue, lockFile, dead, handle, sending, raw, requeueVars, history>>

(* The queue file is replaced by the lines of raw[w] from line `from` on. *)
RewriteFrom(w, from) ==
  /\ pc[w] = "rewrite"
  /\ queue' = SubSeq(raw[w], from, Len(raw[w]))
  /\ handle' = Strand
  /\ pc' = [pc EXCEPT ![w] = IF failed[w] = <<>> THEN "release" ELSE "record"]
  /\ UNCHANGED <<lockFile, dead, sending, raw, consumed, failed, requeueVars, history>>

(* Mutants: one line too many is dropped; every line is put back. *)
Rewrite_DropsNext(w) == RewriteFrom(w, consumed[w] + 2)
Rewrite_KeepsAll(w) == RewriteFrom(w, 1)

(* The temp file with the remaining lines replaces the queue file, or the  *)
(* queue file is unlinked.                                                 *)
Rewrite(w) == RewriteFrom(w, consumed[w] + 1)

(* failed-jobs-requeue has read the dead letters and will overwrite them. *)
RequeueActive == rqPc # "idle"

(* Mutant: the dead-letter file is opened for writing, not appending. *)
RecordFailures_Overwrites(w) ==
  /\ pc[w] = "record"
  /\ dead' = failed[w]
  /\ exposed' = IF RequeueActive THEN exposed \union Range(failed[w]) ELSE exposed
  /\ failed' = [failed EXCEPT ![w] = <<>>]
  /\ pc' = [pc EXCEPT ![w] = "release"]
  /\ UNCHANGED <<queue, lockFile, handle, sending, raw, consumed, requeueVars,
                 accepted, done>>

RecordFailures(w) ==
  /\ pc[w] = "record"
  /\ dead' = dead \o failed[w]
  /\ exposed' = IF RequeueActive THEN exposed \union Range(failed[w]) ELSE exposed
  /\ failed' = [failed EXCEPT ![w] = <<>>]
  /\ pc' = [pc EXCEPT ![w] = "release"]
  /\ UNCHANGED <<queue, lockFile, handle, sending, raw, consumed, requeueVars,
                 accepted, done>>

(* The worker's memory is gone; failures it had not recorded go with it.   *)
Forget(w) ==
  /\ pc' = [pc EXCEPT ![w] = "idle"]
  /\ raw' = [raw EXCEPT ![w] = <<>>]
  /\ consumed' = [consumed EXCEPT ![w] = 0]
  /\ failed' = [failed EXCEPT ![w] = <<>>]
  /\ exposed' = IF pc[w] = "record" THEN exposed \union Range(failed[w]) ELSE exposed
  /\ UNCHANGED <<queue, dead, handle, sending, requeueVars, accepted, done>>

(* The finally clause unlinks the lock file. *)
Release(w) ==
  /\ pc[w] = "release"
  /\ lockFile' = FALSE
  /\ Forget(w)

(* An exception outside the handler's try (a failed write, Ctrl-C): the    *)
(* finally clause still runs.                                              *)
Abort(w) ==
  /\ "abort" \in Faults /\ pc[w] # "idle"
  /\ lockFile' = FALSE
  /\ Forget(w)

(* SIGKILL or power loss: the lock file stays behind. *)
Crash(w) ==
  /\ "crash" \in Faults /\ pc[w] # "idle"
  /\ Forget(w)
  /\ UNCHANGED lockFile

(* The operator deletes a lock file no live worker owns. *)
RemoveStaleLock ==
  /\ lockFile /\ \A w \in Workers : pc[w] = "idle"
  /\ lockFile' = FALSE
  /\ UNCHANGED <<queue, dead, handle, sending, workerVars, requeueVars, history>>

-----------------------------------------------------------------------------
(* failed-jobs-requeue                                                     *)

RequeueLoad(args) ==
  /\ rqPc = "idle" /\ dead # <<>>
  /\ rqPc' = "scan" /\ rqArgs' = args /\ rqItems' = dead
  /\ taken' = <<>> /\ kept' = <<>>
  /\ UNCHANGED <<queue, lockFile, dead, handle, sending, workerVars, history>>

(* One iteration of the loop over the items. *)
RequeueScan ==
  LET pos  == Len(taken) + Len(kept) + 1
      item == rqItems[pos]
      take == /\ rqArgs.wanted # {} => item \in rqArgs.wanted \ Malformed
              /\ rqArgs.max # 0 => Len(taken) < rqArgs.max
  IN /\ rqPc = "scan" /\ pos <= Len(rqItems)
     /\ taken' = IF take THEN Append(taken, item) ELSE taken
     /\ kept' = IF take THEN kept ELSE Append(kept, item)
     /\ UNCHANGED <<queue, lockFile, dead, handle, sending, workerVars,
                    rqPc, rqArgs, rqItems, history>>

(* The scan is over; with nothing to requeue the queue is not opened. *)
RequeueOpen ==
  /\ rqPc = "scan" /\ Len(taken) + Len(kept) = Len(rqItems)
  /\ \/ /\ taken = <<>> /\ rqPc' = "rewrite"
        /\ UNCHANGED handle
     \/ /\ taken # <<>> /\ rqPc' = "append"
        /\ handle' = [handle EXCEPT ![Requeue] = "live"]
  /\ UNCHANGED <<queue, lockFile, dead, sending, workerVars, rqArgs, rqItems,
                 taken, kept, history>>

RequeueAppend ==
  /\ rqPc = "append" /\ rqPc' = "rewrite"
  /\ Flush(Requeue, taken)
  /\ UNCHANGED <<lockFile, dead, sending, workerVars, rqArgs, rqItems, taken, kept,
                 accepted, done>>

(* The command's memory when it ends. *)
RequeueEnd ==
  /\ rqPc' = "idle" /\ rqArgs' = [wanted |-> {}, max |-> 0]
  /\ rqItems' = <<>> /\ taken' = <<>> /\ kept' = <<>>

(* Nothing kept: the file is unlinked.  Otherwise write_text truncates it  *)
(* first and writes the kept items after.                                  *)
RequeueTruncate ==
  /\ rqPc = "rewrite"
  /\ dead' = <<>>
  /\ \/ kept = <<>> /\ RequeueEnd
     \/ /\ kept # <<>> /\ rqPc' = "truncated"
        /\ UNCHANGED <<rqArgs, rqItems, taken, kept>>
  /\ UNCHANGED <<queue, lockFile, handle, sending, workerVars, history>>

RequeueWrite ==
  /\ rqPc = "truncated"
  /\ dead' = kept
  /\ RequeueEnd
  /\ UNCHANGED <<queue, lockFile, handle, sending, workerVars, history>>

RequeueCrash ==
  /\ Faults # {} /\ rqPc # "idle"
  /\ RequeueEnd
  /\ handle' = [handle EXCEPT ![Requeue] = "closed"]
  /\ exposed' = IF rqPc = "truncated" THEN exposed \union Range(kept) ELSE exposed
  /\ UNCHANGED <<queue, lockFile, dead, sending, workerVars, accepted, done>>
-----------------------------------------------------------------------------
WorkerStep(w) ==
  \/ ReadQueue(w) \/ HandleOk(w) \/ HandleFails(w) \/ Rewrite(w)
  \/ RecordFailures(w) \/ Release(w)

RequeueStep ==
  \/ RequeueScan \/ RequeueOpen \/ RequeueAppend
  \/ RequeueTruncate \/ RequeueWrite

Next ==
  \/ \E p \in Producers, j \in Jobs : OpenQueue(p, j) \/ AppendJob(p, j)
  \/ \E w \in Workers : Acquire(w) \/ WorkerStep(w) \/ Abort(w) \/ Crash(w)
  \/ RemoveStaleLock
  \/ \E args \in RequeueArgs : RequeueLoad(args)
  \/ RequeueStep \/ RequeueCrash

Spec == Init /\ [][Next]_vars

(* A started command runs on; automation keeps launching process-queue.    *)
Fairness ==
  /\ WF_vars(\E w \in Workers : Acquire(w))
  /\ \A w \in Workers : WF_vars(WorkerStep(w))

FairSpec == Spec /\ Fairness

-----------------------------------------------------------------------------
(* Properties                                                              *)

WorkerPcs == {"idle", "locked", "handling", "rewrite", "record", "release"}
RequeuePcs == {"idle", "scan", "append", "rewrite", "truncated"}

(* Every file holds lines of jobs, every command is at one of its steps.   *)
TypeOK ==
  /\ queue \in Seq(Jobs) /\ dead \in Seq(Jobs) /\ lockFile \in BOOLEAN
  /\ handle \in [Appenders -> {"closed", "live", "orphan"}]
  /\ sending \in [Producers -> SUBSET Jobs]
  /\ pc \in [Workers -> WorkerPcs] /\ raw \in [Workers -> Seq(Jobs)]
  /\ consumed \in [Workers -> Nat] /\ failed \in [Workers -> Seq(Jobs)]
  /\ rqPc \in RequeuePcs /\ rqArgs \in [wanted : SUBSET Jobs, max : Nat]
  /\ rqItems \in Seq(Jobs) /\ taken \in Seq(Jobs) /\ kept \in Seq(Jobs)
  /\ accepted \subseteq Jobs /\ done \subseteq Jobs /\ exposed \subseteq Jobs

(* _queue_lock: at most one process-queue is past its lock, and while one  *)
(* is, the lock file exists, whatever died before and left it behind.      *)
LockExclusion ==
  /\ \A w \in Workers : pc[w] # "idle" => lockFile
  /\ \A v, w \in Workers : pc[v] # "idle" /\ pc[w] # "idle" => v = w

(* While a worker holds lines in memory, they are still the first lines of *)
(* the queue file: what it will rewrite replaces nothing but them and what *)
(* was appended since.                                                     *)
MemoryIsQueueHead ==
  \A w \in Workers : pc[w] \in {"handling", "rewrite"} =>
    /\ Len(raw[w]) <= Len(queue)
    /\ \A i \in 1..Len(raw[w]) : raw[w][i] = queue[i]

(* Jobs held by a worker that has taken them off the queue or will.        *)
InFlight == UNION {Range(failed[w]) : w \in Workers}

(* Dead letters held only by a requeue that has truncated their file.      *)
Truncated == IF rqPc = "truncated" THEN Range(kept) ELSE {}

Owed == Range(queue) \union Range(dead) \union InFlight \union Truncated

(* No job is lost silently: one that a producer queued is done, or still   *)
(* in the queue, the dead letters or a command's memory, unless it went    *)
(* through one of the unlocked windows: an append while a worker was       *)
(* between its read and its rewrite, a dead letter written while           *)
(* failed-jobs-requeue was rewriting them, a death between two writes.     *)
NoSilentLoss == accepted \subseteq Owed \union done \union exposed

(* What the queue would promise with no unlocked window.                   *)
AcceptedJobsSurvive == accepted \subseteq Owed \union done

(* A payload whose handler failed is in the queue or in the dead letters   *)
(* when its worker ends, however it ends.                                  *)
FailedJobsStayQueued ==
  [][\A w \in Workers : pc[w] # "idle" /\ pc'[w] = "idle" =>
       Range(failed[w]) \subseteq Range(queue') \union Range(dead')]_vars

(* With nothing dying, no job is processed twice: not by two workers, nor  *)
(* by a worker after a requeue.                                            *)
ProcessedOnce == [][\A w \in Workers : HandleOk(w) => CurrentJob(w) \notin done]_vars

(* In stop mode no job is processed past one that failed: every line of    *)
(* the queue file before the one being completed is done.                  *)
StopModeKeepsOrder ==
  [][\A w \in Workers : HandleOk(w) => \A i \in 1..consumed[w] : queue[i] \in done]_vars

(* In dead_letter mode a queued job is eventually done or dead-lettered,   *)
(* or was exposed to the lost update: no failing job blocks those behind.  *)
EveryJobSettles ==
  \A j \in Jobs : j \in Range(queue) ~> j \in done \union Range(dead) \union exposed

-----------------------------------------------------------------------------
(* The inductive invariant behind NoSilentLoss: for each command, where    *)
(* every job it holds in memory can be found elsewhere.                    *)

(* A worker's lines up to `consumed` are done or among its failures, the   *)
(* lines it does not know were exposed, and its failures are unrecorded    *)
(* only until "record".                                                    *)
WorkersAccount == \A w \in Workers :
  /\ pc[w] \in {"idle", "locked", "release"} => failed[w] = <<>>
  /\ pc[w] = "handling" => consumed[w] < Len(raw[w])
  /\ pc[w] \in {"handling", "rewrite"} =>
       /\ consumed[w] <= Len(raw[w])
       /\ \A i \in 1..consumed[w] : raw[w][i] \in done \union Range(failed[w])
       /\ Range(failed[w]) \subseteq Range(raw[w])
       /\ \A i \in Len(raw[w])+1..Len(queue) : queue[i] \in exposed

(* Jobs safe without the dead-letter file. *)
Accounted == Range(queue) \union InFlight \union done \union exposed

(* failed-jobs-requeue drops no dead letter but those it has put back in   *)
(* the queue and those written behind its back, which were exposed.        *)
RequeueAccounts ==
  /\ rqPc = "scan" =>
       /\ Len(taken) + Len(kept) <= Len(rqItems)
       /\ \A i \in 1..Len(taken) + Len(kept) : rqItems[i] \in Range(taken) \union Range(kept)
  /\ rqPc \in {"scan", "append", "rewrite"} =>
       /\ Range(taken) \union Range(kept) \subseteq Range(rqItems)
       /\ Range(rqItems) \subseteq Range(dead)
       /\ Range(dead) \subseteq Range(rqItems) \union exposed
  /\ rqPc \in {"append", "rewrite"} => Range(rqItems) \subseteq Range(taken) \union Range(kept)
  /\ rqPc \in {"rewrite", "truncated"} => Range(taken) \subseteq Accounted
  /\ rqPc = "truncated" => Range(dead) \subseteq exposed

IInv ==
  /\ TypeOK /\ LockExclusion /\ MemoryIsQueueHead
  /\ WorkersAccount /\ RequeueAccounts /\ NoSilentLoss

-----------------------------------------------------------------------------
(* The queue keeps the books JobLedger describes. *)
Ledger == INSTANCE JobLedger WITH owed <- Owed, atRisk <- exposed

LedgerSpec == Ledger!Spec
=============================================================================
