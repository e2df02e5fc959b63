------------------------- MODULE QueueWorkerProofs -------------------------
(***************************************************************************)
(* Theorems about QueueWorker, for any jobs, workers, producers, batch     *)
(* size, failure mode and faults: type correctness, mutual exclusion of    *)
(* the workers, and that no queued job is lost silently; the order that    *)
(* stop mode keeps; and, without faults, that no job is processed twice.   *)
(***************************************************************************)
EXTENDS QueueWorker, SequenceTheorems, TLAPS

(* The elements of sequences built by the operators the model uses. *)
LEMMA RangeOfEmpty == Range(<<>>) = {}
BY DEF Range

LEMMA RangeOfAppend ==
  ASSUME NEW S, NEW s \in Seq(S), NEW e \in S
  PROVE  Range(Append(s, e)) = Range(s) \union {e}
<1>1. Range(Append(s, e)) = {Append(s, e)[i] : i \in 1..Len(s)+1}
  <2>1. Append(s, e) \in Seq(S) /\ Len(Append(s, e)) = Len(s) + 1
    BY AppendProperties
  <2> QED
    BY <2>1, RangeEquality
<1>2. Range(s) = {s[i] : i \in 1..Len(s)}
  BY RangeEquality
<1>3. Len(s) \in Nat
  OBVIOUS
<1> QED
  BY <1>1, <1>2, <1>3, AppendProperties

LEMMA RangeOfSuffix ==
  ASSUME NEW S, NEW s \in Seq(S), NEW m \in 1..Len(s)+1
  PROVE  /\ SubSeq(s, m, Len(s)) \in Seq(S)
         /\ Range(SubSeq(s, m, Len(s))) = {s[i] : i \in m..Len(s)}
<1>1. Len(s) \in Nat /\ \A i \in m..Len(s) : s[i] \in S
  BY LenProperties, ElementOfSeq
<1> DEFINE t == SubSeq(s, m, Len(s))
<1>2. /\ t \in Seq(S)
      /\ Len(t) = Len(s) - m + 1
      /\ \A i \in 1..Len(s)-m+1 : t[i] = s[m+i-1]
  <2>1. m \in Int /\ Len(s) \in Int
    BY <1>1
  <2> QED
    BY <1>1, <2>1, SubSeqProperties
<1>3. Range(t) = {t[i] : i \in 1..Len(t)}
  BY <1>2, RangeEquality
<1>4. ASSUME NEW i \in m..Len(s) PROVE s[i] \in Range(t)
  <2>1. i - m + 1 \in 1..Len(t) /\ t[i-m+1] = s[i]
    BY <1>1, <1>2
  <2> QED
    BY <1>3, <2>1
<1>5. ASSUME NEW i \in 1..Len(t) PROVE t[i] \in {s[k] : k \in m..Len(s)}
  <2>1. m + i - 1 \in m..Len(s) /\ t[i] = s[m+i-1]
    BY <1>1, <1>2
  <2> QED
    BY <2>1
<1> QED
  BY <1>2, <1>3, <1>4, <1>5

LEMMA RangeOfSingleton ==
  ASSUME NEW e
  PROVE  Range(<<e>>) = {e}
BY DEF Range

-----------------------------------------------------------------------------
(* Type correctness: every step of every command keeps TypeOK.             *)

LEMMA TypeInit == Init => TypeOK
<1> SUFFICES ASSUME Init PROVE TypeOK
  OBVIOUS
<1>1. <<>> \in Seq(Jobs)
  OBVIOUS
<1>2. /\ handle \in [Appenders -> {"closed", "live", "orphan"}]
      /\ sending \in [Producers -> SUBSET Jobs]
      /\ pc \in [Workers -> WorkerPcs]
      /\ consumed \in [Workers -> Nat]
  BY DEF Init, WorkerPcs
<1>3. raw \in [Workers -> Seq(Jobs)] /\ failed \in [Workers -> Seq(Jobs)]
  BY <1>1 DEF Init
<1>4. rqArgs \in [wanted : SUBSET Jobs, max : Nat] /\ rqPc \in RequeuePcs
  BY DEF Init, RequeuePcs
<1> QED
  BY <1>1, <1>2, <1>3, <1>4 DEF Init, TypeOK

(* While a worker's loop is running there is a line left to handle. *)
LineLeft == \A w \in Workers : pc[w] = "handling" => consumed[w] < Len(raw[w])

TypeInv == TypeOK /\ LineLeft

(* Where the loop goes. *)
LEMMA LoopPcType ==
  ASSUME NEW n \in Nat, NEW len \in Nat
  PROVE  /\ LoopPc(n, len) \in {"handling", "rewrite"}
         /\ LoopPc(n, len) = "handling" => n < len
BY DEF LoopPc

(* A job taken from the lines a worker holds is a job. *)
LEMMA CurrentJobType ==
  ASSUME TypeInv, NEW w \in Workers, pc[w] = "handling"
  PROVE  CurrentJob(w) \in Jobs
<1>1. raw[w] \in Seq(Jobs) /\ consumed[w] + 1 \in 1..Len(raw[w])
  BY DEF TypeInv, TypeOK, LineLeft
<1> QED
  BY <1>1, ElementOfSeq DEF CurrentJob

(* The files and the appenders' state after a flush. *)
LEMMA FlushType ==
  ASSUME TypeOK, NEW a \in Appenders, NEW jobs \in Seq(Jobs), Flush(a, jobs)
  PROVE  /\ queue' \in Seq(Jobs)
         /\ exposed' \subseteq Jobs
         /\ handle' \in [Appenders -> {"closed", "live", "orphan"}]
<1>1. queue \o jobs \in Seq(Jobs) /\ Range(jobs) \subseteq Jobs
  BY ConcatProperties, RangeOfSeq DEF TypeOK
<1> QED
  BY <1>1 DEF Flush, TypeOK

LEMMA StrandType == TypeOK => Strand \in [Appenders -> {"closed", "live", "orphan"}]
BY DEF TypeOK, Strand

LEMMA RequeueEndType ==
  ASSUME RequeueEnd
  PROVE  /\ rqPc' \in RequeuePcs /\ rqArgs' \in [wanted : SUBSET Jobs, max : Nat]
         /\ rqItems' \in Seq(Jobs) /\ taken' \in Seq(Jobs) /\ kept' \in Seq(Jobs)
BY DEF RequeueEnd, RequeuePcs

LEMMA TypeNext == TypeInv /\ [Next]_vars => TypeInv'
<1> SUFFICES ASSUME TypeInv, [Next]_vars PROVE TypeInv'
  OBVIOUS
<1> USE DEF TypeInv, TypeOK, LineLeft, WorkerPcs, RequeuePcs
<1>1. ASSUME NEW p \in Producers, NEW j \in Jobs, OpenQueue(p, j) PROVE TypeInv'
  BY <1>1 DEF OpenQueue, workerVars, requeueVars, history, Appenders
<1>2. ASSUME NEW p \in Producers, NEW j \in Jobs, AppendJob(p, j) PROVE TypeInv'
  <2>1. p \in Appenders /\ <<j>> \in Seq(Jobs)
    BY DEF Appenders
  <2>2. /\ queue' \in Seq(Jobs) /\ exposed' \subseteq Jobs
        /\ handle' \in [Appenders -> {"closed", "live", "orphan"}]
    BY <1>2, <2>1, FlushType DEF AppendJob
  <2> QED
    BY <1>2, <2>2 DEF AppendJob, workerVars, requeueVars
<1>3. ASSUME NEW w \in Workers, Acquire(w) PROVE TypeInv'
  BY <1>3 DEF Acquire, requeueVars, history
<1>4. ASSUME NEW w \in Workers, ReadQueue(w) PROVE TypeInv'
  <2>1. Len(queue) \in Nat
    OBVIOUS
  <2>2. /\ LoopPc(0, Len(queue)) \in WorkerPcs
        /\ LoopPc(0, Len(queue)) = "handling" => 0 < Len(queue)
    BY <2>1, LoopPcType
  <2>3. handle' \in [Appenders -> {"closed", "live", "orphan"}]
    BY <1>4, StrandType DEF ReadQueue
  <2>4. pc' \in [Workers -> WorkerPcs]
    BY <1>4, <2>2 DEF ReadQueue
  <2>5. raw' \in [Workers -> Seq(Jobs)] /\ failed' \in [Workers -> Seq(Jobs)]
    BY <1>4 DEF ReadQueue
  <2>6. TypeOK'
    BY <1>4, <2>3, <2>4, <2>5 DEF ReadQueue, requeueVars, history
  <2>7. LineLeft'
    BY <1>4, <2>2 DEF ReadQueue
  <2> QED
    BY <2>6, <2>7
<1>5. ASSUME NEW w \in Workers, HandleOk(w) PROVE TypeInv'
  <2>1. CurrentJob(w) \in Jobs
    BY <1>5, CurrentJobType DEF HandleOk
  <2>2. consumed[w] + 1 \in Nat /\ Len(raw[w]) \in Nat
    OBVIOUS
  <2>3. LoopPc(consumed[w] + 1, Len(raw[w])) \in WorkerPcs
    BY <2>2, LoopPcType
  <2>4. TypeOK'
    BY <1>5, <2>1, <2>2, <2>3 DEF HandleOk, requeueVars
  <2>5. LineLeft'
    BY <1>5, <2>2, LoopPcType DEF HandleOk
  <2> QED
    BY <2>4, <2>5
<1>6. ASSUME NEW w \in Workers, HandleFails(w) PROVE TypeInv'
  <2>1. CurrentJob(w) \in Jobs
    BY <1>6, CurrentJobType DEF HandleFails
  <2>2. consumed[w] + 1 \in Nat /\ Len(raw[w]) \in Nat
    OBVIOUS
  <2>3. LoopPc(consumed[w] + 1, Len(raw[w])) \in WorkerPcs
    BY <2>2, LoopPcType
  <2>4. Append(failed[w], CurrentJob(w)) \in Seq(Jobs)
    BY <2>1, AppendProperties
  <2>5. TypeOK'
    BY <1>6, <2>2, <2>3, <2>4 DEF HandleFails, requeueVars, history
  <2>6. LineLeft'
    BY <1>6, <2>2, LoopPcType DEF HandleFails
  <2> QED
    BY <2>5, <2>6
<1>7. ASSUME NEW w \in Workers, Rewrite(w) PROVE TypeInv'
  <2>1. SubSeq(raw[w], consumed[w] + 1, Len(raw[w])) \in Seq(Jobs)
    OBVIOUS
  <2> QED
    BY <1>7, <2>1, StrandType DEF Rewrite, RewriteFrom, requeueVars, history
<1>8. ASSUME NEW w \in Workers, RecordFailures(w) PROVE TypeInv'
  <2>1. dead \o failed[w] \in Seq(Jobs) /\ Range(failed[w]) \subseteq Jobs
    BY ConcatProperties, RangeOfSeq
  <2> QED
    BY <1>8, <2>1 DEF RecordFailures, requeueVars
<1>9. ASSUME NEW w \in Workers, Forget(w), lockFile' \in BOOLEAN PROVE TypeInv'
  <2>1. Range(failed[w]) \subseteq Jobs /\ <<>> \in Seq(Jobs)
    BY RangeOfSeq
  <2> QED
    BY <1>9, <2>1 DEF Forget, requeueVars
<1>10. ASSUME NEW w \in Workers, Release(w) \/ Abort(w) \/ Crash(w) PROVE TypeInv'
  BY <1>9, <1>10 DEF Release, Abort, Crash
<1>11. CASE RemoveStaleLock
  BY <1>11 DEF RemoveStaleLock, workerVars, requeueVars, history
<1>12. ASSUME NEW args \in RequeueArgs, RequeueLoad(args) PROVE TypeInv'
  BY <1>12, ConstantsAssumption DEF RequeueLoad, workerVars, history
<1>13. CASE RequeueScan
  <2> DEFINE pos == Len(taken) + Len(kept) + 1
  <2>1. pos \in 1..Len(rqItems)
    BY <1>13 DEF RequeueScan
  <2>2. rqItems[pos] \in Jobs
    BY <2>1, ElementOfSeq
  <2>3. Append(taken, rqItems[pos]) \in Seq(Jobs) /\ Append(kept, rqItems[pos]) \in Seq(Jobs)
    BY <2>2, AppendProperties
  <2>4. taken' \in Seq(Jobs) /\ kept' \in Seq(Jobs)
    BY <1>13, <2>3 DEF RequeueScan
  <2> QED
    BY <1>13, <2>4 DEF RequeueScan, workerVars, history
<1>14. CASE RequeueOpen
  BY <1>14 DEF RequeueOpen, workerVars, history, Appenders
<1>15. CASE RequeueAppend
  <2>1. Requeue \in Appenders
    BY DEF Appenders
  <2>2. /\ queue' \in Seq(Jobs) /\ exposed' \subseteq Jobs
        /\ handle' \in [Appenders -> {"closed", "live", "orphan"}]
    BY <1>15, <2>1, FlushType DEF RequeueAppend
  <2> QED
    BY <1>15, <2>2 DEF RequeueAppend, workerVars
<1>16. CASE RequeueTruncate \/ RequeueWrite
  <2>1. dead' \in Seq(Jobs)
    <3>1. dead' = <<>> \/ dead' = kept
      BY <1>16 DEF RequeueTruncate, RequeueWrite
    <3>2. <<>> \in Seq(Jobs)
      OBVIOUS
    <3> QED
      BY <3>1, <3>2
  <2>2. /\ rqPc' \in RequeuePcs /\ rqArgs' \in [wanted : SUBSET Jobs, max : Nat]
        /\ rqItems' \in Seq(Jobs) /\ taken' \in Seq(Jobs) /\ kept' \in Seq(Jobs)
    BY <1>16, RequeueEndType DEF RequeueTruncate, RequeueWrite
  <2> QED
    BY <1>16, <2>1, <2>2 DEF RequeueTruncate, RequeueWrite, workerVars, history
<1>17. CASE RequeueCrash
  <2>1. Range(kept) \subseteq Jobs
    BY RangeOfSeq
  <2> QED
    BY <1>17, <2>1, RequeueEndType DEF RequeueCrash, Appenders, workerVars
<1>18. CASE UNCHANGED vars
  BY <1>18 DEF vars, workerVars, requeueVars, history
<1> QED
  BY <1>1, <1>2, <1>3, <1>4, <1>5, <1>6, <1>7, <1>8, <1>10, <1>11, <1>12, <1>13,
     <1>14, <1>15, <1>16, <1>17, <1>18 DEF Next, WorkerStep, RequeueStep

(* Every file holds lines of jobs and every command is at one of its       *)
(* steps: for any number of jobs, workers and producers, after any faults. *)
THEOREM TypeCorrect == Spec => []TypeOK
<1>1. Init => TypeInv
  BY TypeInit DEF TypeInv, LineLeft, Init
<1>2. TypeInv => TypeOK
  BY DEF TypeInv
<1> QED
  BY <1>1, <1>2, TypeNext, PTL DEF Spec

-----------------------------------------------------------------------------
(* Mutual exclusion of the workers.                                        *)

LEMMA LockNext == TypeOK /\ LockExclusion /\ [Next]_vars => LockExclusion'
<1> SUFFICES ASSUME TypeOK, LockExclusion, [Next]_vars PROVE LockExclusion'
  OBVIOUS
<1> USE DEF LockExclusion, TypeOK
<1>1. ASSUME UNCHANGED <<pc, lockFile>> PROVE LockExclusion'
  BY <1>1
<1>2. ASSUME NEW w \in Workers, Acquire(w) PROVE LockExclusion'
  BY <1>2 DEF Acquire
<1>3. ASSUME NEW w \in Workers, pc[w] # "idle", UNCHANGED lockFile,
             \A v \in Workers : v # w => pc'[v] = pc[v]
      PROVE  LockExclusion'
  BY <1>3
<1>4. ASSUME NEW w \in Workers, ReadQueue(w) \/ HandleOk(w) \/ HandleFails(w)
                                 \/ Rewrite(w) \/ RecordFailures(w)
      PROVE  LockExclusion'
  <2>1. pc[w] # "idle" /\ UNCHANGED lockFile
    BY <1>4 DEF ReadQueue, HandleOk, HandleFails, Rewrite, RewriteFrom, RecordFailures
  <2>2. \A v \in Workers : v # w => pc'[v] = pc[v]
    BY <1>4 DEF ReadQueue, HandleOk, HandleFails, Rewrite, RewriteFrom, RecordFailures
  <2> QED
    BY <1>3, <2>1, <2>2
<1>5. ASSUME NEW w \in Workers, Release(w) \/ Abort(w) \/ Crash(w) PROVE LockExclusion'
  <2>1. pc[w] # "idle" /\ pc' = [pc EXCEPT ![w] = "idle"]
    BY <1>5 DEF Release, Abort, Crash, Forget
  <2>2. \A v \in Workers : pc'[v] = "idle"
    BY <2>1
  <2> QED
    BY <2>2
<1>6. CASE RemoveStaleLock
  BY <1>6 DEF RemoveStaleLock, workerVars
<1>7. CASE \/ \E p \in Producers, j \in Jobs : OpenQueue(p, j) \/ AppendJob(p, j)
           \/ \E args \in RequeueArgs : RequeueLoad(args)
           \/ RequeueStep \/ RequeueCrash \/ UNCHANGED vars
  <2>1. UNCHANGED <<pc, lockFile>>
    BY <1>7 DEF OpenQueue, AppendJob, RequeueLoad, RequeueStep, RequeueScan,
       RequeueOpen, RequeueAppend, RequeueTruncate, RequeueWrite, RequeueCrash,
       vars, workerVars
  <2> QED
    BY <1>1, <2>1
<1> QED
  BY <1>2, <1>4, <1>5, <1>6, <1>7 DEF Next, WorkerStep

(* Two process-queue invocations are never both past the lock, and the     *)
(* lock file exists while one is: for any workers, crashes and clean-ups.  *)
THEOREM MutualExclusion == Spec => []LockExclusion
<1>1. Init => LockExclusion
  BY DEF Init, LockExclusion
<1> QED
  BY <1>1, LockNext, TypeCorrect, PTL DEF Spec

-----------------------------------------------------------------------------
(* No silent loss.  Each action keeps the accounts of IInv.                *)

Accounts == MemoryIsQueueHead /\ WorkersAccount /\ RequeueAccounts /\ NoSilentLoss

(* What a flush does to the queue and to the exposed jobs. *)
LEMMA FlushFacts ==
  ASSUME TypeOK, NEW a \in Appenders, NEW jobs \in Seq(Jobs), Flush(a, jobs)
  PROVE  /\ Len(queue) <= Len(queue')
         /\ \A i \in 1..Len(queue) : queue'[i] = queue[i]
         /\ Range(queue) \subseteq Range(queue')
         /\ exposed \subseteq exposed'
         /\ Range(jobs) \subseteq Range(queue') \union exposed'
         /\ WindowOpen => \A i \in Len(queue)+1..Len(queue') : queue'[i] \in exposed'
<1>1. CASE handle[a] = "live"
  <2>1. queue' = queue \o jobs /\ queue \in Seq(Jobs)
    BY <1>1 DEF Flush, TypeOK
  <2>2. /\ Len(queue') = Len(queue) + Len(jobs)
        /\ \A i \in 1..Len(queue)+Len(jobs) :
             queue'[i] = IF i <= Len(queue) THEN queue[i] ELSE jobs[i - Len(queue)]
        /\ Len(queue) \in Nat /\ Len(jobs) \in Nat
    BY <2>1, ConcatProperties
  <2>3. Range(queue') = Range(queue) \union Range(jobs)
    BY <2>1, RangeConcatenation
  <2>4. exposed \subseteq exposed'
    BY DEF Flush
  <2>5. ASSUME WindowOpen, NEW i \in Len(queue)+1..Len(queue')
        PROVE  queue'[i] \in exposed'
    <3>1. i - Len(queue) \in 1..Len(jobs) /\ queue'[i] = jobs[i - Len(queue)]
      BY <2>2
    <3>2. queue'[i] \in Range(jobs)
      BY <3>1, RangeEquality
    <3> QED
      BY <2>5, <3>2 DEF Flush
  <2>6. Len(queue) <= Len(queue') /\ \A i \in 1..Len(queue) : queue'[i] = queue[i]
    BY <2>2
  <2> QED
    BY <2>3, <2>4, <2>5, <2>6
<1>2. CASE handle[a] = "orphan"
  <2>1. queue' = queue /\ exposed' = exposed \union Range(jobs)
    BY <1>2 DEF Flush
  <2>2. Len(queue) \in Nat
    BY DEF TypeOK
  <2> QED
    BY <2>1, <2>2
<1> QED
  BY <1>1, <1>2 DEF Flush, TypeOK

(* With every other worker idle, what is in flight is one worker's.        *)
LEMMA InFlightOfOne ==
  ASSUME NEW f \in [Workers -> Seq(Jobs)], NEW w \in Workers,
         \A v \in Workers : v # w => f[v] = <<>>
  PROVE  UNION {Range(f[v]) : v \in Workers} = Range(f[w])
<1>1. \A v \in Workers : v # w => Range(f[v]) = {}
  BY RangeOfEmpty
<1> QED
  BY <1>1

(* The workers' side of a step that only appends to the queue. *)
LEMMA AppendKeepsWorkers ==
  ASSUME TypeOK, MemoryIsQueueHead, WorkersAccount,
         UNCHANGED <<workerVars, done>>, queue' \in Seq(Jobs),
         Len(queue) <= Len(queue'),
         \A i \in 1..Len(queue) : queue'[i] = queue[i],
         exposed \subseteq exposed',
         WindowOpen => \A i \in Len(queue)+1..Len(queue') : queue'[i] \in exposed'
  PROVE  MemoryIsQueueHead' /\ WorkersAccount' /\ InFlight' = InFlight
<1> USE DEF workerVars
<1>1. Len(queue) \in Nat /\ Len(queue') \in Nat /\ \A w \in Workers : Len(raw[w]) \in Nat
  BY DEF TypeOK
<1>2. MemoryIsQueueHead'
  BY <1>1 DEF MemoryIsQueueHead
<1>3. ASSUME NEW w \in Workers, pc[w] \in {"handling", "rewrite"},
             NEW i \in Len(raw[w])+1..Len(queue')
      PROVE  queue'[i] \in exposed'
  <2>1. WindowOpen
    BY <1>3 DEF WindowOpen
  <2>2. CASE i \in Len(raw[w])+1..Len(queue)
    <3>1. queue[i] \in exposed
      BY <1>3, <2>2 DEF WorkersAccount
    <3>2. i \in 1..Len(queue)
      BY <1>1, <2>2
    <3> QED
      BY <3>1, <3>2
  <2>3. CASE i \in Len(queue)+1..Len(queue')
    BY <2>1, <2>3
  <2> QED
    BY <1>1, <2>2, <2>3
<1>4. WorkersAccount'
  BY <1>3 DEF WorkersAccount
<1> QED
  BY <1>2, <1>4 DEF InFlight

LEMMA AppendJobAccounts ==
  ASSUME TypeOK, Accounts, NEW p \in Producers, NEW j \in Jobs, AppendJob(p, j),
         TypeOK'
  PROVE  Accounts'
<1>1. p \in Appenders /\ <<j>> \in Seq(Jobs) /\ Flush(p, <<j>>)
  BY DEF Appenders, AppendJob
<1>2. /\ Len(queue) <= Len(queue')
      /\ \A i \in 1..Len(queue) : queue'[i] = queue[i]
      /\ Range(queue) \subseteq Range(queue')
      /\ exposed \subseteq exposed'
      /\ Range(<<j>>) \subseteq Range(queue') \union exposed'
      /\ WindowOpen => \A i \in Len(queue)+1..Len(queue') : queue'[i] \in exposed'
  BY <1>1, FlushFacts
<1>3. /\ UNCHANGED <<workerVars, requeueVars, dead, done>>
      /\ accepted' = accepted \union {j}
  BY DEF AppendJob
<1>4. MemoryIsQueueHead' /\ WorkersAccount' /\ InFlight' = InFlight
  BY <1>2, <1>3, AppendKeepsWorkers DEF Accounts, TypeOK
<1>5. RequeueAccounts'
  BY <1>2, <1>3, <1>4 DEF Accounts, RequeueAccounts, Accounted, requeueVars
<1>6. NoSilentLoss'
  BY <1>2, <1>3, <1>4, RangeOfSingleton
  DEF Accounts, NoSilentLoss, Owed, Truncated, requeueVars
<1> QED
  BY <1>4, <1>5, <1>6 DEF Accounts

LEMMA RequeueAppendAccounts ==
  ASSUME TypeOK, Accounts, RequeueAppend, TypeOK'
  PROVE  Accounts'
<1>1. Requeue \in Appenders /\ taken \in Seq(Jobs) /\ Flush(Requeue, taken)
  BY DEF Appenders, RequeueAppend, TypeOK
<1>2. /\ Len(queue) <= Len(queue')
      /\ \A i \in 1..Len(queue) : queue'[i] = queue[i]
      /\ Range(queue) \subseteq Range(queue')
      /\ exposed \subseteq exposed'
      /\ Range(taken) \subseteq Range(queue') \union exposed'
      /\ WindowOpen => \A i \in Len(queue)+1..Len(queue') : queue'[i] \in exposed'
  BY <1>1, FlushFacts
<1>3. /\ UNCHANGED <<workerVars, dead, accepted, done, rqItems, taken, kept>>
      /\ rqPc = "append" /\ rqPc' = "rewrite"
  BY DEF RequeueAppend
<1>4. MemoryIsQueueHead' /\ WorkersAccount' /\ InFlight' = InFlight
  BY <1>2, <1>3, AppendKeepsWorkers DEF Accounts, TypeOK
<1>5. RequeueAccounts'
  BY <1>2, <1>3 DEF Accounts, RequeueAccounts, Accounted
<1>6. NoSilentLoss'
  BY <1>2, <1>3, <1>4 DEF Accounts, NoSilentLoss, Owed, Truncated
<1> QED
  BY <1>4, <1>5, <1>6 DEF Accounts

(* Steps of failed-jobs-requeue that touch no file but, at the end, the    *)
(* dead letters. *)
LEMMA RequeueKeepsWorkers ==
  ASSUME Accounts, UNCHANGED <<queue, workerVars, done>>, exposed \subseteq exposed'
  PROVE  /\ MemoryIsQueueHead' /\ WorkersAccount'
         /\ InFlight' = InFlight /\ Accounted \subseteq Accounted'
<1> USE DEF workerVars
<1>1. MemoryIsQueueHead'
  BY DEF Accounts, MemoryIsQueueHead
<1>2. WorkersAccount'
  BY DEF Accounts, WorkersAccount
<1> QED
  BY <1>1, <1>2 DEF InFlight, Accounted

LEMMA RequeueLoadAccounts ==
  ASSUME TypeOK, Accounts, NEW args \in RequeueArgs, RequeueLoad(args)
  PROVE  Accounts'
<1>1. /\ UNCHANGED <<queue, workerVars, done, dead, exposed, accepted>>
      /\ rqPc = "idle" /\ rqPc' = "scan" /\ rqItems' = dead
      /\ taken' = <<>> /\ kept' = <<>>
  BY DEF RequeueLoad, history
<1>2. MemoryIsQueueHead' /\ WorkersAccount' /\ InFlight' = InFlight
  BY <1>1, RequeueKeepsWorkers
<1>3. Len(<<>>) = 0 /\ Len(dead) \in Nat
  BY DEF TypeOK
<1>4. RequeueAccounts'
  BY <1>1, <1>3, RangeOfEmpty DEF RequeueAccounts
<1>5. NoSilentLoss'
  BY <1>1, <1>2 DEF Accounts, NoSilentLoss, Owed, Truncated
<1> QED
  BY <1>2, <1>4, <1>5 DEF Accounts

LEMMA RequeueScanAccounts ==
  ASSUME TypeOK, Accounts, RequeueScan
  PROVE  Accounts'
<1> DEFINE pos == Len(taken) + Len(kept) + 1
<1>1. /\ UNCHANGED <<queue, workerVars, done, dead, exposed, accepted, rqPc, rqItems>>
      /\ rqPc = "scan"
  BY DEF RequeueScan, history
<1>2. MemoryIsQueueHead' /\ WorkersAccount' /\ InFlight' = InFlight
  BY <1>1, RequeueKeepsWorkers
<1>3. pos \in 1..Len(rqItems) /\ rqItems[pos] \in Jobs
  <2>1. pos \in 1..Len(rqItems)
    BY DEF RequeueScan, TypeOK
  <2> QED
    BY <2>1, ElementOfSeq DEF TypeOK
<1>4. \/ taken' = Append(taken, rqItems[pos]) /\ kept' = kept
      \/ taken' = taken /\ kept' = Append(kept, rqItems[pos])
  BY DEF RequeueScan
<1>5. /\ Len(taken') + Len(kept') = pos
      /\ Range(taken') \union Range(kept')
           = Range(taken) \union Range(kept) \union {rqItems[pos]}
  <2>1. CASE taken' = Append(taken, rqItems[pos]) /\ kept' = kept
    <3>1. /\ Len(taken') = Len(taken) + 1
          /\ Range(taken') = Range(taken) \union {rqItems[pos]}
      BY <1>3, <2>1, AppendProperties, RangeOfAppend DEF TypeOK
    <3>2. Len(taken) \in Nat /\ Len(kept) \in Nat
      BY DEF TypeOK
    <3> QED
      BY <2>1, <3>1, <3>2
  <2>2. CASE taken' = taken /\ kept' = Append(kept, rqItems[pos])
    <3>1. /\ Len(kept') = Len(kept) + 1
          /\ Range(kept') = Range(kept) \union {rqItems[pos]}
      BY <1>3, <2>2, AppendProperties, RangeOfAppend DEF TypeOK
    <3>2. Len(taken) \in Nat /\ Len(kept) \in Nat
      BY DEF TypeOK
    <3> QED
      BY <2>2, <3>1, <3>2
  <2> QED
    BY <1>4, <2>1, <2>2
<1>6. RequeueAccounts'
  <2>1. ASSUME NEW i \in 1..pos
        PROVE  rqItems[i] \in Range(taken') \union Range(kept')
    <3>1. CASE i = pos
      BY <1>5, <3>1
    <3>2. CASE i \in 1..Len(taken) + Len(kept)
      BY <1>1, <1>5, <3>2 DEF Accounts, RequeueAccounts
    <3>3. Len(taken) + Len(kept) \in Nat
      BY DEF TypeOK
    <3> QED
      BY <3>1, <3>2, <3>3
  <2>2. rqItems[pos] \in Range(rqItems)
    BY <1>3, RangeEquality DEF TypeOK
  <2>3. Range(taken') \union Range(kept') \subseteq Range(rqItems)
    BY <1>1, <1>5, <2>2 DEF Accounts, RequeueAccounts
  <2> QED
    BY <1>1, <1>3, <1>5, <2>1, <2>3 DEF Accounts, RequeueAccounts
<1>7. NoSilentLoss'
  BY <1>1, <1>2 DEF Accounts, NoSilentLoss, Owed, Truncated
<1> QED
  BY <1>2, <1>6, <1>7 DEF Accounts

LEMMA RequeueOpenAccounts ==
  ASSUME TypeOK, Accounts, RequeueOpen
  PROVE  Accounts'
<1>1. /\ UNCHANGED <<queue, workerVars, done, dead, exposed, accepted, rqItems, taken, kept>>
      /\ rqPc = "scan" /\ Len(taken) + Len(kept) = Len(rqItems)
      /\ rqPc' = "append" \/ (rqPc' = "rewrite" /\ taken = <<>>)
  BY DEF RequeueOpen, history
<1>2. MemoryIsQueueHead' /\ WorkersAccount' /\ InFlight' = InFlight
  BY <1>1, RequeueKeepsWorkers
<1>3. Range(rqItems) \subseteq Range(taken) \union Range(kept)
  <2>1. Range(rqItems) = {rqItems[i] : i \in 1..Len(rqItems)}
    BY RangeEquality DEF TypeOK
  <2> QED
    BY <1>1, <2>1 DEF Accounts, RequeueAccounts
<1>4. RequeueAccounts'
  BY <1>1, <1>3, RangeOfEmpty DEF Accounts, RequeueAccounts
<1>5. NoSilentLoss'
  BY <1>1, <1>2 DEF Accounts, NoSilentLoss, Owed, Truncated
<1> QED
  BY <1>2, <1>4, <1>5 DEF Accounts

(* The end of the command: the dead letters it drops are back in the       *)
(* queue, kept in its memory, or exposed. *)
LEMMA RequeueTruncateAccounts ==
  ASSUME Accounts, RequeueTruncate
  PROVE  Accounts'
<1>1. /\ UNCHANGED <<queue, workerVars, done, exposed, accepted>>
      /\ rqPc = "rewrite" /\ dead' = <<>>
      /\ \/ rqPc' = "idle" /\ kept = <<>>
         \/ rqPc' = "truncated" /\ UNCHANGED <<taken, kept>>
  BY DEF RequeueTruncate, RequeueEnd, history
<1>2. /\ MemoryIsQueueHead' /\ WorkersAccount' /\ InFlight' = InFlight
      /\ Accounted \subseteq Accounted'
  BY <1>1, RequeueKeepsWorkers
<1>3. RequeueAccounts'
  BY <1>1, <1>2, RangeOfEmpty DEF Accounts, RequeueAccounts
<1>4. Range(dead) \subseteq Accounted \union Range(kept)
  BY <1>1 DEF Accounts, RequeueAccounts, Accounted
<1>5. Range(kept) \subseteq Truncated'
  BY <1>1, RangeOfEmpty DEF Truncated
<1>6. NoSilentLoss'
  BY <1>1, <1>2, <1>4, <1>5 DEF Accounts, NoSilentLoss, Owed, Truncated, Accounted
<1> QED
  BY <1>2, <1>3, <1>6 DEF Accounts

LEMMA RequeueWriteAccounts ==
  ASSUME Accounts, RequeueWrite
  PROVE  Accounts'
<1>1. /\ UNCHANGED <<queue, workerVars, done, exposed, accepted>>
      /\ rqPc = "truncated" /\ dead' = kept /\ rqPc' = "idle"
  BY DEF RequeueWrite, RequeueEnd, history
<1>2. MemoryIsQueueHead' /\ WorkersAccount' /\ InFlight' = InFlight
  BY <1>1, RequeueKeepsWorkers
<1>3. RequeueAccounts'
  BY <1>1 DEF RequeueAccounts
<1>4. NoSilentLoss'
  BY <1>1, <1>2 DEF Accounts, RequeueAccounts, NoSilentLoss, Owed, Truncated
<1> QED
  BY <1>2, <1>3, <1>4 DEF Accounts

LEMMA RequeueCrashAccounts ==
  ASSUME Accounts, RequeueCrash
  PROVE  Accounts'
<1>1. /\ UNCHANGED <<queue, workerVars, done, dead, accepted>>
      /\ exposed \subseteq exposed' /\ rqPc' = "idle"
      /\ rqPc = "truncated" => Range(kept) \subseteq exposed'
  BY DEF RequeueCrash, RequeueEnd
<1>2. MemoryIsQueueHead' /\ WorkersAccount' /\ InFlight' = InFlight
  BY <1>1, RequeueKeepsWorkers
<1>3. RequeueAccounts'
  BY <1>1 DEF RequeueAccounts
<1>4. NoSilentLoss'
  BY <1>1, <1>2 DEF Accounts, NoSilentLoss, Owed, Truncated
<1> QED
  BY <1>2, <1>3, <1>4 DEF Accounts

(* Worker w's side of the accounts. *)
WorkerAccount(w) ==
  /\ pc[w] \in {"idle", "locked", "release"} => failed[w] = <<>>
  /\ pc[w] = "handling" => consumed[w] < Len(raw[w])
  /\ pc[w] \in {"handling", "rewrite"} =>
       /\ Len(raw[w]) <= Len(queue)
       /\ \A i \in 1..Len(raw[w]) : raw[w][i] = queue[i]
       /\ consumed[w] <= Len(raw[w])
       /\ \A i \in 1..consumed[w] : raw[w][i] \in done \union Range(failed[w])
       /\ Range(failed[w]) \subseteq Range(raw[w])
       /\ \A i \in Len(raw[w])+1..Len(queue) : queue[i] \in exposed

(* While w is past the lock the others are idle, so a step of w need only  *)
(* keep its own account. *)
LEMMA OthersIdle ==
  ASSUME TypeOK, TypeOK', LockExclusion, Accounts, NEW w \in Workers,
         pc[w] # "idle" \/ \A v \in Workers : pc[v] = "idle",
         \A v \in Workers : v # w => pc'[v] = pc[v] /\ failed'[v] = failed[v],
         WorkerAccount(w)'
  PROVE  /\ MemoryIsQueueHead' /\ WorkersAccount'
         /\ InFlight = Range(failed[w]) /\ InFlight' = Range(failed'[w])
<1>1. \A v \in Workers : v # w => pc[v] = "idle" /\ failed[v] = <<>>
  BY DEF LockExclusion, Accounts, WorkersAccount
<1>2. \A v \in Workers : v # w => pc'[v] = "idle" /\ failed'[v] = <<>>
  BY <1>1
<1>3. MemoryIsQueueHead'
  BY <1>2 DEF MemoryIsQueueHead, WorkerAccount
<1>4. WorkersAccount'
  BY <1>2 DEF WorkersAccount, WorkerAccount
<1>5. InFlight = Range(failed[w])
  BY <1>1, InFlightOfOne DEF InFlight, TypeOK
<1>6. InFlight' = Range(failed'[w])
  BY <1>2, InFlightOfOne DEF InFlight, TypeOK
<1> QED
  BY <1>3, <1>4, <1>5, <1>6

LEMMA Account ==
  ASSUME Accounts, NEW w \in Workers
  PROVE  WorkerAccount(w)
BY DEF Accounts, WorkersAccount, MemoryIsQueueHead, WorkerAccount

(* A step of w that leaves the requeue alone, and loses nothing it held.   *)
LEMMA WorkerStepAccounts ==
  ASSUME TypeOK, TypeOK', LockExclusion, Accounts, NEW w \in Workers,
         pc[w] # "idle" \/ \A v \in Workers : pc[v] = "idle",
         \A v \in Workers : v # w => pc'[v] = pc[v] /\ failed'[v] = failed[v],
         WorkerAccount(w)',
         UNCHANGED <<requeueVars, dead, accepted>>,
         done \subseteq done', exposed \subseteq exposed',
         Range(queue) \subseteq Range(queue') \union Range(failed'[w]) \union done' \union exposed',
         Range(failed[w]) \subseteq Range(queue') \union Range(failed'[w]) \union exposed'
  PROVE  Accounts'
<1>1. /\ MemoryIsQueueHead' /\ WorkersAccount'
      /\ InFlight = Range(failed[w]) /\ InFlight' = Range(failed'[w])
  BY OthersIdle
<1>2. Accounted \subseteq Accounted'
  BY <1>1 DEF Accounted
<1>3. RequeueAccounts'
  BY <1>2 DEF Accounts, RequeueAccounts, requeueVars
<1>4. NoSilentLoss'
  BY <1>1, <1>2 DEF Accounts, NoSilentLoss, Owed, Truncated, Accounted, requeueVars
<1> QED
  BY <1>1, <1>3, <1>4 DEF Accounts

LEMMA AcquireAccounts ==
  ASSUME TypeOK, TypeOK', LockExclusion, Accounts, NEW w \in Workers, Acquire(w)
  PROVE  Accounts'
<1>1. /\ UNCHANGED <<queue, failed, requeueVars, dead, accepted, done, exposed>>
      /\ pc' = [pc EXCEPT ![w] = "locked"] /\ pc[w] = "idle" /\ ~lockFile
  BY DEF Acquire, history
<1>2. \A v \in Workers : pc[v] = "idle"
  BY <1>1 DEF LockExclusion
<1>3. pc'[w] = "locked" /\ \A v \in Workers : v # w => pc'[v] = pc[v] /\ failed'[v] = failed[v]
  BY <1>1 DEF TypeOK
<1>4. failed'[w] = <<>>
  BY <1>1 DEF Accounts, WorkersAccount
<1>5. WorkerAccount(w)'
  BY <1>3, <1>4 DEF WorkerAccount
<1> QED
  BY <1>1, <1>2, <1>3, <1>5, WorkerStepAccounts

LEMMA ReadQueueAccounts ==
  ASSUME TypeOK, TypeOK', LockExclusion, Accounts, NEW w \in Workers, ReadQueue(w)
  PROVE  Accounts'
<1>1. /\ UNCHANGED <<queue, requeueVars, dead, accepted, done, exposed>>
      /\ raw' = [raw EXCEPT ![w] = queue] /\ consumed' = [consumed EXCEPT ![w] = 0]
      /\ failed' = [failed EXCEPT ![w] = <<>>] /\ pc[w] = "locked"
  BY DEF ReadQueue, history
<1>2. \/ pc' = [pc EXCEPT ![w] = "release"]
      \/ pc' = [pc EXCEPT ![w] = LoopPc(0, Len(queue))]
  BY DEF ReadQueue
<1>3. raw'[w] = queue /\ consumed'[w] = 0 /\ failed'[w] = <<>> /\ failed[w] = <<>>
  BY <1>1 DEF TypeOK, Accounts, WorkersAccount
<1>4. Len(queue) \in Nat
  BY DEF TypeOK
<1>5. \/ pc'[w] = "release"
      \/ pc'[w] = "rewrite"
      \/ pc'[w] = "handling" /\ 0 < Len(queue)
  BY <1>2, <1>4, LoopPcType DEF TypeOK
<1>6. WorkerAccount(w)'
  BY <1>1, <1>3, <1>4, <1>5, RangeOfEmpty DEF WorkerAccount
<1>7. \A v \in Workers : v # w => pc'[v] = pc[v] /\ failed'[v] = failed[v]
  BY <1>1, <1>2 DEF TypeOK
<1> QED
  BY <1>1, <1>3, <1>6, <1>7, RangeOfEmpty, WorkerStepAccounts

LEMMA HandleOkAccounts ==
  ASSUME TypeOK, TypeOK', LockExclusion, Accounts, NEW w \in Workers, HandleOk(w)
  PROVE  Accounts'
<1>1. /\ UNCHANGED <<queue, raw, failed, requeueVars, dead, accepted, exposed>>
      /\ done' = done \union {CurrentJob(w)} /\ consumed' = [consumed EXCEPT ![w] = @ + 1]
      /\ pc' = [pc EXCEPT ![w] = LoopPc(consumed[w] + 1, Len(raw[w]))]
      /\ pc[w] = "handling"
  BY DEF HandleOk, history
<1>2. WorkerAccount(w)
  BY Account
<1>3. Len(raw[w]) \in Nat /\ consumed[w] \in Nat /\ consumed'[w] = consumed[w] + 1
  BY <1>1 DEF TypeOK
<1>4. /\ pc'[w] \in {"handling", "rewrite"}
      /\ pc'[w] = "handling" => consumed'[w] < Len(raw[w])
  BY <1>1, <1>3, LoopPcType DEF TypeOK
<1>5. ASSUME NEW i \in 1..consumed'[w] PROVE raw[w][i] \in done' \union Range(failed[w])
  <2>1. i \in 1..consumed[w] \/ i = consumed[w] + 1
    BY <1>3
  <2> QED
    BY <1>1, <1>2, <2>1 DEF WorkerAccount, CurrentJob
<1>6. WorkerAccount(w)'
  BY <1>1, <1>2, <1>3, <1>4, <1>5 DEF WorkerAccount
<1>7. \A v \in Workers : v # w => pc'[v] = pc[v] /\ failed'[v] = failed[v]
  BY <1>1 DEF TypeOK
<1> QED
  BY <1>1, <1>6, <1>7, WorkerStepAccounts

LEMMA HandleFailsAccounts ==
  ASSUME TypeOK, TypeOK', LockExclusion, Accounts, NEW w \in Workers, HandleFails(w)
  PROVE  Accounts'
<1>1. /\ UNCHANGED <<queue, raw, requeueVars, dead, accepted, done, exposed>>
      /\ pc[w] = "handling"
  BY DEF HandleFails, history
<1>2. WorkerAccount(w)
  BY Account
<1>3. /\ Len(raw[w]) \in Nat /\ consumed[w] \in Nat
      /\ raw[w] \in Seq(Jobs) /\ failed[w] \in Seq(Jobs)
  BY DEF TypeOK
<1>4. consumed[w] + 1 \in 1..Len(raw[w])
  BY <1>1, <1>2, <1>3 DEF WorkerAccount
<1>5. CurrentJob(w) \in Jobs /\ CurrentJob(w) \in Range(raw[w])
  BY <1>3, <1>4, ElementOfSeq, RangeEquality DEF CurrentJob
<1>6. \A v \in Workers : v # w => pc'[v] = pc[v] /\ failed'[v] = failed[v]
  BY DEF HandleFails, TypeOK
<1>7. CASE FailureMode = "dead_letter"
  <2>1. /\ failed'[w] = Append(failed[w], CurrentJob(w))
        /\ consumed'[w] = consumed[w] + 1
        /\ pc'[w] = LoopPc(consumed[w] + 1, Len(raw[w]))
    BY <1>7 DEF HandleFails, TypeOK
  <2>2. Range(failed'[w]) = Range(failed[w]) \union {CurrentJob(w)}
    BY <1>3, <1>5, <2>1, RangeOfAppend
  <2>3. /\ pc'[w] \in {"handling", "rewrite"}
        /\ pc'[w] = "handling" => consumed'[w] < Len(raw[w])
    BY <1>3, <2>1, LoopPcType
  <2>4. ASSUME NEW i \in 1..consumed'[w] PROVE raw[w][i] \in done \union Range(failed'[w])
    <3>1. i \in 1..consumed[w] \/ i = consumed[w] + 1
      BY <1>3, <2>1
    <3> QED
      BY <1>1, <1>2, <2>2, <3>1 DEF WorkerAccount, CurrentJob
  <2>5. consumed'[w] <= Len(raw[w])
    BY <1>3, <1>4, <2>1
  <2>6. WorkerAccount(w)'
    BY <1>1, <1>2, <1>5, <2>2, <2>3, <2>4, <2>5 DEF WorkerAccount
  <2> QED
    BY <1>1, <1>6, <2>2, <2>6, WorkerStepAccounts
<1>8. CASE FailureMode = "stop"
  <2>1. UNCHANGED <<failed, consumed>> /\ pc'[w] = "rewrite"
    BY <1>8 DEF HandleFails, TypeOK
  <2>2. WorkerAccount(w)'
    BY <1>1, <1>2, <2>1 DEF WorkerAccount
  <2> QED
    BY <1>1, <1>6, <2>1, <2>2, WorkerStepAccounts
<1> QED
  BY <1>7, <1>8 DEF HandleFails

(* What w is handling comes from the queue file, where it still is. *)
LEMMA CurrentJobQueued ==
  ASSUME TypeOK, NEW w \in Workers, WorkerAccount(w), pc[w] = "handling"
  PROVE  CurrentJob(w) \in Jobs /\ CurrentJob(w) \in Range(queue)
<1>1. /\ raw[w] \in Seq(Jobs) /\ Len(raw[w]) \in Nat /\ consumed[w] \in Nat
      /\ queue \in Seq(Jobs) /\ Len(queue) \in Nat
  BY DEF TypeOK
<1>2. consumed[w] + 1 \in 1..Len(raw[w]) /\ consumed[w] + 1 \in 1..Len(queue)
  BY <1>1 DEF WorkerAccount
<1>3. CurrentJob(w) = queue[consumed[w] + 1]
  BY <1>2 DEF WorkerAccount, CurrentJob
<1> QED
  BY <1>1, <1>2, <1>3, ElementOfSeq, RangeEquality

(* The rewrite drops the lines w consumed and those it never read. *)
LEMMA RewriteRange ==
  ASSUME TypeOK, NEW w \in Workers, WorkerAccount(w), Rewrite(w)
  PROVE  /\ Range(queue') \subseteq Range(queue)
         /\ Range(queue) \subseteq Range(queue') \union Range(failed[w]) \union done \union exposed
<1>1. /\ pc[w] = "rewrite"
      /\ queue' = SubSeq(raw[w], consumed[w] + 1, Len(raw[w]))
  BY DEF Rewrite, RewriteFrom
<1>2. /\ raw[w] \in Seq(Jobs) /\ Len(raw[w]) \in Nat /\ consumed[w] \in Nat
      /\ consumed[w] <= Len(raw[w]) /\ queue \in Seq(Jobs) /\ Len(queue) \in Nat
      /\ Len(raw[w]) <= Len(queue)
  BY <1>1 DEF TypeOK, WorkerAccount
<1>3. Range(queue') = {raw[w][i] : i \in consumed[w]+1..Len(raw[w])}
  <2>1. consumed[w] + 1 \in 1..Len(raw[w])+1
    BY <1>2
  <2> QED
    BY <1>1, <1>2, <2>1, RangeOfSuffix
<1>4. ASSUME NEW i \in 1..Len(queue)
      PROVE  queue[i] \in Range(queue') \union Range(failed[w]) \union done \union exposed
  <2>1. CASE i \in 1..consumed[w]
    <3>1. raw[w][i] = queue[i] /\ raw[w][i] \in done \union Range(failed[w])
      BY <1>1, <1>2, <2>1 DEF WorkerAccount
    <3> QED
      BY <3>1
  <2>2. CASE i \in consumed[w]+1..Len(raw[w])
    <3>1. raw[w][i] = queue[i]
      BY <1>1, <1>2, <2>2 DEF WorkerAccount
    <3> QED
      BY <1>3, <2>2, <3>1
  <2>3. CASE i \in Len(raw[w])+1..Len(queue)
    BY <1>1, <2>3 DEF WorkerAccount
  <2> QED
    BY <1>2, <2>1, <2>2, <2>3
<1>5. Range(queue) = {queue[i] : i \in 1..Len(queue)}
  BY <1>2, RangeEquality
<1>6. ASSUME NEW i \in consumed[w]+1..Len(raw[w]) PROVE raw[w][i] \in Range(queue)
  <2>1. raw[w][i] = queue[i] /\ i \in 1..Len(queue)
    BY <1>1, <1>2 DEF WorkerAccount
  <2> QED
    BY <1>5, <2>1
<1> QED
  BY <1>3, <1>4, <1>5, <1>6

LEMMA RewriteAccounts ==
  ASSUME TypeOK, TypeOK', LockExclusion, Accounts, NEW w \in Workers, Rewrite(w)
  PROVE  Accounts'
<1>1. /\ UNCHANGED <<failed, requeueVars, dead, accepted, done, exposed>>
      /\ pc[w] = "rewrite"
      /\ pc' = [pc EXCEPT ![w] = IF failed[w] = <<>> THEN "release" ELSE "record"]
  BY DEF Rewrite, RewriteFrom, history
<1>2. WorkerAccount(w)
  BY Account
<1>3. Range(queue) \subseteq Range(queue') \union Range(failed'[w]) \union done' \union exposed'
  BY <1>1, <1>2, RewriteRange
<1>4. /\ \A v \in Workers : v # w => pc'[v] = pc[v] /\ failed'[v] = failed[v]
      /\ pc'[w] = IF failed[w] = <<>> THEN "release" ELSE "record"
  BY <1>1 DEF TypeOK
<1>5. WorkerAccount(w)'
  BY <1>1, <1>4 DEF WorkerAccount
<1> QED
  BY <1>1, <1>3, <1>4, <1>5, WorkerStepAccounts

(* Failures move to the dead letters, exposed if a requeue is under way.   *)
LEMMA RecordFailuresAccounts ==
  ASSUME TypeOK, TypeOK', LockExclusion, Accounts, NEW w \in Workers, RecordFailures(w)
  PROVE  Accounts'
<1>1. /\ UNCHANGED <<queue, requeueVars, accepted, done>>
      /\ pc[w] = "record" /\ dead' = dead \o failed[w]
      /\ exposed' = IF RequeueActive THEN exposed \union Range(failed[w]) ELSE exposed
      /\ failed' = [failed EXCEPT ![w] = <<>>] /\ pc' = [pc EXCEPT ![w] = "release"]
  BY DEF RecordFailures
<1>2. /\ \A v \in Workers : v # w => pc'[v] = pc[v] /\ failed'[v] = failed[v]
      /\ pc'[w] = "release" /\ failed'[w] = <<>>
  BY <1>1 DEF TypeOK
<1>3. WorkerAccount(w)'
  BY <1>2 DEF WorkerAccount
<1>4. /\ MemoryIsQueueHead' /\ WorkersAccount'
      /\ InFlight = Range(failed[w]) /\ InFlight' = {}
  BY <1>1, <1>2, <1>3, OthersIdle, RangeOfEmpty
<1>5. Range(dead') = Range(dead) \union Range(failed[w])
  BY <1>1, RangeConcatenation DEF TypeOK
<1>6. CASE RequeueActive
  <2>1. exposed' = exposed \union Range(failed[w])
    BY <1>1, <1>6
  <2>2. Accounted \subseteq Accounted'
    BY <1>1, <1>4, <2>1 DEF Accounted
  <2>3. RequeueAccounts'
    BY <1>1, <1>5, <2>1, <2>2 DEF Accounts, RequeueAccounts, requeueVars
  <2>4. NoSilentLoss'
    BY <1>1, <1>4, <1>5, <2>1 DEF Accounts, NoSilentLoss, Owed, Truncated, requeueVars
  <2> QED
    BY <1>4, <2>3, <2>4 DEF Accounts
<1>7. CASE ~RequeueActive
  <2>1. RequeueAccounts'
    BY <1>1, <1>7 DEF RequeueActive, RequeueAccounts, requeueVars
  <2>2. NoSilentLoss'
    BY <1>1, <1>4, <1>5, <1>7 DEF Accounts, NoSilentLoss, Owed, Truncated, requeueVars
  <2> QED
    BY <1>4, <2>1, <2>2 DEF Accounts
<1> QED
  BY <1>6, <1>7

(* However a worker ends, its failures are still in the queue or exposed.  *)
LEMMA ForgetRange ==
  ASSUME TypeOK, NEW w \in Workers, WorkerAccount(w), Forget(w)
  PROVE  Range(failed[w]) \subseteq Range(queue) \union exposed'
<1>1. CASE pc[w] = "record"
  BY <1>1 DEF Forget
<1>2. CASE pc[w] \in {"idle", "locked", "release"}
  BY <1>2, RangeOfEmpty DEF WorkerAccount
<1>3. CASE pc[w] \in {"handling", "rewrite"}
  <2>1. /\ Len(raw[w]) \in Nat /\ Len(queue) \in Nat /\ raw[w] \in Seq(Jobs)
        /\ queue \in Seq(Jobs)
    BY DEF TypeOK
  <2>2. /\ Range(raw[w]) = {raw[w][i] : i \in 1..Len(raw[w])}
        /\ Range(queue) = {queue[i] : i \in 1..Len(queue)}
    BY <2>1, RangeEquality
  <2>3. \A i \in 1..Len(raw[w]) : raw[w][i] = queue[i] /\ i \in 1..Len(queue)
    BY <1>3, <2>1 DEF WorkerAccount
  <2>4. Range(failed[w]) \subseteq Range(raw[w])
    BY <1>3 DEF WorkerAccount
  <2> QED
    BY <2>2, <2>3, <2>4
<1> QED
  BY <1>1, <1>2, <1>3 DEF TypeOK, WorkerPcs

LEMMA ForgetAccounts ==
  ASSUME TypeOK, TypeOK', LockExclusion, Accounts, NEW w \in Workers,
         pc[w] # "idle", Forget(w)
  PROVE  Accounts'
<1>1. /\ UNCHANGED <<queue, requeueVars, dead, accepted, done>>
      /\ pc' = [pc EXCEPT ![w] = "idle"] /\ failed' = [failed EXCEPT ![w] = <<>>]
      /\ exposed' = IF pc[w] = "record" THEN exposed \union Range(failed[w]) ELSE exposed
  BY DEF Forget
<1>2. /\ \A v \in Workers : v # w => pc'[v] = pc[v] /\ failed'[v] = failed[v]
      /\ pc'[w] = "idle" /\ failed'[w] = <<>>
  BY <1>1 DEF TypeOK
<1>3. WorkerAccount(w)'
  BY <1>2 DEF WorkerAccount
<1>4. Range(failed[w]) \subseteq Range(queue') \union exposed'
  BY <1>1, Account, ForgetRange
<1>5. exposed \subseteq exposed'
  BY <1>1
<1> QED
  BY <1>1, <1>2, <1>3, <1>4, <1>5, WorkerStepAccounts

LEMMA AccountsInit == Init => Accounts
<1> SUFFICES ASSUME Init PROVE Accounts
  OBVIOUS
<1>1. MemoryIsQueueHead /\ WorkersAccount
  BY DEF Init, MemoryIsQueueHead, WorkersAccount
<1>2. RequeueAccounts /\ NoSilentLoss
  BY DEF Init, RequeueAccounts, NoSilentLoss
<1> QED
  BY <1>1, <1>2 DEF Accounts

LEMMA AccountsNext ==
  TypeOK /\ TypeOK' /\ LockExclusion /\ Accounts /\ [Next]_vars => Accounts'
<1> SUFFICES ASSUME TypeOK, TypeOK', LockExclusion, Accounts, [Next]_vars PROVE Accounts'
  OBVIOUS
<1>1. ASSUME UNCHANGED <<queue, dead, workerVars, requeueVars, history>> PROVE Accounts'
  BY <1>1 DEF Accounts, MemoryIsQueueHead, WorkersAccount, RequeueAccounts, NoSilentLoss,
     Owed, InFlight, Truncated, Accounted, workerVars, requeueVars, history
<1>2. CASE \E p \in Producers, j \in Jobs : OpenQueue(p, j)
  BY <1>1, <1>2 DEF OpenQueue
<1>3. CASE \E p \in Producers, j \in Jobs : AppendJob(p, j)
  BY <1>3, AppendJobAccounts
<1>4. ASSUME NEW w \in Workers, Acquire(w) \/ WorkerStep(w) \/ Abort(w) \/ Crash(w)
      PROVE  Accounts'
  BY <1>4, AcquireAccounts, ReadQueueAccounts, HandleOkAccounts, HandleFailsAccounts,
     RewriteAccounts, RecordFailuresAccounts, ForgetAccounts
  DEF WorkerStep, Release, Abort, Crash
<1>5. CASE RemoveStaleLock
  BY <1>1, <1>5 DEF RemoveStaleLock
<1>6. CASE (\E args \in RequeueArgs : RequeueLoad(args)) \/ RequeueStep \/ RequeueCrash
  BY <1>6, RequeueLoadAccounts, RequeueScanAccounts, RequeueOpenAccounts,
     RequeueAppendAccounts, RequeueTruncateAccounts, RequeueWriteAccounts,
     RequeueCrashAccounts DEF RequeueStep
<1>7. CASE UNCHANGED vars
  BY <1>1, <1>7 DEF vars
<1> QED
  BY <1>2, <1>3, <1>4, <1>5, <1>6, <1>7 DEF Next

(* The inductive invariant of the queue. *)
THEOREM Invariant == Spec => []IInv
<1>1. TypeOK /\ LockExclusion /\ Accounts => IInv
  BY DEF IInv, Accounts
<1> QED
  BY <1>1, AccountsInit, AccountsNext, TypeCorrect, MutualExclusion, PTL DEF Spec

(* A job that some stop, ingest-watch or backfill queued is never lost     *)
(* silently: for any number of jobs, workers and producers, either failure *)
(* mode, any batch size and any crashes, a job that is neither done nor in *)
(* a file or a command's memory went through one of the unlocked windows.  *)
THEOREM NothingLostSilently == Spec => []NoSilentLoss
<1>1. IInv => NoSilentLoss
  BY DEF IInv
<1> QED
  BY <1>1, Invariant, PTL

(* What a worker rewrites is still the head of the queue file.             *)
THEOREM MemoryStaysCurrent == Spec => []MemoryIsQueueHead
<1>1. IInv => MemoryIsQueueHead
  BY DEF IInv
<1> QED
  BY <1>1, Invariant, PTL

-----------------------------------------------------------------------------
(* Stop mode.                                                              *)

(* No worker ever collects a failure: stop mode leaves the line queued.    *)
NoneCollected == \A w \in Workers : failed[w] = <<>>

LEMMA NoneCollectedNext ==
  ASSUME FailureMode = "stop", TypeOK, NoneCollected, [Next]_vars
  PROVE  NoneCollected'
<1> USE DEF NoneCollected
<1>1. ASSUME UNCHANGED failed PROVE NoneCollected'
  BY <1>1
<1>2. ASSUME NEW w \in Workers, WorkerStep(w) \/ Forget(w) PROVE NoneCollected'
  <2>1. failed' = failed \/ failed' = [failed EXCEPT ![w] = <<>>]
    BY <1>2 DEF WorkerStep, ReadQueue, HandleOk, HandleFails, Rewrite, RewriteFrom,
       RecordFailures, Release, Forget
  <2> QED
    BY <2>1 DEF TypeOK
<1>3. ASSUME NEW w \in Workers, Acquire(w) PROVE NoneCollected'
  BY <1>1, <1>3 DEF Acquire
<1>4. CASE \E p \in Producers, j \in Jobs : OpenQueue(p, j) \/ AppendJob(p, j)
  BY <1>1, <1>4 DEF OpenQueue, AppendJob, workerVars
<1>5. CASE \/ RemoveStaleLock \/ RequeueStep \/ RequeueCrash \/ UNCHANGED vars
           \/ \E args \in RequeueArgs : RequeueLoad(args)
  <2>1. UNCHANGED workerVars
    BY <1>5 DEF RemoveStaleLock, RequeueLoad, RequeueStep, RequeueScan, RequeueOpen,
       RequeueAppend, RequeueTruncate, RequeueWrite, RequeueCrash, vars
  <2> QED
    BY <1>1, <2>1 DEF workerVars
<1> QED
  BY <1>2, <1>3, <1>4, <1>5 DEF Next, Abort, Crash

(* In stop mode a worker completes a job only when every line of the queue *)
(* file before it is done, whatever other producers, workers, requeues and *)
(* crashes do: a job that fails holds back all those behind it.            *)
THEOREM StopModeInOrder ==
  ASSUME FailureMode = "stop"
  PROVE  Spec => StopModeKeepsOrder
<1>1. Init => NoneCollected
  BY DEF Init, NoneCollected
<1>2. TypeOK /\ NoneCollected /\ [Next]_vars => NoneCollected'
  BY NoneCollectedNext
<1>3. IInv /\ NoneCollected =>
        \A w \in Workers : HandleOk(w) => \A i \in 1..consumed[w] : queue[i] \in done
  <2> SUFFICES ASSUME IInv, NoneCollected, NEW w \in Workers, HandleOk(w),
                      NEW i \in 1..consumed[w]
               PROVE  queue[i] \in done
    OBVIOUS
  <2>1. pc[w] = "handling" /\ failed[w] = <<>>
    BY DEF HandleOk, NoneCollected
  <2>2. /\ consumed[w] \in Nat /\ Len(raw[w]) \in Nat
        /\ consumed[w] <= Len(raw[w])
        /\ raw[w][i] \in done \union Range(failed[w])
    BY <2>1 DEF IInv, TypeOK, WorkersAccount
  <2>3. i \in 1..Len(raw[w])
    BY <2>2
  <2>4. raw[w][i] = queue[i]
    BY <2>1, <2>3 DEF IInv, MemoryIsQueueHead
  <2> QED
    BY <2>1, <2>2, <2>4, RangeOfEmpty
<1>4. Spec => []NoneCollected
  BY <1>1, <1>2, TypeCorrect, PTL DEF Spec
<1> QED
  BY <1>3, <1>4, Invariant, PTL DEF StopModeKeepsOrder, Spec

-----------------------------------------------------------------------------
(* Nothing is processed twice.                                             *)

Distinct(s) == \A i, k \in 1..Len(s) : s[i] = s[k] => i = k

(* Lines of the queue file some worker has taken in hand already, and will *)
(* drop when it rewrites the file. *)
Handled(i) == \E w \in Workers : pc[w] \in {"handling", "rewrite"} /\ i <= consumed[w]

(* Jobs a file, a command's memory or the log knows of. *)
Known ==
  Range(queue) \union Range(dead) \union InFlight \union done
    \union Range(rqItems) \union Range(taken) \union Range(kept)

(* What a producer is about to append, nobody has seen.                    *)
Fresh ==
  /\ \A p, q \in Producers : p # q => sending[p] \intersect sending[q] = {}
  /\ \A p \in Producers : sending[p] \intersect accepted = {}
  /\ Known \subseteq accepted

(* A job is on one line of the queue file; one that is done or collected   *)
(* as a failure is on none, but for the lines in hand.                     *)
Pending ==
  /\ Distinct(queue)
  /\ \A i \in 1..Len(queue) : queue[i] \in done \union InFlight => Handled(i)
  /\ \A w \in Workers : Distinct(failed[w]) /\ Range(failed[w]) \intersect done = {}

(* The dead letters; once a requeue has read them, what it read; once it   *)
(* has put some back, those it keeps.                                      *)
Aside == IF rqPc = "idle" THEN dead
         ELSE IF rqPc \in {"scan", "append"} THEN rqItems ELSE kept

(* A job that is set aside is there once and nowhere else.                 *)
SetAside ==
  /\ Distinct(Aside)
  /\ Range(Aside) \intersect (Range(queue) \union done \union InFlight) = {}
  /\ rqPc \in {"scan", "append"} =>
       /\ Distinct(taken) /\ Distinct(kept) /\ Range(taken) \intersect Range(kept) = {}
       /\ \A x \in Range(taken) \union Range(kept) :
            \E i \in 1..Len(taken) + Len(kept) : rqItems[i] = x

Once == Fresh /\ Pending /\ SetAside

(* Sequences without repetition. *)
LEMMA DistinctEmpty == Distinct(<<>>)
BY DEF Distinct

LEMMA DistinctAppend ==
  ASSUME NEW S, NEW s \in Seq(S), NEW e \in S, Distinct(s), e \notin Range(s)
  PROVE  Distinct(Append(s, e))
<1>1. /\ Len(Append(s, e)) = Len(s) + 1 /\ Len(s) \in Nat
      /\ \A i \in 1..Len(s) : Append(s, e)[i] = s[i] /\ s[i] # e
      /\ Append(s, e)[Len(s)+1] = e
  BY AppendProperties, RangeEquality
<1> QED
  BY <1>1 DEF Distinct

LEMMA DistinctConcat ==
  ASSUME NEW S, NEW s \in Seq(S), NEW t \in Seq(S), Distinct(s), Distinct(t),
         Range(s) \intersect Range(t) = {}
  PROVE  Distinct(s \o t)
<1>1. /\ Len(s \o t) = Len(s) + Len(t) /\ Len(s) \in Nat /\ Len(t) \in Nat
      /\ \A i \in 1..Len(s) + Len(t) :
           (s \o t)[i] = IF i <= Len(s) THEN s[i] ELSE t[i - Len(s)]
  BY ConcatProperties
<1>2. \A i \in 1..Len(s), k \in 1..Len(t) : s[i] # t[k]
  BY RangeEquality
<1> SUFFICES ASSUME NEW i \in 1..Len(s \o t), NEW k \in 1..Len(s \o t), (s \o t)[i] = (s \o t)[k]
             PROVE  i = k
  BY DEF Distinct
<1>3. CASE i <= Len(s) /\ k <= Len(s)
  BY <1>1, <1>3 DEF Distinct
<1>4. CASE i > Len(s) /\ k > Len(s)
  <2>1. i - Len(s) \in 1..Len(t) /\ k - Len(s) \in 1..Len(t) /\ t[i - Len(s)] = t[k - Len(s)]
    BY <1>1, <1>4
  <2>2. i - Len(s) = k - Len(s)
    BY <2>1 DEF Distinct
  <2> QED
    BY <1>1, <2>2
<1>5. CASE i <= Len(s) /\ k > Len(s)
  BY <1>1, <1>2, <1>5
<1>6. CASE i > Len(s) /\ k <= Len(s)
  BY <1>1, <1>2, <1>6
<1> QED
  BY <1>1, <1>3, <1>4, <1>5, <1>6

LEMMA OnceInit == Init => Once
<1> SUFFICES ASSUME Init PROVE Once
  OBVIOUS
<1>1. InFlight = {} /\ Range(queue) = {} /\ Range(dead) = {}
  BY RangeOfEmpty DEF Init, InFlight
<1>2. Known = {}
  BY <1>1, RangeOfEmpty DEF Init, Known
<1> QED
  BY <1>1, <1>2, DistinctEmpty, RangeOfEmpty DEF Init, Once, Fresh, Pending, SetAside, Aside

-----------------------------------------------------------------------------
(* Steps of the producers and of failed-jobs-requeue. *)

LEMMA OthersSame ==
  ASSUME UNCHANGED <<workerVars, done>>
  PROVE  InFlight' = InFlight /\ \A i : Handled(i)' <=> Handled(i)
BY DEF InFlight, Handled, workerVars

(* Jobs that are new to the queue, the log and the failures are appended.  *)
LEMMA FlushOnce ==
  ASSUME TypeOK, Pending, UNCHANGED <<workerVars, done>>,
         NEW a \in Appenders, NEW jobs \in Seq(Jobs), Flush(a, jobs), Distinct(jobs),
         Range(jobs) \intersect (Range(queue) \union done \union InFlight) = {}
  PROVE  Pending' /\ Range(queue') \subseteq Range(queue) \union Range(jobs)
<1>1. InFlight' = InFlight /\ \A i : Handled(i)' <=> Handled(i)
  BY OthersSame
<1>2. queue \in Seq(Jobs)
  BY DEF TypeOK
<1>3. CASE queue' = queue
  BY <1>1, <1>3 DEF Pending, workerVars
<1>4. CASE queue' = queue \o jobs
  <2>1. Distinct(queue') /\ Range(queue') = Range(queue) \union Range(jobs)
    BY <1>2, <1>4, DistinctConcat, RangeConcatenation DEF Pending
  <2>2. ASSUME NEW i \in 1..Len(queue'), queue'[i] \in done \union InFlight PROVE Handled(i)
    <3>1. /\ Len(queue') = Len(queue) + Len(jobs) /\ Len(queue) \in Nat /\ Len(jobs) \in Nat
          /\ queue'[i] = IF i <= Len(queue) THEN queue[i] ELSE jobs[i - Len(queue)]
      BY <1>2, <1>4, ConcatProperties
    <3>2. CASE i <= Len(queue)
      BY <2>2, <3>1, <3>2 DEF Pending
    <3>3. CASE i > Len(queue)
      <4>1. queue'[i] \in Range(jobs)
        BY <3>1, <3>3, RangeEquality
      <4> QED
        BY <2>2, <4>1
    <3> QED
      BY <3>1, <3>2, <3>3
  <2> QED
    BY <1>1, <2>1, <2>2 DEF Pending, workerVars
<1> QED
  BY <1>3, <1>4 DEF Flush

LEMMA OpenOnce ==
  ASSUME TypeOK, Once, NEW p \in Producers, NEW j \in Jobs, OpenQueue(p, j)
  PROVE  Once'
<1>1. /\ UNCHANGED <<queue, dead, workerVars, requeueVars, history>>
      /\ InFlight' = InFlight /\ \A i : Handled(i)' <=> Handled(i)
  BY OthersSame DEF OpenQueue, history
<1>2. Pending' /\ SetAside'
  BY <1>1 DEF Once, Pending, SetAside, Aside, history, workerVars, requeueVars
<1>3. Known' = Known
  BY <1>1 DEF Known, history, requeueVars
<1>4. Fresh'
  BY <1>1, <1>3 DEF OpenQueue, Once, Fresh, TypeOK, history
<1> QED
  BY <1>2, <1>4 DEF Once

LEMMA AppendOnce ==
  ASSUME TypeOK, Once, NEW p \in Producers, NEW j \in Jobs, AppendJob(p, j)
  PROVE  Once'
<1>1. /\ UNCHANGED <<dead, workerVars, requeueVars, done>> /\ Flush(p, <<j>>)
      /\ <<j>> \in Seq(Jobs) /\ p \in Appenders /\ j \in sending[p]
      /\ sending' = [sending EXCEPT ![p] = {}] /\ accepted' = accepted \union {j}
  BY DEF AppendJob, Appenders
<1>2. InFlight' = InFlight
  BY <1>1, OthersSame
<1>3. j \notin Known /\ Range(<<j>>) = {j} /\ Distinct(<<j>>)
  <2>1. Distinct(<<j>>)
    BY DEF Distinct
  <2> QED
    BY <1>1, <2>1, RangeOfSingleton DEF Once, Fresh
<1>4. Pending' /\ Range(queue') \subseteq Range(queue) \union {j}
  <2>1. Range(<<j>>) \intersect (Range(queue) \union done \union InFlight) = {}
    BY <1>3 DEF Known
  <2>2. Pending' /\ Range(queue') \subseteq Range(queue) \union Range(<<j>>)
    BY <1>1, <1>3, <2>1, FlushOnce DEF Once
  <2> QED
    BY <1>3, <2>2
<1>5. Known' \subseteq Known \union {j}
  BY <1>1, <1>2, <1>4 DEF Known, requeueVars
<1>6. Fresh'
  BY <1>1, <1>5 DEF Once, Fresh, TypeOK
<1>7. Range(Aside) \subseteq Known
  BY DEF Aside, Known
<1>8. Aside' = Aside
  BY <1>1 DEF Aside, requeueVars
<1>9. SetAside'
  BY <1>1, <1>2, <1>3, <1>4, <1>7, <1>8 DEF Once, SetAside, requeueVars
<1> QED
  BY <1>4, <1>6, <1>9 DEF Once

(* Steps of the requeue that leave the queue alone: they may only look     *)
(* after what is set aside. *)
LEMMA RequeueOnce ==
  ASSUME Once, UNCHANGED <<queue, sending, workerVars, history>>, SetAside',
         Range(dead') \union Range(rqItems') \union Range(taken') \union Range(kept')
           \subseteq Known
  PROVE  Once'
<1>1. InFlight' = InFlight /\ \A i : Handled(i)' <=> Handled(i)
  BY OthersSame DEF history
<1>2. Pending'
  BY <1>1 DEF Once, Pending, history, workerVars
<1>3. Known' \subseteq Known
  BY <1>1 DEF Known, history
<1> QED
  BY <1>2, <1>3 DEF Once, Fresh, history

LEMMA LoadOnce ==
  ASSUME TypeOK, Once, NEW args \in RequeueArgs, RequeueLoad(args)
  PROVE  Once'
<1>1. /\ UNCHANGED <<queue, dead, sending, workerVars, history>>
      /\ rqPc = "idle" /\ rqPc' = "scan" /\ rqItems' = dead /\ taken' = <<>> /\ kept' = <<>>
  BY DEF RequeueLoad
<1>2. Aside = dead /\ Aside' = dead /\ InFlight' = InFlight
  BY <1>1, OthersSame DEF Aside, history
<1>3. SetAside'
  BY <1>1, <1>2, RangeOfEmpty, DistinctEmpty DEF Once, SetAside, history
<1> QED
  BY <1>1, <1>3, RequeueOnce, RangeOfEmpty DEF Known

LEMMA ScanOnce ==
  ASSUME TypeOK, RequeueAccounts, Once, RequeueScan
  PROVE  Once'
<1> DEFINE n == Len(taken) + Len(kept)
           item == rqItems[n + 1]
<1>1. /\ UNCHANGED <<queue, dead, sending, workerVars, history, rqPc, rqItems>>
      /\ rqPc = "scan" /\ n + 1 <= Len(rqItems)
  BY DEF RequeueScan
<1>2. /\ taken \in Seq(Jobs) /\ kept \in Seq(Jobs) /\ rqItems \in Seq(Jobs)
      /\ Len(taken) \in Nat /\ Len(kept) \in Nat /\ n \in Nat /\ Len(rqItems) \in Nat
  BY DEF TypeOK
<1>3. n + 1 \in 1..Len(rqItems) /\ item \in Jobs /\ item \in Range(rqItems)
  <2>1. n + 1 \in 1..Len(rqItems)
    BY <1>1, <1>2
  <2> QED
    BY <1>2, <2>1, ElementOfSeq, RangeEquality
<1>4. Aside = rqItems /\ Aside' = rqItems /\ InFlight' = InFlight
  BY <1>1, OthersSame DEF Aside, history
<1>5. item \notin Range(taken) \union Range(kept)
  <2> SUFFICES ASSUME NEW i \in 1..n, rqItems[i] = item PROVE FALSE
    BY <1>1 DEF Once, SetAside
  <2>1. i \in 1..Len(rqItems)
    BY <1>1, <1>2
  <2>2. i = n + 1
    BY <1>3, <1>4, <2>1 DEF Once, SetAside, Distinct
  <2> QED
    BY <1>2, <2>2
<1>6. \/ /\ taken' = Append(taken, item) /\ kept' = kept
         /\ Len(taken') = Len(taken) + 1 /\ Len(kept') = Len(kept)
         /\ Range(taken') = Range(taken) \union {item}
      \/ /\ taken' = taken /\ kept' = Append(kept, item)
         /\ Len(taken') = Len(taken) /\ Len(kept') = Len(kept) + 1
         /\ Range(kept') = Range(kept) \union {item}
  <2>1. \/ taken' = Append(taken, item) /\ kept' = kept
        \/ taken' = taken /\ kept' = Append(kept, item)
    BY DEF RequeueScan
  <2>2. /\ Len(Append(taken, item)) = Len(taken) + 1
        /\ Range(Append(taken, item)) = Range(taken) \union {item}
        /\ Len(Append(kept, item)) = Len(kept) + 1
        /\ Range(Append(kept, item)) = Range(kept) \union {item}
    BY <1>2, <1>3, AppendProperties, RangeOfAppend
  <2> QED
    BY <2>1, <2>2
<1>7. Distinct(taken') /\ Distinct(kept')
  <2>1. Distinct(taken) /\ Distinct(kept)
    BY <1>1 DEF Once, SetAside
  <2>2. Distinct(Append(taken, item)) /\ Distinct(Append(kept, item))
    BY <1>2, <1>3, <1>5, <2>1, DistinctAppend
  <2> QED
    BY <1>6, <2>1, <2>2
<1>8. Range(taken') \intersect Range(kept') = {}
  <2>1. Range(taken) \intersect Range(kept) = {}
    BY <1>1 DEF Once, SetAside
  <2> QED
    BY <1>5, <1>6, <2>1
<1>9. ASSUME NEW x \in Range(taken') \union Range(kept')
      PROVE  \E i \in 1..Len(taken') + Len(kept') : rqItems'[i] = x
  <2>1. Len(taken') + Len(kept') = n + 1
    <3>1. \/ Len(taken') = Len(taken) + 1 /\ Len(kept') = Len(kept)
          \/ Len(taken') = Len(taken) /\ Len(kept') = Len(kept) + 1
      BY <1>6
    <3> QED
      BY <1>2, <3>1
  <2>2. CASE x = item
    BY <1>1, <1>2, <2>1, <2>2
  <2>3. CASE x \in Range(taken) \union Range(kept)
    <3>1. PICK i \in 1..n : rqItems[i] = x
      BY <1>1, <2>3 DEF Once, SetAside
    <3> QED
      BY <1>1, <1>2, <2>1, <3>1
  <2> QED
    BY <1>6, <2>2, <2>3
<1>10. SetAside'
  BY <1>1, <1>4, <1>7, <1>8, <1>9 DEF Once, SetAside, history
<1>11. Range(taken') \union Range(kept') \subseteq Range(taken) \union Range(kept) \union {item}
  BY <1>6
<1> QED
  BY <1>1, <1>3, <1>10, <1>11, RequeueOnce DEF Known

LEMMA RequeueOpenOnce ==
  ASSUME RequeueAccounts, Once, RequeueOpen
  PROVE  Once'
<1>1. /\ UNCHANGED <<queue, dead, sending, workerVars, history, rqItems, taken, kept>>
      /\ rqPc = "scan" /\ rqPc' \in {"append", "rewrite"}
  BY DEF RequeueOpen
<1>2. InFlight' = InFlight /\ Range(kept) \subseteq Range(rqItems)
  BY <1>1, OthersSame DEF RequeueAccounts, history
<1>3. /\ Distinct(rqItems) /\ Distinct(taken) /\ Distinct(kept)
      /\ Range(taken) \intersect Range(kept) = {}
      /\ Range(rqItems) \intersect (Range(queue) \union done \union InFlight) = {}
      /\ \A x \in Range(taken) \union Range(kept) :
           \E i \in 1..Len(taken) + Len(kept) : rqItems[i] = x
  BY <1>1 DEF Once, SetAside, Aside
<1>4. SetAside'
  BY <1>1, <1>2, <1>3 DEF SetAside, Aside, history
<1> QED
  BY <1>1, <1>4, RequeueOnce DEF Known

LEMMA RequeueAppendOnce ==
  ASSUME TypeOK, RequeueAccounts, Once, RequeueAppend
  PROVE  Once'
<1>1. /\ UNCHANGED <<dead, sending, workerVars, rqItems, taken, kept, accepted, done>>
      /\ rqPc = "append" /\ rqPc' = "rewrite" /\ Flush(Requeue, taken)
      /\ Requeue \in Appenders /\ taken \in Seq(Jobs)
  BY DEF RequeueAppend, Appenders, TypeOK
<1>2. InFlight' = InFlight
  BY <1>1, OthersSame
<1>3. Range(taken) \union Range(kept) \subseteq Range(rqItems)
  BY <1>1 DEF RequeueAccounts
<1>4. /\ Distinct(taken) /\ Distinct(kept) /\ Range(taken) \intersect Range(kept) = {}
      /\ Range(rqItems) \intersect (Range(queue) \union done \union InFlight) = {}
  BY <1>1 DEF Once, SetAside, Aside
<1>5. Range(taken) \intersect (Range(queue) \union done \union InFlight) = {}
  BY <1>3, <1>4
<1>6. Pending' /\ Range(queue') \subseteq Range(queue) \union Range(taken)
  BY <1>1, <1>4, <1>5, FlushOnce DEF Once
<1>7. Known' \subseteq Known
  BY <1>1, <1>2, <1>6 DEF Known
<1>8. Aside' = kept
  BY <1>1 DEF Aside
<1>9. SetAside'
  BY <1>1, <1>2, <1>3, <1>4, <1>6, <1>8 DEF SetAside
<1> QED
  BY <1>1, <1>6, <1>7, <1>9 DEF Once, Fresh

LEMMA RequeueRewriteOnce ==
  ASSUME Once, RequeueTruncate \/ RequeueWrite
  PROVE  Once'
<1>1. /\ UNCHANGED <<queue, sending, workerVars, history>>
      /\ rqPc \in {"rewrite", "truncated"}
      /\ \/ rqPc' = "truncated" /\ dead' = <<>> /\ UNCHANGED <<rqItems, taken, kept>>
         \/ /\ rqPc' = "idle" /\ dead' = kept
            /\ rqItems' = <<>> /\ taken' = <<>> /\ kept' = <<>>
  BY DEF RequeueTruncate, RequeueWrite, RequeueEnd
<1>2. Aside = kept /\ Aside' = kept /\ InFlight' = InFlight
  BY <1>1, OthersSame DEF Aside, history
<1>3. SetAside'
  BY <1>1, <1>2 DEF Once, SetAside, history
<1>4. Range(dead') \union Range(rqItems') \union Range(taken') \union Range(kept') \subseteq Known
  BY <1>1, RangeOfEmpty DEF Known
<1> QED
  BY <1>1, <1>3, <1>4, RequeueOnce

-----------------------------------------------------------------------------
(* Steps of a worker. *)

(* With one worker past the lock, the failures in flight and the lines in  *)
(* hand are its own, before a step of it and after. *)
LEMMA WorkerAlone ==
  ASSUME LockExclusion, Accounts, NEW w \in Workers, pc[w] # "idle"
  PROVE  /\ \A v \in Workers : v # w => pc[v] = "idle" /\ failed[v] = <<>>
         /\ InFlight = Range(failed[w])
         /\ \A i : Handled(i) <=> pc[w] \in {"handling", "rewrite"} /\ i <= consumed[w]
<1>1. \A v \in Workers : v # w => pc[v] = "idle" /\ failed[v] = <<>>
  BY DEF LockExclusion, Accounts, WorkersAccount
<1>2. InFlight = Range(failed[w])
  BY <1>1, RangeOfEmpty DEF InFlight
<1>3. \A i : Handled(i) <=> pc[w] \in {"handling", "rewrite"} /\ i <= consumed[w]
  BY <1>1 DEF Handled
<1> QED
  BY <1>1, <1>2, <1>3

LEMMA WorkerAloneNext ==
  ASSUME LockExclusion, Accounts, NEW w \in Workers, pc[w] # "idle",
         \A v \in Workers : v # w => pc'[v] = pc[v] /\ failed'[v] = failed[v]
  PROVE  /\ InFlight' = Range(failed'[w])
         /\ \A i : Handled(i)' <=> pc'[w] \in {"handling", "rewrite"} /\ i <= consumed'[w]
<1>1. \A v \in Workers : v # w => pc'[v] = "idle" /\ failed'[v] = <<>>
  BY WorkerAlone
<1>2. InFlight' = Range(failed'[w])
  BY <1>1, RangeOfEmpty DEF InFlight
<1>3. \A i : Handled(i)' <=> pc'[w] \in {"handling", "rewrite"} /\ i <= consumed'[w]
  BY <1>1 DEF Handled
<1> QED
  BY <1>2, <1>3

(* A step of a worker that finds every job it logs or collects on the      *)
(* queue, and writes no dead letter. *)
LEMMA WorkerStepOnce ==
  ASSUME TypeOK, LockExclusion, Accounts, Once, NEW w \in Workers, pc[w] # "idle",
         \A v \in Workers : v # w => pc'[v] = pc[v] /\ failed'[v] = failed[v],
         UNCHANGED <<sending, accepted, dead, requeueVars>>,
         Distinct(queue'), Range(queue') \subseteq Range(queue),
         done' \subseteq done \union Range(queue),
         Range(failed'[w]) \subseteq Range(failed[w]) \union Range(queue),
         Distinct(failed'[w]), Range(failed'[w]) \intersect done' = {},
         \A i \in 1..Len(queue') : queue'[i] \in done' \union Range(failed'[w]) =>
           pc'[w] \in {"handling", "rewrite"} /\ i <= consumed'[w]
  PROVE  Once'
<1>1. /\ \A v \in Workers : v # w => pc[v] = "idle" /\ failed[v] = <<>>
      /\ InFlight = Range(failed[w])
  BY WorkerAlone
<1>2. /\ InFlight' = Range(failed'[w])
      /\ \A i : Handled(i)' <=> pc'[w] \in {"handling", "rewrite"} /\ i <= consumed'[w]
  BY WorkerAloneNext
<1>3. Range(queue') \union done' \union InFlight' \subseteq Range(queue) \union done \union InFlight
  BY <1>1, <1>2
<1>4. Fresh'
  <2>1. Known' \subseteq Known
    BY <1>3 DEF Known, requeueVars
  <2> QED
    BY <2>1 DEF Once, Fresh
<1>5. SetAside'
  <2>1. Aside' = Aside
    BY DEF Aside, requeueVars
  <2> QED
    BY <1>3, <2>1 DEF Once, SetAside, requeueVars
<1>6. Pending'
  <2>1. ASSUME NEW v \in Workers
        PROVE  Distinct(failed'[v]) /\ Range(failed'[v]) \intersect done' = {}
    <3>1. CASE v # w
      BY <1>1, <3>1, DistinctEmpty, RangeOfEmpty
    <3> QED
      BY <3>1
  <2> QED
    BY <1>2, <2>1 DEF Pending
<1> QED
  BY <1>4, <1>5, <1>6 DEF Once

(* The line a worker has in hand is on the queue, once, neither done nor   *)
(* collected. *)
LEMMA CurrentOnce ==
  ASSUME TypeOK, LockExclusion, Accounts, Once, NEW w \in Workers, pc[w] = "handling"
  PROVE  /\ consumed[w] + 1 \in 1..Len(queue) /\ CurrentJob(w) = queue[consumed[w] + 1]
         /\ CurrentJob(w) \in Range(queue) /\ CurrentJob(w) \in Jobs
         /\ CurrentJob(w) \notin done \union Range(failed[w])
<1>1. /\ raw[w] \in Seq(Jobs) /\ Len(raw[w]) \in Nat /\ consumed[w] \in Nat
      /\ queue \in Seq(Jobs) /\ Len(queue) \in Nat
  BY DEF TypeOK
<1>2. WorkerAccount(w)
  BY Account
<1>3. consumed[w] + 1 \in 1..Len(raw[w]) /\ consumed[w] + 1 \in 1..Len(queue)
  BY <1>1, <1>2 DEF WorkerAccount
<1>4. CurrentJob(w) = queue[consumed[w] + 1]
  BY <1>2, <1>3 DEF WorkerAccount, CurrentJob
<1>5. ~Handled(consumed[w] + 1) /\ InFlight = Range(failed[w])
  BY <1>1, WorkerAlone
<1> QED
  BY <1>2, <1>3, <1>4, <1>5, CurrentJobQueued DEF Once, Pending

LEMMA ReadOnce ==
  ASSUME TypeOK, LockExclusion, Accounts, Once, NEW w \in Workers, ReadQueue(w)
  PROVE  Once'
<1>1. /\ pc[w] = "locked" /\ failed'[w] = <<>> /\ failed[w] = <<>>
      /\ UNCHANGED <<queue, dead, sending, requeueVars, history>>
      /\ \A v \in Workers : v # w => pc'[v] = pc[v] /\ failed'[v] = failed[v]
  BY DEF ReadQueue, TypeOK, Accounts, WorkersAccount
<1>2. \A i \in 1..Len(queue) : queue[i] \notin done \union Range(failed[w])
  BY <1>1, WorkerAlone DEF Once, Pending
<1>3. Distinct(queue)
  BY DEF Once, Pending
<1> QED
  BY <1>1, <1>2, <1>3, DistinctEmpty, RangeOfEmpty, WorkerStepOnce DEF history

LEMMA HandleOkOnce ==
  ASSUME TypeOK, LockExclusion, Accounts, Once, NEW w \in Workers, HandleOk(w)
  PROVE  Once'
<1>1. /\ pc[w] = "handling" /\ done' = done \union {CurrentJob(w)}
      /\ consumed'[w] = consumed[w] + 1 /\ consumed[w] \in Nat
      /\ UNCHANGED <<queue, dead, sending, failed, requeueVars, accepted>>
      /\ \A v \in Workers : v # w => pc'[v] = pc[v]
  BY DEF HandleOk, TypeOK
<1>2. pc'[w] \in {"handling", "rewrite"}
  BY DEF HandleOk, TypeOK, LoopPc
<1>3. /\ consumed[w] + 1 \in 1..Len(queue) /\ CurrentJob(w) = queue[consumed[w] + 1]
      /\ CurrentJob(w) \in Range(queue) /\ CurrentJob(w) \notin Range(failed[w])
  BY <1>1, CurrentOnce
<1>4. /\ Distinct(queue) /\ Distinct(failed[w]) /\ Range(failed[w]) \intersect done = {}
      /\ \A i \in 1..Len(queue) : queue[i] \in done \union Range(failed[w]) => i <= consumed[w]
  BY <1>1, WorkerAlone DEF Once, Pending
<1>5. \A i \in 1..Len(queue) : queue[i] \in done' \union Range(failed[w]) => i <= consumed[w] + 1
  BY <1>1, <1>3, <1>4 DEF Distinct
<1> QED
  BY <1>1, <1>2, <1>3, <1>4, <1>5, WorkerStepOnce

LEMMA HandleFailsOnce ==
  ASSUME TypeOK, LockExclusion, Accounts, Once, NEW w \in Workers, HandleFails(w)
  PROVE  Once'
<1>1. /\ pc[w] = "handling" /\ consumed[w] \in Nat /\ failed[w] \in Seq(Jobs)
      /\ UNCHANGED <<queue, dead, sending, requeueVars, history>>
      /\ \A v \in Workers : v # w => pc'[v] = pc[v] /\ failed'[v] = failed[v]
  BY DEF HandleFails, TypeOK
<1>2. pc'[w] \in {"handling", "rewrite"}
  BY DEF HandleFails, TypeOK, LoopPc
<1>3. /\ consumed[w] + 1 \in 1..Len(queue) /\ CurrentJob(w) = queue[consumed[w] + 1]
      /\ CurrentJob(w) \in Range(queue) /\ CurrentJob(w) \in Jobs
      /\ CurrentJob(w) \notin done \union Range(failed[w])
  BY <1>1, CurrentOnce
<1>4. /\ Distinct(queue) /\ Distinct(failed[w]) /\ Range(failed[w]) \intersect done = {}
      /\ \A i \in 1..Len(queue) : queue[i] \in done \union Range(failed[w]) => i <= consumed[w]
  BY <1>1, WorkerAlone DEF Once, Pending
<1>5. CASE failed'[w] = failed[w] /\ consumed'[w] = consumed[w]
  BY <1>1, <1>2, <1>4, <1>5, WorkerStepOnce DEF history
<1>6. CASE failed'[w] = Append(failed[w], CurrentJob(w)) /\ consumed'[w] = consumed[w] + 1
  <2>1. /\ Range(failed'[w]) = Range(failed[w]) \union {CurrentJob(w)}
        /\ Distinct(failed'[w])
    BY <1>1, <1>3, <1>4, <1>6, RangeOfAppend, DistinctAppend
  <2>2. \A i \in 1..Len(queue) :
          queue[i] \in done \union Range(failed'[w]) => i <= consumed[w] + 1
    BY <1>1, <1>3, <1>4, <2>1 DEF Distinct
  <2> QED
    BY <1>1, <1>2, <1>3, <1>4, <1>6, <2>1, <2>2, WorkerStepOnce DEF history
<1>7. \/ failed'[w] = failed[w] /\ consumed'[w] = consumed[w]
      \/ failed'[w] = Append(failed[w], CurrentJob(w)) /\ consumed'[w] = consumed[w] + 1
  BY DEF HandleFails, TypeOK
<1> QED
  BY <1>5, <1>6, <1>7

LEMMA RewriteOnce ==
  ASSUME TypeOK, LockExclusion, Accounts, Once, NEW w \in Workers, Rewrite(w)
  PROVE  Once'
<1>1. /\ pc[w] = "rewrite" /\ queue' = SubSeq(raw[w], consumed[w] + 1, Len(raw[w]))
      /\ UNCHANGED <<dead, sending, failed, requeueVars, history>>
      /\ \A v \in Workers : v # w => pc'[v] = pc[v]
  BY DEF Rewrite, RewriteFrom, TypeOK
<1>2. /\ raw[w] \in Seq(Jobs) /\ Len(raw[w]) \in Nat /\ consumed[w] \in Nat
      /\ queue \in Seq(Jobs) /\ Len(queue) \in Nat
      /\ consumed[w] <= Len(raw[w]) /\ Len(raw[w]) <= Len(queue)
      /\ \A i \in 1..Len(raw[w]) : raw[w][i] = queue[i]
  BY <1>1, Account DEF TypeOK, WorkerAccount
<1>3. /\ Distinct(queue) /\ Distinct(failed[w]) /\ Range(failed[w]) \intersect done = {}
      /\ \A i \in 1..Len(queue) : queue[i] \in done \union Range(failed[w]) => i <= consumed[w]
  BY <1>1, WorkerAlone DEF Once, Pending
<1>4. /\ Len(queue') = Len(raw[w]) - consumed[w]
      /\ \A i \in 1..Len(raw[w]) - consumed[w] : queue'[i] = queue[consumed[w] + i]
  <2> DEFINE m == consumed[w] + 1
  <2>1. m \in Int /\ Len(raw[w]) \in Int /\ \A i \in m..Len(raw[w]) : raw[w][i] \in Jobs
    BY <1>2, ElementOfSeq
  <2>2. /\ Len(queue') = IF m <= Len(raw[w]) THEN Len(raw[w]) - m + 1 ELSE 0
        /\ \A i \in 1..Len(raw[w])-m+1 : queue'[i] = raw[w][m+i-1]
    BY <1>1, <2>1, SubSeqProperties
  <2>3. ASSUME NEW i \in 1..Len(raw[w]) - consumed[w]
        PROVE  queue'[i] = queue[consumed[w] + i]
    <3>1. m + i - 1 = consumed[w] + i /\ i \in 1..Len(raw[w])-m+1
      BY <1>2
    <3>2. queue'[i] = raw[w][m + i - 1]
      BY <2>2, <3>1
    <3>3. consumed[w] + i \in 1..Len(raw[w])
      BY <1>2
    <3> QED
      BY <1>2, <3>1, <3>2, <3>3
  <2> QED
    BY <1>2, <2>2, <2>3
<1>5. Distinct(queue')
  <2> SUFFICES ASSUME NEW i \in 1..Len(queue'), NEW k \in 1..Len(queue'), queue'[i] = queue'[k]
               PROVE  i = k
    BY DEF Distinct
  <2>1. /\ consumed[w] + i \in 1..Len(queue) /\ consumed[w] + k \in 1..Len(queue)
        /\ i \in 1..Len(raw[w]) - consumed[w] /\ k \in 1..Len(raw[w]) - consumed[w]
    BY <1>2, <1>4
  <2>2. queue[consumed[w] + i] = queue[consumed[w] + k]
    BY <1>4, <2>1
  <2>3. consumed[w] + i = consumed[w] + k
    BY <1>3, <2>1, <2>2 DEF Distinct
  <2> QED
    BY <1>2, <2>3
<1>6. \A i \in 1..Len(queue') : queue'[i] \notin done \union Range(failed[w])
  BY <1>2, <1>3, <1>4
<1>7. Range(queue') \subseteq Range(queue)
  BY Account, RewriteRange
<1> QED
  BY <1>1, <1>3, <1>5, <1>6, <1>7, WorkerStepOnce DEF history

LEMMA RecordOnce ==
  ASSUME TypeOK, LockExclusion, Accounts, Once, NEW w \in Workers, RecordFailures(w)
  PROVE  Once'
<1>1. /\ pc[w] = "record" /\ dead' = dead \o failed[w] /\ failed'[w] = <<>>
      /\ UNCHANGED <<queue, sending, requeueVars, accepted, done>> /\ pc'[w] = "release"
      /\ dead \in Seq(Jobs) /\ failed[w] \in Seq(Jobs)
      /\ \A v \in Workers : v # w => pc'[v] = pc[v] /\ failed'[v] = failed[v]
  BY DEF RecordFailures, TypeOK
<1>2. /\ \A v \in Workers : v # w => failed[v] = <<>>
      /\ InFlight = Range(failed[w]) /\ \A i : ~Handled(i)
  BY <1>1, WorkerAlone
<1>3. InFlight' = {} /\ \A i : ~Handled(i)'
  BY <1>1, WorkerAloneNext, RangeOfEmpty
<1>4. Range(dead') = Range(dead) \union Range(failed[w])
  BY <1>1, RangeConcatenation
<1>5. Fresh'
  <2>1. Known' = Known
    BY <1>1, <1>2, <1>3, <1>4 DEF Known, requeueVars
  <2> QED
    BY <1>1, <2>1 DEF Once, Fresh
<1>6. Pending'
  BY <1>1, <1>2, <1>3, DistinctEmpty, RangeOfEmpty DEF Once, Pending
<1>7. Range(failed[w]) \intersect (Range(queue) \union done) = {} /\ Distinct(failed[w])
  <2>1. \A i \in 1..Len(queue) : queue[i] \notin Range(failed[w])
    BY <1>2 DEF Once, Pending
  <2>2. Range(queue) = {queue[i] : i \in 1..Len(queue)}
    BY RangeEquality DEF TypeOK
  <2> QED
    BY <2>1, <2>2 DEF Once, Pending
<1>8. SetAside'
  <2>1. CASE rqPc = "idle"
    <3>1. /\ Aside = dead /\ Aside' = dead'
      BY <1>1, <2>1 DEF Aside, requeueVars
    <3>2. Distinct(dead) /\ Range(dead) \intersect (Range(queue) \union done \union InFlight) = {}
      BY <3>1 DEF Once, SetAside
    <3>3. Distinct(dead')
      BY <1>1, <1>2, <1>7, <3>2, DistinctConcat
    <3> QED
      BY <1>1, <1>3, <1>4, <1>7, <2>1, <3>1, <3>2, <3>3 DEF SetAside, requeueVars
  <2>2. CASE rqPc # "idle"
    <3>1. Aside' = Aside
      BY <1>1, <2>2 DEF Aside, requeueVars
    <3> QED
      BY <1>1, <1>3, <3>1 DEF Once, SetAside, requeueVars
  <2> QED
    BY <2>1, <2>2
<1> QED
  BY <1>5, <1>6, <1>8 DEF Once

LEMMA ReleaseOnce ==
  ASSUME TypeOK, LockExclusion, Accounts, Once, NEW w \in Workers, Release(w)
  PROVE  Once'
<1>1. /\ pc[w] = "release" /\ pc'[w] = "idle" /\ failed[w] = <<>> /\ failed'[w] = <<>>
      /\ UNCHANGED <<queue, dead, sending, requeueVars, accepted, done>>
      /\ \A v \in Workers : v # w => pc'[v] = pc[v] /\ failed'[v] = failed[v]
  BY DEF Release, Forget, TypeOK, Accounts, WorkersAccount
<1>2. \A i \in 1..Len(queue) : queue[i] \notin done \union Range(failed[w])
  BY <1>1, WorkerAlone DEF Once, Pending
<1>3. Distinct(queue)
  BY DEF Once, Pending
<1> QED
  BY <1>1, <1>2, <1>3, DistinctEmpty, RangeOfEmpty, WorkerStepOnce

LEMMA IdleOnce ==
  ASSUME Once, UNCHANGED <<queue, dead, sending, failed, requeueVars, history>>,
         \A i : Handled(i)' <=> Handled(i)
  PROVE  Once'
<1>1. InFlight' = InFlight
  BY DEF InFlight
<1> QED
  BY <1>1 DEF Once, Fresh, Known, Pending, SetAside, Aside, requeueVars, history

LEMMA OnceNext ==
  ASSUME Faults = {}, TypeOK, LockExclusion, Accounts, Once, [Next]_vars
  PROVE  Once'
<1>1. CASE \E p \in Producers, j \in Jobs : OpenQueue(p, j) \/ AppendJob(p, j)
  BY <1>1, OpenOnce, AppendOnce
<1>2. ASSUME NEW w \in Workers, Acquire(w) PROVE Once'
  <2>1. \A i : Handled(i)' <=> Handled(i)
    BY <1>2 DEF Acquire, Handled, TypeOK
  <2> QED
    BY <1>2, <2>1, IdleOnce DEF Acquire
<1>3. ASSUME NEW w \in Workers, WorkerStep(w) PROVE Once'
  BY <1>3, ReadOnce, HandleOkOnce, HandleFailsOnce, RewriteOnce, RecordOnce, ReleaseOnce
  DEF WorkerStep
<1>4. CASE RemoveStaleLock \/ UNCHANGED vars
  BY <1>4, OthersSame, IdleOnce DEF RemoveStaleLock, vars, workerVars, history
<1>5. CASE (\E args \in RequeueArgs : RequeueLoad(args)) \/ RequeueStep
  BY <1>5, LoadOnce, ScanOnce, RequeueOpenOnce, RequeueAppendOnce, RequeueRewriteOnce
  DEF RequeueStep, Accounts
<1> QED
  BY <1>1, <1>2, <1>3, <1>4, <1>5 DEF Next, Abort, Crash, RequeueCrash

(* With nothing dying, no job is processed twice: for any number of jobs,  *)
(* workers and producers, either failure mode, any batch size, and however *)
(* requeues interleave with workers.                                       *)
THEOREM NothingProcessedTwice ==
  ASSUME Faults = {}
  PROVE  Spec => ProcessedOnce
<1>1. Init => Once
  BY OnceInit
<1>2. TypeOK /\ LockExclusion /\ Accounts /\ Once /\ [Next]_vars => Once'
  BY OnceNext
<1>3. IInv => TypeOK /\ LockExclusion /\ Accounts
  BY DEF IInv, Accounts
<1>4. TypeOK /\ LockExclusion /\ Accounts /\ Once =>
        \A w \in Workers : HandleOk(w) => CurrentJob(w) \notin done
  BY CurrentOnce DEF HandleOk
<1>5. Spec => []Once
  BY <1>1, <1>2, <1>3, Invariant, PTL DEF Spec
<1> QED
  BY <1>3, <1>4, <1>5, Invariant, PTL DEF Spec, ProcessedOnce

-----------------------------------------------------------------------------
(* The queue implements JobLedger.                                         *)

(* A step that takes nothing new on, and strikes off only what is done or  *)
(* at risk, is a step of the ledger. *)
LEMMA LedgerSettles ==
  ASSUME Owed' \subseteq Owed, done' = done,
         exposed \subseteq exposed', exposed' \subseteq exposed \union Owed,
         Owed \subseteq Owed' \union done \union exposed'
  PROVE  Ledger!Next
<1> DEFINE S == exposed' \ exposed
           T == Owed \ Owed'
<1>1. S \in SUBSET Owed /\ exposed' = exposed \union S
  OBVIOUS
<1>2. T \in SUBSET Owed /\ Owed' = Owed \ T /\ T \subseteq done \union exposed'
  OBVIOUS
<1>3. Ledger!StrikeOff(T)
  BY <1>2 DEF Ledger!StrikeOff
<1>4. Ledger!Expose(S)
  BY <1>1, <1>2, <1>3 DEF Ledger!Expose
<1> QED
  BY <1>1, <1>4 DEF Ledger!Next

LEMMA LedgerAppend ==
  ASSUME TypeOK, NEW p \in Producers, NEW j \in Jobs, AppendJob(p, j)
  PROVE  Ledger!Next
<1>1. /\ UNCHANGED <<workerVars, requeueVars, dead, done>>
      /\ Flush(p, <<j>>) /\ <<j>> \in Seq(Jobs) /\ queue \in Seq(Jobs)
  BY DEF AppendJob, TypeOK
<1>2. /\ \/ Range(queue') = Range(queue) \union {j}
         \/ Range(queue') = Range(queue) /\ exposed' = exposed \union {j}
      /\ exposed' = exposed \/ exposed' = exposed \union {j}
  <2>1. Range(queue \o <<j>>) = Range(queue) \union {j}
    <3>1. Range(queue \o <<j>>) = Range(queue) \union Range(<<j>>)
      BY <1>1, RangeConcatenation
    <3> QED
      BY <3>1, RangeOfSingleton
  <2>2. CASE handle[p] = "live"
    BY <1>1, <2>1, <2>2, RangeOfSingleton DEF Flush
  <2>3. CASE handle[p] = "orphan"
    BY <1>1, <2>3, RangeOfSingleton DEF Flush
  <2>4. handle[p] \in {"live", "orphan"}
    BY <1>1 DEF Flush, TypeOK, Appenders
  <2> QED
    BY <2>2, <2>3, <2>4
<1>3. InFlight' = InFlight /\ Truncated' = Truncated
  BY <1>1 DEF InFlight, Truncated, workerVars, requeueVars
<1>4. \/ Owed' = Owed \union {j}
      \/ Owed' = Owed /\ exposed' = exposed \union {j}
  BY <1>1, <1>2, <1>3 DEF Owed
<1>5. Ledger!Accept(j)
  BY <1>1, <1>2, <1>4 DEF Ledger!Accept
<1> QED
  BY <1>5 DEF Ledger!Next

LEMMA LedgerRequeue ==
  ASSUME TypeOK, Accounts, RequeueStep \/ RequeueCrash
  PROVE  Ledger!Next
<1>0. UNCHANGED <<workerVars, done>> /\ InFlight' = InFlight
  BY DEF RequeueStep, RequeueScan, RequeueOpen, RequeueAppend, RequeueTruncate,
     RequeueWrite, RequeueCrash, history, workerVars, InFlight
<1>1. CASE RequeueScan \/ RequeueOpen
  <2>1. UNCHANGED <<queue, dead, exposed>> /\ Truncated = {} /\ Truncated' = {}
    BY <1>1 DEF RequeueScan, RequeueOpen, history, Truncated
  <2>2. Owed' = Owed
    BY <1>0, <2>1 DEF Owed
  <2> QED
    BY <1>0, <2>1, <2>2, LedgerSettles
<1>2. CASE RequeueAppend
  <2>1. /\ Requeue \in Appenders /\ taken \in Seq(Jobs) /\ Flush(Requeue, taken)
        /\ UNCHANGED dead /\ rqPc = "append" /\ rqPc' = "rewrite"
        /\ queue \in Seq(Jobs)
    BY <1>2 DEF Appenders, RequeueAppend, TypeOK
  <2>2. Truncated = {} /\ Truncated' = {}
    BY <2>1 DEF Truncated
  <2>3. Range(taken) \subseteq Range(dead)
    BY <2>1 DEF Accounts, RequeueAccounts
  <2>4. Range(queue \o taken) = Range(queue) \union Range(taken)
    BY <2>1, RangeConcatenation
  <2>5. /\ Range(queue') \subseteq Range(queue) \union Range(taken)
        /\ exposed \subseteq exposed' /\ exposed' \subseteq exposed \union Range(taken)
    BY <2>1, <2>4 DEF Flush
  <2>6. Range(queue) \subseteq Range(queue')
    BY <2>1, FlushFacts
  <2>7. Owed' = Owed
    BY <1>0, <2>1, <2>2, <2>3, <2>5, <2>6 DEF Owed
  <2> QED
    BY <1>0, <2>3, <2>5, <2>7, LedgerSettles DEF Owed
<1>3. CASE RequeueTruncate
  <2>1. /\ UNCHANGED <<queue, exposed>> /\ dead' = <<>> /\ rqPc = "rewrite"
        /\ \/ kept = <<>> /\ rqPc' = "idle"
           \/ rqPc' = "truncated" /\ kept' = kept
    BY <1>3 DEF RequeueTruncate, RequeueEnd, history
  <2>2. /\ Range(dead) \subseteq Range(rqItems) \union exposed
        /\ Range(rqItems) \subseteq Range(taken) \union Range(kept)
        /\ Range(taken) \subseteq Accounted
    BY <2>1 DEF Accounts, RequeueAccounts
  <2>3. Truncated' = Range(kept)
    BY <2>1, RangeOfEmpty DEF Truncated
  <2>4. Owed \subseteq Owed' \union done \union exposed
    BY <1>0, <2>1, <2>2, <2>3 DEF Owed, Accounted, Truncated
  <2>5. Range(kept) \subseteq Range(dead)
    BY <2>1 DEF Accounts, RequeueAccounts
  <2>6. Owed' \subseteq Owed
    BY <1>0, <2>1, <2>3, <2>5, RangeOfEmpty DEF Owed
  <2> QED
    BY <1>0, <2>1, <2>4, <2>6, LedgerSettles
<1>4. CASE RequeueWrite
  <2>1. /\ UNCHANGED <<queue, exposed>> /\ dead' = kept
        /\ rqPc = "truncated" /\ rqPc' = "idle"
    BY <1>4 DEF RequeueWrite, RequeueEnd, history
  <2>2. Truncated = Range(kept) /\ Truncated' = {} /\ Range(dead) \subseteq exposed
    BY <2>1 DEF Truncated, Accounts, RequeueAccounts
  <2>3. Owed' \subseteq Owed /\ Owed \subseteq Owed' \union exposed
    BY <1>0, <2>1, <2>2 DEF Owed
  <2> QED
    BY <1>0, <2>1, <2>3, LedgerSettles
<1>5. CASE RequeueCrash
  <2>1. /\ UNCHANGED <<queue, dead>> /\ rqPc' = "idle"
        /\ exposed' = IF rqPc = "truncated" THEN exposed \union Range(kept) ELSE exposed
    BY <1>5 DEF RequeueCrash, RequeueEnd
  <2>2. Truncated' = {}
    BY <2>1 DEF Truncated
  <2>3. exposed' = exposed \union Truncated
    BY <2>1 DEF Truncated
  <2>4. Owed' \subseteq Owed /\ Owed \subseteq Owed' \union exposed' /\ Truncated \subseteq Owed
    BY <1>0, <2>1, <2>2, <2>3 DEF Owed
  <2> QED
    BY <1>0, <2>3, <2>4, LedgerSettles
<1> QED
  BY <1>1, <1>2, <1>3, <1>4, <1>5 DEF RequeueStep

(* The steps of a worker past its lock. *)
LEMMA LedgerWorker ==
  ASSUME TypeOK, TypeOK', LockExclusion, Accounts, Accounts', NEW w \in Workers,
         pc[w] # "idle",
         WorkerStep(w) \/ Forget(w)
  PROVE  Ledger!Next
<1>0. /\ \A v \in Workers : v # w => pc'[v] = pc[v] /\ failed'[v] = failed[v]
      /\ Truncated' = Truncated /\ WorkerAccount(w) /\ WorkerAccount(w)'
  <2>1. UNCHANGED requeueVars
    BY DEF WorkerStep, ReadQueue, HandleOk, HandleFails, Rewrite, RewriteFrom,
       RecordFailures, Release, Forget
  <2>2. \A v \in Workers : v # w => pc'[v] = pc[v] /\ failed'[v] = failed[v]
    BY DEF WorkerStep, ReadQueue, HandleOk, HandleFails, Rewrite, RewriteFrom,
       RecordFailures, Release, Forget, TypeOK
  <2>3. WorkerAccount(w) /\ WorkerAccount(w)'
    BY DEF Accounts, WorkersAccount, MemoryIsQueueHead, WorkerAccount
  <2> QED
    BY <2>1, <2>2, <2>3 DEF Truncated, requeueVars
<1>1. InFlight = Range(failed[w]) /\ InFlight' = Range(failed'[w])
  BY <1>0, OthersIdle
<1>2. CASE ReadQueue(w)
  <2>1. UNCHANGED <<queue, dead, done, exposed>> /\ failed[w] = <<>> /\ failed'[w] = <<>>
    BY <1>0, <1>2 DEF ReadQueue, history, WorkerAccount, TypeOK
  <2>2. Owed' = Owed
    BY <1>0, <1>1, <2>1 DEF Owed
  <2> QED
    BY <2>1, <2>2, LedgerSettles
<1>3. CASE HandleOk(w)
  <2>1. /\ UNCHANGED <<queue, dead, failed, exposed>> /\ pc[w] = "handling"
        /\ done' = done \union {CurrentJob(w)}
    BY <1>3 DEF HandleOk
  <2>2. CurrentJob(w) \in Jobs /\ CurrentJob(w) \in Range(queue)
    BY <1>0, <2>1, CurrentJobQueued
  <2>3. Owed' = Owed
    BY <1>0, <1>1, <2>1 DEF Owed
  <2>4. Ledger!Finish(CurrentJob(w))
    BY <2>1, <2>2, <2>3 DEF Ledger!Finish, Owed
  <2> QED
    BY <2>2, <2>4 DEF Ledger!Next
<1>4. CASE HandleFails(w)
  <2>1. /\ UNCHANGED <<queue, dead, done, exposed>> /\ pc[w] = "handling"
        /\ failed'[w] = failed[w] \/ failed'[w] = Append(failed[w], CurrentJob(w))
    BY <1>4 DEF HandleFails, history, TypeOK
  <2>2. CurrentJob(w) \in Jobs /\ CurrentJob(w) \in Range(queue)
    BY <1>0, <2>1, CurrentJobQueued
  <2>3. Range(failed'[w]) \in {Range(failed[w]), Range(failed[w]) \union {CurrentJob(w)}}
    BY <2>1, <2>2, RangeOfAppend DEF TypeOK
  <2>4. Owed' = Owed
    BY <1>0, <1>1, <2>1, <2>2, <2>3 DEF Owed
  <2> QED
    BY <2>1, <2>4, LedgerSettles
<1>5. CASE Rewrite(w)
  <2>1. /\ UNCHANGED <<dead, failed, done, exposed>> /\ pc[w] = "rewrite"
    BY <1>5 DEF Rewrite, RewriteFrom, history
  <2>2. /\ Range(queue') \subseteq Range(queue)
        /\ Range(queue) \subseteq Range(queue') \union Range(failed[w]) \union done \union exposed
    BY <1>0, <1>5, RewriteRange
  <2>3. Owed' \subseteq Owed /\ Owed \subseteq Owed' \union done \union exposed
    BY <1>0, <1>1, <2>1, <2>2 DEF Owed
  <2> QED
    BY <2>1, <2>3, LedgerSettles
<1>6. CASE RecordFailures(w)
  <2>1. /\ UNCHANGED <<queue, done>> /\ dead' = dead \o failed[w] /\ failed'[w] = <<>>
        /\ exposed \subseteq exposed' /\ exposed' \subseteq exposed \union Range(failed[w])
    BY <1>6 DEF RecordFailures, TypeOK
  <2>2. Range(dead') = Range(dead) \union Range(failed[w]) /\ InFlight' = {}
    BY <1>1, <2>1, RangeConcatenation, RangeOfEmpty DEF TypeOK
  <2>3. Owed' = Owed
    BY <1>0, <1>1, <2>1, <2>2 DEF Owed
  <2> QED
    BY <1>1, <2>1, <2>3, LedgerSettles DEF Owed
<1>7. CASE Forget(w)
  <2>1. /\ UNCHANGED <<queue, dead, done>> /\ failed'[w] = <<>>
        /\ exposed \subseteq exposed' /\ exposed' \subseteq exposed \union Range(failed[w])
    BY <1>7 DEF Forget, TypeOK
  <2>2. Range(failed[w]) \subseteq Range(queue) \union exposed' /\ InFlight' = {}
    BY <1>0, <1>1, <1>7, <2>1, ForgetRange, RangeOfEmpty
  <2>3. Owed' \subseteq Owed /\ Owed \subseteq Owed' \union exposed'
    BY <1>0, <1>1, <2>1, <2>2 DEF Owed
  <2> QED
    BY <1>1, <2>1, <2>3, LedgerSettles DEF Owed
<1> QED
  BY <1>2, <1>3, <1>4, <1>5, <1>6, <1>7 DEF WorkerStep, Release

LEMMA LedgerNext ==
  ASSUME TypeOK, TypeOK', LockExclusion, Accounts, Accounts', [Next]_vars
  PROVE  [Ledger!Next]_(Ledger!vars)
<1>1. ASSUME UNCHANGED <<queue, dead, failed, rqPc, kept, done, exposed>>
      PROVE  UNCHANGED Ledger!vars
  BY <1>1 DEF Ledger!vars, Owed, InFlight, Truncated
<1>2. CASE \E p \in Producers, j \in Jobs : OpenQueue(p, j)
  BY <1>1, <1>2 DEF OpenQueue, workerVars, requeueVars, history
<1>3. CASE \E p \in Producers, j \in Jobs : AppendJob(p, j)
  BY <1>3, LedgerAppend
<1>4. ASSUME NEW w \in Workers, Acquire(w) PROVE UNCHANGED Ledger!vars
  BY <1>1, <1>4 DEF Acquire, requeueVars, history
<1>5. ASSUME NEW w \in Workers, WorkerStep(w) \/ Abort(w) \/ Crash(w) PROVE Ledger!Next
  <2>1. pc[w] # "idle"
    BY <1>5 DEF WorkerStep, ReadQueue, HandleOk, HandleFails, Rewrite, RewriteFrom,
       RecordFailures, Release, Abort, Crash
  <2> QED
    BY <1>5, <2>1, LedgerWorker DEF Abort, Crash
<1>6. CASE RemoveStaleLock
  BY <1>1, <1>6 DEF RemoveStaleLock, workerVars, requeueVars, history
<1>7. ASSUME NEW args \in RequeueArgs, RequeueLoad(args) PROVE UNCHANGED Ledger!vars
  <2>1. Truncated' = Truncated /\ UNCHANGED <<queue, dead, failed, done, exposed>>
    BY <1>7 DEF RequeueLoad, Truncated, workerVars, history
  <2> QED
    BY <2>1 DEF Ledger!vars, Owed, InFlight
<1>8. CASE RequeueStep \/ RequeueCrash
  BY <1>8, LedgerRequeue
<1>9. CASE UNCHANGED vars
  BY <1>1, <1>9 DEF vars, workerVars, requeueVars, history
<1> QED
  BY <1>2, <1>3, <1>4, <1>5, <1>6, <1>7, <1>8, <1>9 DEF Next

(* The queue implements JobLedger: whatever its files, locks, windows and  *)
(* faults do, a job leaves its books only when it is done or at risk.      *)
THEOREM QueueKeepsLedger == Spec => LedgerSpec
<1>1. Init => Ledger!Init
  <2> SUFFICES ASSUME Init PROVE Ledger!Init
    OBVIOUS
  <2>1. InFlight = {} /\ Truncated = {} /\ Range(queue) = {} /\ Range(dead) = {}
    BY RangeOfEmpty DEF Init, InFlight, Truncated
  <2> QED
    BY <2>1 DEF Init, Owed, Ledger!Init
<1>2. TypeOK /\ TypeOK' /\ LockExclusion /\ Accounts /\ Accounts' /\ [Next]_vars
        => [Ledger!Next]_(Ledger!vars)
  BY LedgerNext
<1> QED
  BY <1>1, <1>2, AccountsInit, AccountsNext, TypeCorrect, MutualExclusion, PTL
  DEF Spec, LedgerSpec, Ledger!Spec
=============================================================================
