---------------------------- MODULE RuntimeProofs ----------------------------
(***************************************************************************)
(* Proofs about worker processes: they only make the store's transactions, *)
(* so that every theorem about the store holds while they run, and they    *)
(* keep the promise made to submitters.  For any number of jobs, processes *)
(* and running operations, any faults and any bounds.                      *)
(***************************************************************************)
EXTENDS WorkerRuntime, JobStoreProofs

(* ------------------------- operations and steps ------------------------- *)

\* What a step other than a claim leaves of the operations: each goes on, in
\* whatever phase, with its job and token, and nobody starts watching it.
Traced(S) ==
  \A q \in S : /\ q \in Op
               /\ \E o \in ops : /\ o.job = q.job /\ o.token = q.token
                                 /\ q.watched => o.watched

LEMMA TracedMove ==
  ASSUME ops \subseteq Op, NEW o \in ops, NEW phase \in Phase, To(o, phase)
  PROVE  Traced(ops')
BY DEF To, Traced, Op

LEMMA TracedEnd ==
  ASSUME ops \subseteq Op, NEW o \in ops, End(o)
  PROVE  Traced(ops')
BY DEF End, Traced, Op

LEMMA TracedRaise ==
  ASSUME ops \subseteq Op, NEW o \in ops, NEW retryable \in BOOLEAN, Raise(o, retryable)
  PROVE  Traced(ops')
<1>1. CASE o.watched
  <2>1. PICK phase \in Phase : To(o, phase)
    BY <1>1 DEF Raise, Phase
  <2> QED BY <2>1, TracedMove
<1>2. CASE ~o.watched
  BY <1>2, TracedEnd DEF Raise
<1> QED BY <1>1, <1>2

LEMMA TracedDetached ==
  ASSUME ops \subseteq Op, NEW w \in Worker, ops' = Detached(w)
  PROVE  Traced(ops')
BY DEF Detached, Active, Of, Traced, Op

\* An operation's step moves or ends that operation.
LEMMA TracedStep ==
  ASSUME ops \subseteq Op, NEW o \in ops,
         OpStep(o) \/ StepRaises(o) \/ ReportRaises(o) \/ LoseLease(o)
  PROVE  Traced(ops')
<1>1. CASE Begin(o)
  BY <1>1, TracedMove DEF Begin, Phase
<1>2. CASE Handle(o)
  BY <1>2, TracedMove, TracedRaise DEF Handle, Phase
<1>3. CASE Apply(o)
  BY <1>3, TracedMove, TracedRaise DEF Apply, Reject, Phase
<1>4. CASE Finish(o) \/ Report(o) \/ ReportRaises(o)
  BY <1>4, TracedEnd DEF Finish, Report, ReportRaises
<1>5. CASE StepRaises(o)
  BY <1>5, TracedRaise DEF StepRaises
<1>6. CASE LoseLease(o)
  BY <1>6, TracedMove DEF LoseLease, Phase
<1> QED BY <1>1, <1>2, <1>3, <1>4, <1>5, <1>6 DEF OpStep

(* ------------------ processes make the store's steps -------------------- *)

\* What an operation does with the store, it does with a token of its job.
LEMMA OperationStep ==
  ASSUME RuntimeTypeOK, NEW o \in ops,
         \/ OpStep(o) \/ StepRaises(o) \/ ReportRaises(o) \/ LoseLease(o)
         \/ \E d \in Delay : Renew(o, d)
  PROVE  \/ \E j \in Job : \E t \in issued[j] : ByToken(j, t)
         \/ UNCHANGED storeVars
<1>1. o.job \in Job /\ o.token \in issued[o.job]
  BY DEF RuntimeTypeOK, Op
<1>2. CASE Begin(o) \/ Handle(o) \/ StepRaises(o) \/ ReportRaises(o) \/ LoseLease(o)
  BY <1>2 DEF Begin, Handle, StepRaises, ReportRaises, LoseLease
<1>3. CASE Apply(o)
  BY <1>1, <1>3 DEF Apply, ByToken
<1>4. CASE Finish(o)
  BY <1>1, <1>4 DEF Finish, ByToken
<1>5. CASE Report(o)
  <2>1. CASE UNCHANGED storeVars
    BY <2>1
  <2>2. CASE ~UNCHANGED storeVars
    <3>1. PICK b \in 0 .. MaxBackoff, d \in Delay :
            Fail(o.job, o.token, Retryable(o), IF Retryable(o) THEN b ELSE 0, d)
      BY <1>5, <2>2 DEF Report
    <3>2. /\ Retryable(o) \in BOOLEAN
          /\ (IF Retryable(o) THEN b ELSE 0) \in 0 .. MaxBackoff
      BY TimeAssumption DEF Retryable
    <3> QED BY <1>1, <3>1, <3>2 DEF ByToken
  <2> QED BY <2>1, <2>2
<1>6. ASSUME NEW d \in Delay, Renew(o, d)
      PROVE  \E j \in Job : \E t \in issued[j] : ByToken(j, t)
  BY <1>1, <1>6 DEF Renew, ByToken
<1> QED BY <1>2, <1>3, <1>4, <1>5, <1>6 DEF OpStep

LEMMA ProcessStoreStep ==
  ASSUME NEW w \in Worker, ProcessStep(w)
  PROVE  [Next]_storeVars
BY DEF ProcessStep, Start, Permit, Pause, ReleasePaused, ReleaseRaises, Poll, Sweep,
       Stop, GraceOver, ReleaseAtStop, Exit, Crash, Next

LEMMA EnvironmentStep == Environment => Next
BY DEF Environment, Next

LEMMA StoreStep == RuntimeTypeOK /\ [RuntimeNext]_vars => [Next]_storeVars
<1> SUFFICES ASSUME RuntimeTypeOK, [RuntimeNext]_vars PROVE [Next]_storeVars
  OBVIOUS
<1>1. CASE Environment
  BY <1>1, EnvironmentStep
<1>2. ASSUME NEW w \in Worker, ProcessStep(w) PROVE [Next]_storeVars
  BY <1>2, ProcessStoreStep
<1>3. ASSUME NEW o \in ops,
             \/ OpStep(o) \/ StepRaises(o) \/ ReportRaises(o) \/ LoseLease(o)
             \/ \E d \in Delay : Renew(o, d)
      PROVE  [Next]_storeVars
  BY <1>3, OperationStep DEF Next
<1>4. CASE UNCHANGED vars
  BY <1>4 DEF vars
<1> QED BY <1>1, <1>2, <1>3, <1>4 DEF RuntimeNext

LEMMA IssuedGrows ==
  ASSUME TypeOK, [Next]_storeVars, NEW i \in Job
  PROVE  issued[i] \subseteq issued'[i]
<1> USE DEF TypeOK, history
<1>1. ASSUME NEW j \in Job, ByApi(j) \/ Retire(j) PROVE issued' = issued
  BY <1>1 DEF ByApi, Enqueue, ScheduleCrawl, CreateShareCard, RequestExport, Retry,
     Cancel, RetryShareCard, RevokeShareCard, Retire
<1>2. ASSUME NEW j \in Job, NEW t \in issued[j], ByToken(j, t) PROVE issued' = issued
  BY <1>2 DEF ByToken, Heartbeat, Complete, Fail, ApplyResult
<1>3. ASSUME NEW w \in Worker, ReleaseLeases(w) PROVE issued' = issued
  BY <1>3 DEF ReleaseLeases
<1>4. ASSUME NEW w \in Worker, NEW j \in Job, NEW d \in Delay, Claim(w, j, d)
      PROVE  issued[i] \subseteq issued'[i]
  BY <1>4 DEF Claim
<1>5. ASSUME NEW d \in Delay, Reap(d) PROVE issued' = issued
  BY <1>5 DEF Reap
<1>6. CASE Disable \/ Enable \/ Tick \/ UNCHANGED storeVars
  BY <1>6 DEF Disable, Enable, Tick, rows, storeVars
<1> QED BY <1>1, <1>2, <1>3, <1>4, <1>5, <1>6 DEF Next

(* --------------------------- type invariant ----------------------------- *)

LEMMA RuntimeTypeInit == RuntimeInit => RuntimeTypeOK
BY TypeOKInit, RuntimeAssumption DEF RuntimeInit, RuntimeTypeOK, Process

\* Where every surviving operation keeps its token and its process stays up.
LEMMA TypeKept ==
  ASSUME RuntimeTypeOK, TypeOK', [Next]_storeVars, Traced(ops'),
         state' \in [Worker -> Process], permit' \in [Worker -> BOOLEAN],
         faults' \in 0 .. MaxFaults,
         \A o \in ops' : state[o.token.worker] \in Alive
                           => state'[o.token.worker] \in Alive
  PROVE  RuntimeTypeOK'
<1>1. ASSUME NEW q \in ops'
      PROVE  /\ q \in Op /\ q.token \in issued'[q.job]
             /\ state'[q.token.worker] \in Alive
  <2>1. PICK o \in ops : o.job = q.job /\ o.token = q.token
    BY DEF Traced
  <2>2. o.job \in Job /\ o.token \in issued[o.job] /\ state[o.token.worker] \in Alive
    BY DEF RuntimeTypeOK, Op
  <2>3. o.token \in issued'[o.job]
    BY <2>2, IssuedGrows DEF RuntimeTypeOK
  <2> QED BY <2>1, <2>2, <2>3 DEF Traced
<1> QED BY <1>1 DEF RuntimeTypeOK

LEMMA FaultCounted ==
  ASSUME RuntimeTypeOK, DbError
  PROVE  faults' \in 0 .. MaxFaults
BY RuntimeAssumption DEF RuntimeTypeOK, DbError

LEMMA TokenOf ==
  ASSUME RuntimeTypeOK, NEW o \in ops
  PROVE  o.job \in Job /\ o.token \in issued[o.job] /\ o.token \in Token
         /\ o.token.worker \in Worker /\ state[o.token.worker] \in Alive
<1>1. o.job \in Job /\ o.token \in issued[o.job] /\ state[o.token.worker] \in Alive
  BY DEF RuntimeTypeOK, Op
<1>2. o.token \in Token
  BY <1>1 DEF RuntimeTypeOK, TypeOK
<1> QED BY <1>1, <1>2 DEF Token

LEMMA RuntimeTypeStep == RuntimeTypeOK /\ [RuntimeNext]_vars => RuntimeTypeOK'
<1> SUFFICES ASSUME RuntimeTypeOK, [RuntimeNext]_vars PROVE RuntimeTypeOK'
  OBVIOUS
<1>0. [Next]_storeVars /\ TypeOK'
  BY StoreStep, TypeOKStep DEF RuntimeTypeOK
<1>1. Traced(ops)
  BY DEF Traced, RuntimeTypeOK
<1>t. /\ state \in [Worker -> Process] /\ permit \in [Worker -> BOOLEAN]
      /\ ops \subseteq Op /\ faults \in 0 .. MaxFaults
  BY DEF RuntimeTypeOK
<1>2. CASE Environment \/ UNCHANGED vars
  <2>1. UNCHANGED runtimeVars
    BY <1>2 DEF Environment, vars
  <2> QED BY <1>0, <1>1, <1>t, <2>1, TypeKept DEF runtimeVars, Traced
<1>3. ASSUME NEW w \in Worker, ProcessStep(w) PROVE RuntimeTypeOK'
  <2>1. CASE Start(w) \/ Stop(w) \/ ReleasePaused(w) \/ ReleaseAtStop(w)
    <3>1. /\ ops' = ops /\ UNCHANGED <<permit, faults>>
          /\ \E s \in Alive : state' = [state EXCEPT ![w] = s]
      BY <2>1 DEF Start, Stop, ReleasePaused, ReleaseAtStop, Alive
    <3>2. state' \in [Worker -> Process]
      BY <1>t, <3>1 DEF Process, Alive
    <3>3. \A v \in Worker : state[v] \in Alive => state'[v] \in Alive
      BY <1>t, <3>1
    <3> QED BY <1>0, <1>1, <1>t, <3>1, <3>2, <3>3, TokenOf, TypeKept DEF Traced
  <2>2. CASE Permit(w)
    BY <1>0, <1>1, <1>t, <2>2, TypeKept DEF Permit, Traced
  <2>3. CASE Pause(w)
    <3>1. faults' \in 0 .. MaxFaults
      BY <1>t, <2>3, FaultCounted DEF Pause
    <3>2. Traced(ops')
      BY <1>t, <2>3, TracedDetached DEF Pause
    <3>3. \E s \in Alive : state' = [state EXCEPT ![w] = s]
      BY <2>3 DEF Pause, Cancelled, Alive
    <3>4. /\ state' \in [Worker -> Process]
          /\ \A v \in Worker : state[v] \in Alive => state'[v] \in Alive
      BY <1>t, <3>3 DEF Process, Alive
    <3>5. \A o \in ops' : o.token.worker \in Worker
      BY <3>2, TokenOf DEF Traced
    <3>6. permit' \in [Worker -> BOOLEAN]
      BY <1>t, <2>3 DEF Pause
    <3> QED BY <1>0, <3>1, <3>2, <3>4, <3>5, <3>6, TypeKept
  <2>4. CASE ReleaseRaises(w)
    <3>1. faults' \in 0 .. MaxFaults
      BY <2>4, FaultCounted DEF ReleaseRaises
    <3>2. /\ state' = [state EXCEPT ![w] = "stopping"]
          /\ UNCHANGED <<permit, ops>>
      BY <2>4 DEF ReleaseRaises
    <3>3. /\ state' \in [Worker -> Process]
          /\ \A v \in Worker : state[v] \in Alive => state'[v] \in Alive
      BY <1>t, <3>2 DEF Process, Alive
    <3> QED BY <1>0, <1>1, <1>t, <3>1, <3>2, <3>3, TokenOf, TypeKept DEF Traced
  <2>5. ASSUME NEW j \in Job, NEW d \in Delay, Poll(w, j, d) PROVE RuntimeTypeOK'
    <3> DEFINE new == [job |-> j, token |-> NextToken(w, j),
                       phase |-> "begin", watched |-> TRUE]
    <3>1. /\ Claim(w, j, d) /\ ops' = ops \cup {new}
          /\ UNCHANGED <<state, permit, faults>> /\ state[w] = "running"
      BY <2>5 DEF Poll, MayPoll
    <3>2. NextToken(w, j) \in Token /\ NextToken(w, j).worker = w
      BY TokenType DEF NextToken, RuntimeTypeOK
    <3>3. NextToken(w, j) \in issued'[j]
      BY <3>1 DEF Claim, RuntimeTypeOK, TypeOK
    <3>4. new \in Op
      BY <3>2 DEF Op, Phase
    <3>5. \A o \in ops : o.token \in issued'[o.job] /\ state'[o.token.worker] \in Alive
      BY <1>0, <3>1, TokenOf, IssuedGrows DEF RuntimeTypeOK
    <3>6. \A o \in ops' : o.token \in issued'[o.job] /\ state'[o.token.worker] \in Alive
      BY <3>1, <3>2, <3>3, <3>5 DEF Alive
    <3> QED BY <1>0, <1>t, <3>1, <3>4, <3>6 DEF RuntimeTypeOK
  <2>6. ASSUME NEW d \in Delay, Sweep(w, d) PROVE RuntimeTypeOK'
    BY <1>0, <1>1, <1>t, <2>6, TypeKept DEF Sweep, runtimeVars, Traced
  <2>7. CASE GraceOver(w)
    <3>1. Traced(ops')
      BY <1>t, <2>7, TracedDetached DEF GraceOver
    <3> QED BY <1>0, <1>t, <2>7, <3>1, TypeKept DEF GraceOver
  <2>8. CASE Exit(w) \/ Crash(w)
    <3>1. /\ state' = [state EXCEPT ![w] = "down"]
          /\ ops' = ops \ Of(w) /\ UNCHANGED <<permit, faults>>
      BY <2>8 DEF Exit, Crash
    <3>2. Traced(ops')
      BY <1>t, <3>1 DEF Traced
    <3>3. \A o \in ops' : o.token.worker # w
      BY <3>1 DEF Of
    <3>4. state' \in [Worker -> Process]
      BY <1>t, <3>1 DEF Process
    <3>5. \A o \in ops' : state'[o.token.worker] = state[o.token.worker]
      BY <1>t, <3>1, <3>3, TokenOf
    <3> QED BY <1>0, <1>t, <3>1, <3>2, <3>4, <3>5, TypeKept
  <2> QED
    BY <1>3, <2>1, <2>2, <2>3, <2>4, <2>5, <2>6, <2>7, <2>8 DEF ProcessStep
<1>4. ASSUME NEW o \in ops,
             OpStep(o) \/ StepRaises(o) \/ ReportRaises(o) \/ LoseLease(o)
      PROVE  RuntimeTypeOK'
  <2>1. Traced(ops')
    BY <1>t, <1>4, TracedStep
  <2>2. UNCHANGED <<state, permit>> /\ (UNCHANGED faults \/ DbError)
    BY <1>4 DEF OpStep, Begin, Handle, Apply, Finish, Report, StepRaises,
       ReportRaises, LoseLease
  <2> QED BY <1>0, <1>t, <2>1, <2>2, FaultCounted, TypeKept
<1>5. ASSUME NEW o \in ops, NEW d \in Delay, Renew(o, d) PROVE RuntimeTypeOK'
  BY <1>0, <1>1, <1>t, <1>5, TypeKept DEF Renew, runtimeVars, Traced
<1> QED BY <1>2, <1>3, <1>4, <1>5 DEF RuntimeNext

\* Processes and operations always have the states of the worker's main loop.
THEOREM RuntimeTypeCorrect == RuntimeSpec => []RuntimeTypeOK
BY RuntimeTypeInit, RuntimeTypeStep, PTL DEF RuntimeSpec

\* A process step is a transaction of the store with a token of a claim, or none.
LEMMA StoreSpecHolds == RuntimeSpec => Spec
<1>1. RuntimeInit => Init
  BY DEF RuntimeInit
<1> QED BY <1>1, StoreStep, RuntimeTypeCorrect, PTL DEF RuntimeSpec, Spec

\* So everything proved of the store holds while they run.
LEMMA StoreInvariantHolds == RuntimeSpec => []StoreInv
BY StoreSpecHolds, StoreInvariant, PTL

(* ------------------------ leases have a keeper -------------------------- *)

\* A task that heartbeats the lease of job i.
Keeps(o, i) ==
  /\ o.watched /\ o.job = i
  /\ o.token.worker = jobs[i].owner /\ o.token.attempt = jobs[i].attempts

Letting == {"pausing", "stopping", "down"}

Kept(i) ==
  jobs[i].status = "LEASED" =>
    /\ jobs[i].owner \in Worker
    /\ faults = 0 => \/ state[jobs[i].owner] \in Letting
                     \/ \E o \in ops : Keeps(o, i)

\* Where leases, faults and processes on their way out stay as they are, it is
\* enough that whoever keeps a lease of a busy process goes on.
LEMMA KeptAlong ==
  ASSUME RuntimeTypeOK, NoClaim, NEW i \in Job, Kept(i),
         faults' = 0 => faults = 0,
         \A w \in Worker : state[w] \in Letting => state'[w] \in Letting,
         faults' = 0 => \A o \in ops : Keeps(o, i) =>
           \/ state'[o.token.worker] \in Letting
           \/ jobs'[i].status # "LEASED"
           \/ \E q \in ops' : q.watched /\ q.job = o.job /\ q.token = o.token
  PROVE  Kept(i)'
<1> SUFFICES ASSUME jobs'[i].status = "LEASED" PROVE Kept(i)'
  BY DEF Kept
<1>1. /\ jobs[i].status = "LEASED"
      /\ jobs'[i].owner = jobs[i].owner /\ jobs'[i].attempts = jobs[i].attempts
  BY LeaseNotGranted DEF RuntimeTypeOK
<1>2. jobs'[i].owner \in Worker
  BY <1>1 DEF Kept
<1>3. CASE faults' # 0
  BY <1>2, <1>3 DEF Kept
<1>4. CASE faults' = 0 /\ state[jobs[i].owner] \in Letting
  BY <1>1, <1>2, <1>4 DEF Kept
<1>5. CASE faults' = 0 /\ \E o \in ops : Keeps(o, i)
  <2>1. PICK o \in ops : Keeps(o, i)
    BY <1>5
  <2>2. CASE state'[o.token.worker] \in Letting
    BY <1>1, <1>2, <2>1, <2>2 DEF Kept, Keeps
  <2>3. CASE \E q \in ops' : q.watched /\ q.job = o.job /\ q.token = o.token
    BY <1>1, <1>2, <2>1, <2>3 DEF Kept, Keeps
  <2> QED BY <1>5, <2>1, <2>2, <2>3
<1> QED BY <1>1, <1>3, <1>4, <1>5 DEF Kept

\* An operation that is watched and moved is still watched.
LEMMA WatchedMove ==
  ASSUME NEW o \in ops, NEW phase, To(o, phase), ops \subseteq Op
  PROVE  \A p \in ops : p.watched =>
           \E q \in ops' : q.watched /\ q.job = p.job /\ q.token = p.token
<1> SUFFICES ASSUME NEW p \in ops, p.watched
             PROVE  \E q \in ops' : q.watched /\ q.job = p.job /\ q.token = p.token
  OBVIOUS
<1>1. CASE p = o
  <2> DEFINE q == [o EXCEPT !.phase = phase]
  <2>1. q \in ops'
    BY DEF To
  <2>2. q.watched /\ q.job = p.job /\ q.token = p.token
    BY <1>1 DEF Op
  <2> QED BY <2>1, <2>2
<1>2. CASE p # o
  BY <1>2 DEF To
<1> QED BY <1>1, <1>2

LEMMA WatchedRaise ==
  ASSUME NEW o \in ops, NEW retryable, Raise(o, retryable), ops \subseteq Op
  PROVE  \A p \in ops : p.watched =>
           \E q \in ops' : q.watched /\ q.job = p.job /\ q.token = p.token
<1>1. CASE o.watched
  BY <1>1, WatchedMove DEF Raise
<1>2. CASE ~o.watched
  BY <1>2 DEF Raise, End
<1> QED BY <1>1, <1>2

\* An operation that finishes or reports has settled its lease, or it held none.
LEMMA KeptAtEnd ==
  ASSUME RuntimeTypeOK, NEW o \in ops, Finish(o) \/ Report(o), NEW i \in Job,
         NEW p \in ops, Keeps(p, i)
  PROVE  \/ jobs'[i].status # "LEASED"
         \/ \E q \in ops' : q.watched /\ q.job = p.job /\ q.token = p.token
<1>1. CASE p # o
  BY <1>1 DEF Finish, Report, End, Keeps
<1>2. CASE p = o /\ Owns(o.job, o.token)
  <2>0. TypeOK /\ i = o.job
    BY <1>2 DEF RuntimeTypeOK, Keeps
  <2>1. CASE Complete(o.job, o.token)
    <3>1. jobs'[i] = Settled(jobs[i], "SUCCEEDED", 0) /\ jobs[i] \in JobRow
      BY <2>0, <2>1 DEF Complete, TypeOK
    <3>2. Settled(jobs[i], "SUCCEEDED", 0).status = "SUCCEEDED"
      BY <3>1 DEF Settled, JobRow
    <3> QED BY <3>1, <3>2
  <2>2. ASSUME NEW retryable \in BOOLEAN, NEW b \in 0 .. MaxBackoff, NEW d \in Delay,
               Fail(o.job, o.token, retryable, b, d)
        PROVE  jobs'[i].status # "LEASED"
    <3> DEFINE s == FailStatus(i, retryable)
               timer == IF s = "PENDING" THEN b - d ELSE 0
    <3>1. s \in {"FAILED", "DEAD", "PENDING"} /\ timer \in Timer
      BY FailStatusType, TimerWritten
    <3>2. jobs'[i] = Settled(jobs[i], s, timer) /\ jobs[i] \in JobRow
      BY <2>0, <2>2 DEF Fail, TypeOK
    <3> HIDE DEF s, timer
    <3>3. Settled(jobs[i], s, timer).status = s
      BY <3>2 DEF Settled, JobRow
    <3> QED BY <3>1, <3>2, <3>3
  <2>3. Retryable(o) \in BOOLEAN
        /\ \A b \in 0 .. MaxBackoff : (IF Retryable(o) THEN b ELSE 0) \in 0 .. MaxBackoff
    BY TimeAssumption DEF Retryable
  <2> QED BY <1>2, <2>1, <2>2, <2>3 DEF Finish, Report
<1>3. CASE p = o /\ ~Owns(o.job, o.token)
  <2>1. jobs[i].status # "LEASED"
    BY <1>3 DEF Keeps, Owns
  <2>2. UNCHANGED storeVars
    BY <1>3 DEF Finish, Report, Complete, Fail
  <2> QED BY <2>1, <2>2 DEF storeVars
<1> QED BY <1>1, <1>2, <1>3

\* Giving the leases of a process back leaves the leases of the others.
LEMMA KeptRelease ==
  ASSUME RuntimeTypeOK, NEW w \in Worker, ReleaseLeases(w), UNCHANGED <<ops, faults>>,
         NEW s \in Process, state' = [state EXCEPT ![w] = s], NEW i \in Job, Kept(i)
  PROVE  Kept(i)'
<1> SUFFICES ASSUME jobs'[i].status = "LEASED" PROVE Kept(i)'
  BY DEF Kept
<1>1. i \notin Leased(w)
  <2>1. SUFFICES ASSUME i \in Leased(w) PROVE FALSE
    OBVIOUS
  <2>2. jobs'[i] = Settled(jobs[i], "PENDING", 0) /\ jobs[i] \in JobRow
    BY <2>1 DEF ReleaseLeases, RuntimeTypeOK, TypeOK
  <2>3. Settled(jobs[i], "PENDING", 0).status = "PENDING"
    BY <2>2, SettledRow, TimerWritten DEF Status
  <2> QED BY <2>2, <2>3
<1>2. jobs'[i] = jobs[i] /\ jobs[i].owner # w
  BY <1>1 DEF ReleaseLeases, Leased
<1>3. jobs[i].owner \in Worker
  BY <1>2 DEF Kept
<1>4. state'[jobs[i].owner] = state[jobs[i].owner]
  BY <1>2, <1>3 DEF RuntimeTypeOK
<1> QED BY <1>2, <1>4 DEF Kept, Keeps

LEMMA KeptPoll ==
  ASSUME RuntimeTypeOK, NEW w \in Worker, NEW j \in Job, NEW d \in Delay, Poll(w, j, d),
         NEW i \in Job, Kept(i)
  PROVE  Kept(i)'
<1> DEFINE new == [job |-> j, token |-> NextToken(w, j),
                   phase |-> "begin", watched |-> TRUE]
<1>1. /\ Claim(w, j, d) /\ ops' = ops \cup {new} /\ UNCHANGED <<state, faults>>
  BY DEF Poll
<1>2. CASE i = j
  <2>1. jobs[i] \in JobRow
    BY DEF RuntimeTypeOK, TypeOK
  <2>2. jobs'[i].owner = w /\ jobs'[i].attempts = jobs[i].attempts + 1
    BY <1>1, <1>2, <2>1 DEF Claim, RuntimeTypeOK, TypeOK, JobRow
  <2>3. new \in ops' /\ new.watched /\ new.job = i
        /\ new.token.worker = w /\ new.token.attempt = jobs[i].attempts + 1
    BY <1>1, <1>2 DEF NextToken
  <2> QED BY <2>2, <2>3 DEF Kept, Keeps
<1>3. CASE i # j
  <2>1. jobs'[i] = jobs[i]
    BY <1>1, <1>3 DEF Claim, RuntimeTypeOK, TypeOK
  <2> QED BY <1>1, <2>1 DEF Kept, Keeps
<1> QED BY <1>2, <1>3

LEMMA KeptProcess ==
  ASSUME RuntimeTypeOK, NEW w \in Worker, ProcessStep(w), NEW i \in Job, Kept(i)
  PROVE  Kept(i)'
<1>t. state \in [Worker -> Process] /\ faults \in Nat
  BY RuntimeAssumption DEF RuntimeTypeOK
<1>1. CASE Start(w) \/ Permit(w) \/ Stop(w)
  <2>1. /\ UNCHANGED <<storeVars, ops, faults>>
        /\ \A v \in Worker : state[v] \in Letting => state'[v] \in Letting
    BY <1>t, <1>1 DEF Start, Permit, Stop, Letting
  <2> QED BY <2>1, KeptAlong DEF NoClaim, Keeps
<1>2. CASE Pause(w)
  <2>1. /\ UNCHANGED storeVars /\ ops' = Detached(w)
        /\ \A v \in Worker : state[v] \in Letting => state'[v] \in Letting
    BY <1>t, <1>2 DEF Pause, Letting
  <2>2. faults' = 0 => faults = 0
    BY <1>t, <1>2 DEF Pause, DbError
  <2>3. ASSUME NEW o \in ops, Keeps(o, i)
        PROVE  state'[o.token.worker] \in Letting \/ o \in ops'
    <3>1. CASE o.token.worker = w
      <4>1. o \in Active(w)
        BY <2>3, <3>1 DEF Active, Of, Keeps
      <4> QED BY <1>t, <1>2, <3>1, <4>1 DEF Pause, Cancelled, Letting
    <3>2. CASE o.token.worker # w
      BY <2>1, <3>2 DEF Detached, Active, Of
    <3> QED BY <3>1, <3>2
  <2>4. \A o \in ops : Keeps(o, i) => o.watched
    BY DEF Keeps
  <2> QED BY <2>1, <2>2, <2>3, <2>4, KeptAlong DEF NoClaim
<1>3. CASE ReleasePaused(w) \/ ReleaseAtStop(w)
  <2>1. \E s \in Process : state' = [state EXCEPT ![w] = s]
    BY <1>3 DEF ReleasePaused, ReleaseAtStop, Process
  <2> QED BY <1>3, <2>1, KeptRelease DEF ReleasePaused, ReleaseAtStop
<1>4. CASE ReleaseRaises(w)
  <2>1. /\ UNCHANGED storeVars /\ faults' # 0
        /\ \A v \in Worker : state[v] \in Letting => state'[v] \in Letting
    BY <1>t, <1>4 DEF ReleaseRaises, DbError, Letting
  <2> QED BY <2>1, KeptAlong DEF NoClaim
<1>5. ASSUME NEW j \in Job, NEW d \in Delay, Poll(w, j, d) PROVE Kept(i)'
  BY <1>5, KeptPoll
<1>6. ASSUME NEW d \in Delay, Sweep(w, d) PROVE Kept(i)'
  <2>1. NoClaim /\ UNCHANGED <<state, ops, faults>>
    BY <1>6 DEF Sweep, NoClaim, runtimeVars
  <2> QED BY <2>1, KeptAlong DEF Keeps
<1>7. CASE GraceOver(w)
  <2>1. /\ UNCHANGED <<storeVars, state, faults>>
        /\ ops' = Detached(w) /\ state[w] \in Letting
    BY <1>7 DEF GraceOver, Letting
  <2>2. \A o \in ops : o.token.worker # w => o \in ops'
    BY <2>1 DEF Detached, Active, Of
  <2> QED BY <2>1, <2>2, KeptAlong DEF NoClaim, Keeps
<1>8. CASE Exit(w) \/ Crash(w)
  <2>1. /\ UNCHANGED <<storeVars, faults>>
        /\ state' = [state EXCEPT ![w] = "down"] /\ ops' = ops \ Of(w)
    BY <1>8 DEF Exit, Crash
  <2>2. /\ \A v \in Worker : state[v] \in Letting => state'[v] \in Letting
        /\ \A o \in ops : state'[o.token.worker] \in Letting \/ o \in ops'
    BY <1>t, <2>1 DEF Letting, Of
  <2> QED BY <2>1, <2>2, KeptAlong DEF NoClaim, Keeps
<1> QED BY <1>1, <1>2, <1>3, <1>4, <1>5, <1>6, <1>7, <1>8 DEF ProcessStep

LEMMA KeptOperation ==
  ASSUME RuntimeTypeOK, NEW o \in ops,
         OpStep(o) \/ StepRaises(o) \/ ReportRaises(o) \/ LoseLease(o),
         NEW i \in Job, Kept(i)
  PROVE  Kept(i)'
<1>0. ops \subseteq Op /\ faults \in Nat
  BY RuntimeAssumption DEF RuntimeTypeOK
<1>1. NoClaim
  BY OperationStep DEF NoClaim
<1>2. UNCHANGED state /\ (faults' = 0 => faults = 0)
  <2>1. UNCHANGED state /\ (UNCHANGED faults \/ DbError)
    BY DEF OpStep, Begin, Handle, Apply, Finish, Report, StepRaises, ReportRaises, LoseLease
  <2> QED BY <1>0, <2>1 DEF DbError
<1>3. CASE Begin(o) \/ Handle(o) \/ Apply(o) \/ LoseLease(o)
  <2>1. \A p \in ops : p.watched =>
          \E q \in ops' : q.watched /\ q.job = p.job /\ q.token = p.token
    BY <1>0, <1>3, WatchedMove, WatchedRaise
       DEF Begin, Handle, Apply, Reject, LoseLease
  <2> QED BY <1>1, <1>2, <2>1, KeptAlong DEF Keeps
<1>4. CASE Finish(o) \/ Report(o)
  <2>1. \A p \in ops : Keeps(p, i) =>
          \/ jobs'[i].status # "LEASED"
          \/ \E q \in ops' : q.watched /\ q.job = p.job /\ q.token = p.token
    <3> SUFFICES ASSUME NEW p \in ops, Keeps(p, i)
                 PROVE  \/ jobs'[i].status # "LEASED"
                        \/ \E q \in ops' : /\ q.watched
                                            /\ q.job = p.job /\ q.token = p.token
      OBVIOUS
    <3> QED BY <1>4, KeptAtEnd
  <2> QED BY <1>1, <1>2, <2>1, KeptAlong
<1>5. CASE StepRaises(o) \/ ReportRaises(o)
  <2>1. DbError
    BY <1>5 DEF StepRaises, ReportRaises
  <2>2. faults' # 0
    BY <1>0, <2>1 DEF DbError
  <2> QED BY <1>1, <1>2, <2>2, KeptAlong
<1> QED BY <1>3, <1>4, <1>5 DEF OpStep

LEMMA KeptStep ==
  ASSUME RuntimeTypeOK, [RuntimeNext]_vars, NEW i \in Job, Kept(i)
  PROVE  Kept(i)'
<1>1. CASE Environment \/ UNCHANGED vars \/ \E o \in ops, d \in Delay : Renew(o, d)
  <2>1. UNCHANGED <<state, ops, faults>>
    BY <1>1 DEF Environment, vars, Renew, runtimeVars
  <2>2. NoClaim
    BY <1>1, OperationStep DEF Environment, vars, NoClaim
  <2> QED BY <2>1, <2>2, KeptAlong DEF Keeps
<1>2. ASSUME NEW w \in Worker, ProcessStep(w) PROVE Kept(i)'
  BY <1>2, KeptProcess
<1>3. ASSUME NEW o \in ops,
             OpStep(o) \/ StepRaises(o) \/ ReportRaises(o) \/ LoseLease(o)
      PROVE  Kept(i)'
  BY <1>3, KeptOperation
<1> QED BY <1>1, <1>2, <1>3 DEF RuntimeNext

\* Without database errors no process that is up leaks a lease.
THEOREM KeeperTheorem == RuntimeSpec => []LeaseHasKeeper
<1> DEFINE Inv == \A i \in Job : Kept(i)
<1>1. RuntimeInit => Inv
  BY DEF RuntimeInit, Init, NewRow, Kept
<1>2. RuntimeTypeOK /\ Inv /\ [RuntimeNext]_vars => Inv'
  BY KeptStep
<1>3. RuntimeTypeOK /\ Inv => LeaseHasKeeper
  BY DEF LeaseHasKeeper, Kept, Keeps, Letting, Active, Of, Owns
<1> QED BY <1>1, <1>2, <1>3, RuntimeTypeCorrect, PTL DEF RuntimeSpec

(* --------------------- what succeeded was applied ----------------------- *)

\* Every transaction but a completion.
NoCompletion ==
  \/ \E j \in Job : ByApi(j) \/ Retire(j)
  \/ \E j \in Job : \E t \in issued[j] :
       \/ \E d \in Delay : Heartbeat(j, t, d)
       \/ \E retryable \in BOOLEAN, b \in 0 .. MaxBackoff, d \in Delay :
            Fail(j, t, retryable, b, d)
       \/ ApplyResult(j, t)
  \/ \E w \in Worker : ReleaseLeases(w)
  \/ \E w \in Worker, j \in Job, d \in Delay : Claim(w, j, d)
  \/ \E d \in Delay : Reap(d)
  \/ Disable \/ Enable \/ Tick \/ UNCHANGED storeVars

\* What becomes of the status of one row when one row is rewritten.
LEMMA StatusSettled ==
  ASSUME TypeOK, NEW i \in Job, NEW S \in SUBSET Job, NEW s \in Status \cup Missing,
         NEW timer \in Timer,
         jobs'[i] = IF i \in S THEN Settled(jobs[i], s, timer) ELSE jobs[i]
  PROVE  jobs'[i].status = IF i \in S THEN s ELSE jobs[i].status
<1>1. jobs[i] \in JobRow
  BY DEF TypeOK
<1>2. Settled(jobs[i], s, timer).status = s
  BY <1>1, SettledRow
<1> QED BY <1>2

LEMMA StatusFailed ==
  ASSUME TypeOK, NEW j \in Job, NEW t, NEW retryable \in BOOLEAN,
         NEW b \in 0 .. MaxBackoff, NEW d \in Delay, Fail(j, t, retryable, b, d)
  PROVE  /\ jobs'[j].status \in {"FAILED", "DEAD", "PENDING"}
         /\ \A i \in Job : i # j => jobs'[i] = jobs[i]
<1> DEFINE s == FailStatus(j, retryable)
           timer == IF s = "PENDING" THEN b - d ELSE 0
<1>1. s \in {"FAILED", "DEAD", "PENDING"} /\ timer \in Timer
  BY FailStatusType, TimerWritten
<1>2. jobs' = [jobs EXCEPT ![j] = Settled(jobs[j], s, timer)]
  BY DEF Fail
<1> HIDE DEF s, timer
<1>3. jobs'[j] = IF j \in {j} THEN Settled(jobs[j], s, timer) ELSE jobs[j]
  BY <1>2 DEF TypeOK
<1>4. jobs'[j].status = s
  BY <1>1, <1>3, StatusSettled DEF Status
<1> QED BY <1>1, <1>2, <1>4 DEF TypeOK

\* How an API transaction moves the status of the row it is about.
LEMMA StatusByApi ==
  ASSUME TypeOK, NEW j \in Job, ByApi(j)
  PROVE  /\ \A i \in Job : i # j => jobs'[i] = jobs[i]
         /\ \/ jobs[j].status = "NONE" /\ jobs'[j].status = "PENDING" /\ reset' = reset
            \/ RequestExport(j) /\ jobs'[j].status = "PENDING"
            \/ /\ jobs[j].status \in Stopped /\ jobs'[j].status = "PENDING"
               /\ reset' = [reset EXCEPT ![j] = epoch[j] + 1]
            \/ jobs[j].status = "PENDING" /\ jobs'[j].status = "CANCELLED" /\ reset' = reset
            \/ jobs'[j] = jobs[j] /\ reset' = reset
         /\ \/ RequestExport(j)
            \/ receipt' = receipt /\ epoch'[j] \in {epoch[j], epoch[j] + 1}
         /\ \A i \in Job : i # j => epoch'[i] = epoch[i]
<1> USE DEF TypeOK, history
<1>1. CASE (\E wait \in 0 .. MaxBackoff : Enqueue(j, wait))
             \/ ScheduleCrawl(j) \/ CreateShareCard(j)
  <2>1. PICK wait \in 0 .. MaxBackoff : Insert(j, wait)
    BY <1>1, TimeAssumption DEF Enqueue, ScheduleCrawl, CreateShareCard
  <2>2. UNCHANGED <<receipt, epoch, reset>>
    BY <1>1 DEF Enqueue, ScheduleCrawl, CreateShareCard
  <2> QED BY <2>1, <2>2 DEF Insert, JobRow
<1>2. CASE RequestExport(j)
  BY <1>2, ExtendedRow DEF RequestExport
<1>3. CASE Retry(j)
  BY <1>3, ReopenedRow DEF Retry
<1>4. CASE Cancel(j)
  <2>1. jobs'[j] = IF j \in {j} THEN Settled(jobs[j], "CANCELLED", 0) ELSE jobs[j]
    BY <1>4 DEF Cancel
  <2>2. jobs'[j].status = "CANCELLED"
    BY <2>1, StatusSettled, TimerWritten DEF Status
  <2> QED BY <1>4, <2>2 DEF Cancel
<1>5. CASE RetryShareCard(j)
  BY <1>5, ReopenedRow DEF RetryShareCard
<1>6. CASE RevokeShareCard(j)
  BY <1>6 DEF RevokeShareCard
<1> QED BY <1>1, <1>2, <1>3, <1>4, <1>5, <1>6 DEF ByApi

LEMMA NotCompleted ==
  ASSUME TypeOK, NoCompletion, NEW i \in Job, jobs'[i].status = "SUCCEEDED"
  PROVE  jobs[i].status = "SUCCEEDED"
<1>1. ASSUME NEW j \in Job, ByApi(j) PROVE jobs[i].status = "SUCCEEDED"
  BY <1>1, StatusByApi DEF TypeOK
<1>2. ASSUME NEW j \in Job, Retire(j) PROVE jobs[i].status = "SUCCEEDED"
  <2>1. jobs'[i] = IF i \in {j} THEN Settled(jobs[i], "RETIRED", 0) ELSE jobs[i]
    BY <1>2 DEF Retire, TypeOK
  <2> QED BY <2>1, StatusSettled, TimerWritten DEF Missing
<1>3. ASSUME NEW j \in Job, NEW t \in issued[j],
             \/ \E d \in Delay : Heartbeat(j, t, d)
             \/ ApplyResult(j, t)
      PROVE  jobs[i].status = "SUCCEEDED"
  BY <1>3 DEF Heartbeat, ApplyResult, TypeOK, JobRow
<1>4. ASSUME NEW j \in Job, NEW t \in issued[j], NEW retryable \in BOOLEAN,
             NEW b \in 0 .. MaxBackoff, NEW d \in Delay, Fail(j, t, retryable, b, d)
      PROVE  jobs[i].status = "SUCCEEDED"
  BY <1>4, StatusFailed
<1>5. ASSUME NEW w \in Worker, ReleaseLeases(w) PROVE jobs[i].status = "SUCCEEDED"
  <2>1. jobs'[i] = IF i \in Leased(w) THEN Settled(jobs[i], "PENDING", 0) ELSE jobs[i]
    BY <1>5 DEF ReleaseLeases
  <2> QED BY <2>1, StatusSettled, TimerWritten DEF Status, Leased
<1>6. ASSUME NEW w \in Worker, NEW j \in Job, NEW d \in Delay, Claim(w, j, d)
      PROVE  jobs[i].status = "SUCCEEDED"
  BY <1>6 DEF Claim, TypeOK, JobRow
<1>7. ASSUME NEW d \in Delay, Reap(d) PROVE jobs[i].status = "SUCCEEDED"
  <2>1. jobs'[i] = IF i \in ReapSet(d) THEN Settled(jobs[i], "DEAD", 0) ELSE jobs[i]
    BY <1>7 DEF Reap
  <2> QED BY <2>1, StatusSettled, TimerWritten DEF Status, ReapSet
<1>8. CASE Disable
  <2> DEFINE S == {j \in Job : jobs[j].status \in {"PENDING", "LEASED"}}
  <2>1. jobs'[i] = IF i \in S THEN Settled(jobs[i], "CANCELLED", 0) ELSE jobs[i]
    BY <1>8 DEF Disable
  <2> QED BY <2>1, StatusSettled, TimerWritten DEF Status
<1>9. CASE Enable \/ Tick \/ UNCHANGED storeVars
  BY <1>9 DEF Enable, Tick, storeVars, rows, TypeOK, JobRow
<1> QED BY <1>1, <1>2, <1>3, <1>4, <1>5, <1>6, <1>7, <1>8, <1>9 DEF NoCompletion

\* A receipt is dropped with its row, or by a repeated export; a row that
\* retention removed does not come back.
LEMMA ReceiptKept ==
  ASSUME TypeOK, [Next]_storeVars, NEW i \in Job
  PROVE  /\ jobs[i].status = "RETIRED" => jobs'[i].status = "RETIRED"
         /\ epoch[i] <= epoch'[i]
         /\ receipt[i] # NoToken =>
              \/ receipt'[i] # NoToken
              \/ jobs'[i].status = "RETIRED"
              \/ Is(i, "export_user") /\ epoch[i] < epoch'[i] /\ jobs'[i].status = "PENDING"
<1> USE DEF TypeOK, history
<1> DEFINE Goal ==
      /\ jobs[i].status = "RETIRED" => jobs'[i].status = "RETIRED"
      /\ epoch[i] <= epoch'[i]
      /\ receipt[i] # NoToken =>
           \/ receipt'[i] # NoToken
           \/ jobs'[i].status = "RETIRED"
           \/ Is(i, "export_user") /\ epoch[i] < epoch'[i] /\ jobs'[i].status = "PENDING"
<1>0. epoch[i] \in Nat
  OBVIOUS
<1>1. ASSUME NEW j \in Job, ByApi(j), i # j \/ ~RequestExport(j)
      PROVE  receipt'[i] = receipt[i] /\ epoch[i] <= epoch'[i]
  <2>1. epoch'[i] \in {epoch[i], epoch[i] + 1}
    BY <1>1, StatusByApi DEF RequestExport
  <2> QED BY <1>1, <2>1, StatusByApi DEF RequestExport
<1>2. ASSUME NEW j \in Job, ByApi(j), jobs[i].status = "RETIRED"
      PROVE  jobs'[i].status = "RETIRED"
  BY <1>2, StatusByApi DEF RequestExport, Stopped
<1>3. ASSUME RequestExport(i)
      PROVE  Is(i, "export_user") /\ epoch[i] < epoch'[i] /\ jobs'[i].status = "PENDING"
  BY <1>3, ExtendedRow DEF RequestExport
<1>4. ASSUME NEW j \in Job, Retire(j)
      PROVE  /\ jobs'[i].status = IF i = j THEN "RETIRED" ELSE jobs[i].status
             /\ epoch'[i] = epoch[i] /\ (i # j => receipt'[i] = receipt[i])
  BY <1>4, SettleOne, TimerWritten DEF Retire, Missing
<1>5. ASSUME NEW j \in Job, NEW t \in issued[j], ByToken(j, t)
      PROVE  /\ epoch'[i] = epoch[i] /\ (receipt[i] # NoToken => receipt'[i] = receipt[i])
             /\ jobs[i].status = "RETIRED" => jobs'[i].status = "RETIRED"
  <2>1. CASE \E d \in Delay : Heartbeat(j, t, d)
    <3>1. UNCHANGED <<receipt, epoch>>
      BY <2>1 DEF Heartbeat
    <3>2. jobs'[i].status = jobs[i].status
      BY <2>1 DEF Heartbeat, JobRow
    <3> QED BY <3>1, <3>2
  <2>2. CASE Complete(j, t)
    BY <2>2, SettleOne, TimerWritten DEF Complete, Status, Owns
  <2>3. ASSUME NEW retryable \in BOOLEAN, NEW b \in 0 .. MaxBackoff, NEW d \in Delay,
               Fail(j, t, retryable, b, d)
        PROVE  /\ epoch'[i] = epoch[i] /\ receipt'[i] = receipt[i]
               /\ jobs[i].status = "RETIRED" => jobs'[i].status = "RETIRED"
    <3>1. i # j => jobs'[i] = jobs[i]
      BY <2>3, StatusFailed
    <3>2. jobs[j].status = "LEASED" /\ UNCHANGED <<receipt, epoch>>
      BY <2>3 DEF Fail, Owns
    <3> QED BY <3>1, <3>2
  <2>4. CASE ApplyResult(j, t)
    BY <2>4 DEF ApplyResult, FirstResult
  <2> QED BY <1>5, <2>1, <2>2, <2>3, <2>4 DEF ByToken
<1>6. ASSUME NEW w \in Worker, ReleaseLeases(w)
      PROVE  /\ UNCHANGED <<receipt, epoch>>
             /\ jobs[i].status = "RETIRED" => jobs'[i].status = "RETIRED"
  BY <1>6 DEF ReleaseLeases, Leased
<1>7. ASSUME NEW w \in Worker, NEW j \in Job, NEW d \in Delay, Claim(w, j, d)
      PROVE  /\ UNCHANGED <<receipt, epoch>>
             /\ jobs[i].status = "RETIRED" => jobs'[i].status = "RETIRED"
  BY <1>7 DEF Claim, Claimable, Due
<1>8. ASSUME NEW d \in Delay, Reap(d)
      PROVE  /\ UNCHANGED <<receipt, epoch>>
             /\ jobs[i].status = "RETIRED" => jobs'[i].status = "RETIRED"
  BY <1>8 DEF Reap, ReapSet, Due
<1>9. ASSUME Disable \/ Enable \/ Tick \/ UNCHANGED storeVars
      PROVE  /\ UNCHANGED <<receipt, epoch>>
             /\ jobs[i].status = "RETIRED" => jobs'[i].status = "RETIRED"
  <2>1. UNCHANGED <<receipt, epoch>>
    BY <1>9 DEF Disable, Enable, Tick, storeVars, rows
  <2>2. jobs[i].status = "RETIRED" => jobs'[i] = jobs[i]
    BY <1>9 DEF Disable, Enable, Tick, storeVars, rows
  <2> QED BY <2>1, <2>2
<1>10. ASSUME NEW j \in Job, ByApi(j) PROVE Goal
  <2>1. CASE i # j \/ ~RequestExport(j)
    BY <1>1, <1>2, <1>10, <2>1
  <2>2. CASE RequestExport(i)
    BY <1>0, <1>3, <2>2 DEF RequestExport, Stopped
  <2> QED BY <2>1, <2>2
<1>11. ASSUME NEW j \in Job, Retire(j) PROVE Goal
  BY <1>0, <1>4, <1>11
<1>12. ASSUME NEW j \in Job, NEW t \in issued[j], ByToken(j, t) PROVE Goal
  BY <1>0, <1>5, <1>12
<1>13. CASE (\E w \in Worker : ReleaseLeases(w)) \/ (\E d \in Delay : Reap(d))
              \/ \E w \in Worker, j \in Job, d \in Delay : Claim(w, j, d)
  BY <1>0, <1>6, <1>7, <1>8, <1>13
<1>14. CASE Disable \/ Enable \/ Tick \/ UNCHANGED storeVars
  BY <1>0, <1>9, <1>14
<1>15. Goal
  BY <1>10, <1>11, <1>12, <1>13, <1>14 DEF Next
<1> QED BY <1>15

LEMMA ResetKept ==
  ASSUME TypeOK, [Next]_storeVars, NEW i \in Job, reset'[i] = 0
  PROVE  reset[i] = 0
<1> USE DEF TypeOK, history
<1>1. ASSUME NEW j \in Job, ByApi(j) PROVE reset[i] = 0
  <2>1. CASE RequestExport(j)
    BY <2>1 DEF RequestExport
  <2>2. CASE ~RequestExport(j)
    <3>1. reset' = reset \/ reset' = [reset EXCEPT ![j] = epoch[j] + 1]
      BY <1>1, <2>2, StatusByApi
    <3>2. epoch[j] \in Nat
      OBVIOUS
    <3> QED BY <3>1, <3>2
  <2> QED BY <2>1, <2>2
<1>2. ASSUME NEW j \in Job, NEW t \in issued[j], ByToken(j, t) PROVE reset[i] = 0
  BY <1>2 DEF ByToken, Heartbeat, Complete, Fail, ApplyResult
<1>3. CASE (\E j \in Job : Retire(j)) \/ (\E w \in Worker : ReleaseLeases(w))
           \/ (\E w \in Worker, j \in Job, d \in Delay : Claim(w, j, d))
           \/ (\E d \in Delay : Reap(d)) \/ Disable \/ Enable \/ Tick \/ UNCHANGED storeVars
  BY <1>3 DEF Retire, ReleaseLeases, Claim, Reap, Disable, Enable, Tick, storeVars
<1> QED BY <1>1, <1>2, <1>3 DEF Next

\* The operation o goes on to complete its job only with a receipt in place;
\* it may have been dropped since, and then the lease is gone as well.
Finishing(o) ==
  Reliable(o.job) /\ o.phase = "finish" =>
    \/ receipt[o.job] # NoToken
    \/ jobs[o.job].status = "RETIRED"
    \/ Is(o.job, "export_user") /\ o.token.epoch < epoch[o.job]

Applied(i) == Reliable(i) /\ jobs[i].status = "SUCCEEDED" => receipt[i] # NoToken

AppliedInv == (\A o \in ops : Finishing(o)) /\ (\A i \in Job : Applied(i))

\* What holds of an operation that finishes keeps holding while it waits.
LEMMA FinishingKept ==
  ASSUME RuntimeTypeOK, StoreInv, [Next]_storeVars, NEW o \in ops, Finishing(o)
  PROVE  Finishing(o)'
<1>1. TypeOK /\ o.job \in Job /\ o.token \in issued[o.job]
  BY TokenOf DEF RuntimeTypeOK
<1>2. epoch[o.job] \in Nat /\ epoch'[o.job] \in Nat /\ o.token.epoch \in Nat
  BY <1>1, TypeOKStep DEF TypeOK, Token
<1>3. /\ jobs[o.job].status = "RETIRED" => jobs'[o.job].status = "RETIRED"
      /\ epoch[o.job] <= epoch'[o.job]
      /\ receipt[o.job] # NoToken =>
           \/ receipt'[o.job] # NoToken
           \/ jobs'[o.job].status = "RETIRED"
           \/ Is(o.job, "export_user") /\ epoch[o.job] < epoch'[o.job]
  BY <1>1, ReceiptKept
<1>4. o.token.epoch <= epoch[o.job]
  BY <1>1 DEF StoreInv, BudgetInv
<1>5. Reliable(o.job)' => Reliable(o.job)
  BY <1>1, ResetKept DEF Reliable, Is
<1> QED BY <1>1, <1>2, <1>3, <1>4, <1>5 DEF Finishing, Is

\* Only an operation that finishes completes a job.
LEMMA OnlyFinishCompletes ==
  ASSUME RuntimeTypeOK, [RuntimeNext]_vars
  PROVE  NoCompletion \/ \E o \in ops : Finish(o)
<1>1. CASE Environment
  BY <1>1 DEF Environment, NoCompletion
<1>2. ASSUME NEW w \in Worker, ProcessStep(w) PROVE NoCompletion
  BY <1>2 DEF ProcessStep, Start, Permit, Pause, ReleasePaused, ReleaseRaises, Poll, Sweep,
     Stop, GraceOver, ReleaseAtStop, Exit, Crash, NoCompletion
<1>3. ASSUME NEW o \in ops, ~Finish(o),
             \/ OpStep(o) \/ StepRaises(o) \/ ReportRaises(o) \/ LoseLease(o)
             \/ \E d \in Delay : Renew(o, d)
      PROVE  NoCompletion
  <2>1. o.job \in Job /\ o.token \in issued[o.job]
    BY TokenOf
  <2>2. CASE Begin(o) \/ Handle(o) \/ StepRaises(o) \/ ReportRaises(o) \/ LoseLease(o)
    BY <2>2 DEF Begin, Handle, StepRaises, ReportRaises, LoseLease, NoCompletion
  <2>3. CASE Apply(o)
    BY <2>1, <2>3 DEF Apply, NoCompletion
  <2>4. CASE Report(o)
    <3>1. CASE UNCHANGED storeVars
      BY <3>1 DEF NoCompletion
    <3>2. CASE ~UNCHANGED storeVars
      <4>1. PICK b \in 0 .. MaxBackoff, d \in Delay :
              Fail(o.job, o.token, Retryable(o), IF Retryable(o) THEN b ELSE 0, d)
        BY <2>4, <3>2 DEF Report
      <4>2. /\ Retryable(o) \in BOOLEAN
            /\ (IF Retryable(o) THEN b ELSE 0) \in 0 .. MaxBackoff
        BY TimeAssumption DEF Retryable
      <4> QED BY <2>1, <4>1, <4>2 DEF NoCompletion
    <3> QED BY <3>1, <3>2
  <2>5. ASSUME NEW d \in Delay, Renew(o, d) PROVE NoCompletion
    BY <2>1, <2>5 DEF Renew, NoCompletion
  <2> QED BY <1>3, <2>2, <2>3, <2>4, <2>5 DEF OpStep
<1>4. CASE UNCHANGED vars
  BY <1>4 DEF vars, NoCompletion
<1> QED BY <1>1, <1>2, <1>3, <1>4 DEF RuntimeNext

\* An operation is about to finish because it was, or because it has applied.
LEMMA FinishSource ==
  ASSUME RuntimeTypeOK, [RuntimeNext]_vars, NEW q \in ops', q.phase = "finish"
  PROVE  \/ \E o \in ops : o.job = q.job /\ o.token = q.token /\ o.phase = "finish"
         \/ receipt'[q.job] # NoToken
<1>0. ops \subseteq Op
  BY DEF RuntimeTypeOK
<1> DEFINE Was == \E o \in ops : o.job = q.job /\ o.token = q.token /\ o.phase = "finish"
<1>m. ASSUME NEW o \in ops, NEW phase, phase # "finish", To(o, phase) PROVE Was
  BY <1>0, <1>m DEF To, Op
<1>e. ASSUME NEW o \in ops, End(o) PROVE Was
  BY <1>e DEF End
<1>r. ASSUME NEW o \in ops, NEW retryable, Raise(o, retryable) PROVE Was
  BY <1>m, <1>e, <1>r DEF Raise
<1>d. ASSUME NEW w \in Worker, ops' = Detached(w) PROVE Was
  BY <1>0, <1>d DEF Detached, Active, Of, Op
<1>1. CASE Environment \/ UNCHANGED vars \/ \E o \in ops, d \in Delay : Renew(o, d)
  BY <1>1 DEF Environment, vars, Renew, runtimeVars
<1>2. ASSUME NEW w \in Worker, ProcessStep(w) PROVE Was
  <2>1. CASE Pause(w) \/ GraceOver(w)
    BY <1>d, <2>1 DEF Pause, GraceOver
  <2>2. ASSUME NEW j \in Job, NEW d \in Delay, Poll(w, j, d) PROVE Was
    BY <2>2 DEF Poll
  <2>3. CASE ~(Pause(w) \/ GraceOver(w) \/ \E j \in Job, d \in Delay : Poll(w, j, d))
    BY <1>2, <2>3 DEF ProcessStep, Start, Permit, ReleasePaused, ReleaseRaises, Sweep,
       Stop, ReleaseAtStop, Exit, Crash, runtimeVars
  <2> QED BY <2>1, <2>2, <2>3
<1>3. ASSUME NEW o \in ops, Apply(o) PROVE Was \/ receipt'[q.job] # NoToken
  <2>1. o.job \in Job /\ o.token # NoToken /\ receipt \in [Job -> Token \cup {NoToken}]
    BY TokenOf, TokenAssumption DEF RuntimeTypeOK, TypeOK, Token
  <2>2. CASE Reject(o)
    BY <1>r, <2>2 DEF Reject
  <2>3. CASE To(o, "finish") /\ receipt'[o.job] # NoToken
    BY <1>0, <2>3 DEF To, Op
  <2>4. CASE ApplyResult(o.job, o.token) \/ (receipt[o.job] # NoToken /\ UNCHANGED storeVars)
    <3>1. receipt'[o.job] # NoToken
      BY <2>1, <2>4 DEF ApplyResult, storeVars
    <3> QED BY <1>3, <2>2, <2>3, <3>1 DEF Apply
  <2> QED BY <1>3, <2>2, <2>4 DEF Apply
<1>4. ASSUME NEW o \in ops,
             \/ Begin(o) \/ Handle(o) \/ Finish(o) \/ Report(o)
             \/ StepRaises(o) \/ ReportRaises(o) \/ LoseLease(o)
      PROVE  Was
  BY <1>4, <1>m, <1>e, <1>r
     DEF Begin, Handle, Finish, Report, StepRaises, ReportRaises, LoseLease
<1> QED BY <1>1, <1>2, <1>3, <1>4 DEF RuntimeNext, OpStep

LEMMA AppliedStep ==
  ASSUME StoreInv, RuntimeTypeOK, AppliedInv, [RuntimeNext]_vars
  PROVE  AppliedInv'
<1>0. [Next]_storeVars /\ TypeOK /\ TypeOK' /\ RuntimeTypeOK'
  BY StoreStep, RuntimeTypeStep DEF RuntimeTypeOK
<1>1. ASSUME NEW q \in ops' PROVE Finishing(q)'
  <2>1. CASE q.phase # "finish"
    BY <2>1 DEF Finishing
  <2>2. ASSUME NEW o \in ops, o.job = q.job, o.token = q.token, o.phase = "finish"
        PROVE  Finishing(q)'
    BY <1>0, <2>2, FinishingKept DEF AppliedInv, Finishing
  <2>3. CASE receipt'[q.job] # NoToken
    BY <2>3 DEF Finishing
  <2> QED BY <2>1, <2>2, <2>3, FinishSource
<1>2. ASSUME NEW i \in Job, Reliable(i)', jobs'[i].status = "SUCCEEDED"
      PROVE  receipt'[i] # NoToken
  <2>0. Reliable(i)
    BY <1>0, <1>2, ResetKept DEF Reliable, Is
  <2>1. CASE jobs[i].status = "SUCCEEDED"
    BY <1>0, <1>2, <2>0, <2>1, ReceiptKept DEF AppliedInv, Applied
  <2>2. CASE jobs[i].status # "SUCCEEDED"
    <3>1. PICK o \in ops : Finish(o)
      BY <1>0, <1>2, <2>2, OnlyFinishCompletes, NotCompleted
    <3>2. Complete(o.job, o.token) /\ i = o.job
      BY <1>0, <1>2, <2>2, <3>1 DEF Finish, Complete, storeVars, TypeOK
    <3>3. /\ jobs[i].status = "LEASED" /\ o.token.attempt = jobs[i].attempts
          /\ o.token \in issued[i] /\ receipt' = receipt /\ o.phase = "finish"
      BY <3>1, <3>2, TokenOf DEF Finish, Complete, Owns
    <3>4. epoch[i] \in Nat /\ o.token.epoch \in Nat
      BY <1>0, <3>3 DEF TypeOK, Token
    <3>5. Is(i, "export_user") => o.token.epoch = epoch[i]
      BY <2>0, <3>3, <3>4 DEF StoreInv, JobInv, FenceInv, Counted, Reliable
    <3>6. Finishing(o)
      BY DEF AppliedInv
    <3> QED BY <1>2, <2>0, <3>2, <3>3, <3>4, <3>5, <3>6 DEF Finishing
  <2> QED BY <2>1, <2>2
<1> QED BY <1>1, <1>2 DEF AppliedInv, Applied, Reliable, Is

LEMMA AppliedInvariant == RuntimeSpec => []AppliedInv
<1>1. RuntimeInit => AppliedInv
  BY DEF RuntimeInit, Init, NewRow, AppliedInv, Applied
<1> QED
  BY <1>1, AppliedStep, RuntimeTypeCorrect, StoreInvariantHolds, PTL DEF RuntimeSpec

\* Every job that is reported done has its result in the database; of the exports,
\* those that no administrator retried.
THEOREM AppliedTheorem == RuntimeSpec => []SucceededIsApplied
<1>1. AppliedInv => SucceededIsApplied
  BY DEF AppliedInv, Applied, SucceededIsApplied
<1> QED BY <1>1, AppliedInvariant, PTL

\* No card waits for a job that is over: a job that succeeded has shown it.
THEOREM CardTheorem == RuntimeSpec => []CardNeverStuck
<1>1. AppliedInv /\ StoreInv => CardNeverStuck
  <2> SUFFICES ASSUME AppliedInv, StoreInv, NEW j \in Job,
                      card[j] \in {"queued", "rendering"}
               PROVE  jobs[j].status \in {"PENDING", "LEASED"} \cup Stopped
    BY DEF CardNeverStuck
  <2>1. TypeOK /\ Is(j, "render_share_card") /\ jobs[j].status \notin Missing
    BY DEF StoreInv, JobInv, FreshInv, Missing
  <2>2. jobs[j].status # "SUCCEEDED"
    BY <2>1 DEF AppliedInv, Applied, Reliable, Is, StoreInv, JobInv, VisibleInv, Missing
  <2> QED BY <2>1, <2>2 DEF TypeOK, JobRow, Status, Missing, Stopped
<1> QED BY <1>1, AppliedInvariant, StoreInvariantHolds, PTL

(* ----------------------------- the promise ------------------------------ *)

Phases == [j \in Job |-> PhaseOf(j)]
Written == [j \in Job |-> receipt[j] # NoToken]
Voided == {j \in Job : Is(j, "export_user") /\ reset[j] > 0}
PromiseStep == [Promise!Next]_(Promise!promiseVars)

LEMMA VoidedKept == ASSUME reset' = reset PROVE Voided' = Voided
BY DEF Voided, Is

\* A transaction that leaves every phase and every receipt is a stutter.
LEMMA PromiseStutter ==
  ASSUME \A i \in Job : PhaseOf(i)' = PhaseOf(i), receipt' = receipt, reset' = reset
  PROVE  PromiseStep
BY VoidedKept DEF PromiseStep, Promise!promiseVars, Voided

\* One that moves the phase of one job.
LEMMA PromiseMove ==
  ASSUME NEW j \in Job, \A i \in Job : i # j => PhaseOf(i)' = PhaseOf(i)
  PROVE  Phases' = [Phases EXCEPT ![j] = PhaseOf(j)']
BY DEF Phases

\* One that stops the jobs of S.
LEMMA PromiseStop ==
  ASSUME NEW S \in SUBSET Job, receipt' = receipt, reset' = reset,
         \A i \in S : PhaseOf(i) = "open" /\ PhaseOf(i)' = "stopped",
         \A i \in Job \ S : PhaseOf(i)' = PhaseOf(i)
  PROVE  PromiseStep
<1>1. CASE S = {}
  BY <1>1, PromiseStutter
<1>2. CASE S # {}
  <2>1. Promise!Stopping(S)
    BY <1>2, VoidedKept DEF Promise!Stopping, Voided
  <2> QED BY <2>1 DEF PromiseStep, Promise!Next
<1> QED BY <1>1, <1>2

LEMMA PromiseStopOne ==
  ASSUME NEW j \in Job, receipt' = receipt, reset' = reset,
         PhaseOf(j) = "open" /\ PhaseOf(j)' = "stopped",
         \A i \in Job : i # j => PhaseOf(i)' = PhaseOf(i)
  PROVE  PromiseStep
<1> DEFINE S == {j}
<1>1. /\ S \in SUBSET Job
      /\ \A i \in S : PhaseOf(i) = "open" /\ PhaseOf(i)' = "stopped"
      /\ \A i \in Job \ S : PhaseOf(i)' = PhaseOf(i)
  OBVIOUS
<1> HIDE DEF S
<1> QED BY <1>1, PromiseStop

LEMMA PhaseCases ==
  ASSUME NEW i \in Job, TypeOK
  PROVE  /\ PhaseOf(i) = "absent" <=> jobs[i].status = "NONE"
         /\ PhaseOf(i) = "retired" <=> jobs[i].status = "RETIRED"
         /\ PhaseOf(i) = "done" <=> jobs[i].status = "SUCCEEDED"
         /\ PhaseOf(i) = "stopped" <=> jobs[i].status \in Stopped
         /\ PhaseOf(i) = "open" <=> jobs[i].status \in {"PENDING", "LEASED"}
BY DEF PhaseOf, Stopped, TypeOK, JobRow, Status, Missing

LEMMA SamePhase ==
  ASSUME NEW i \in Job, jobs'[i].status = jobs[i].status
  PROVE  PhaseOf(i)' = PhaseOf(i)
BY DEF PhaseOf

LEMMA PhaseAfter ==
  ASSUME NEW i \in Job
  PROVE  /\ jobs'[i].status = "RETIRED" => PhaseOf(i)' = "retired"
         /\ jobs'[i].status = "SUCCEEDED" => PhaseOf(i)' = "done"
         /\ jobs'[i].status \in Stopped => PhaseOf(i)' = "stopped"
         /\ jobs'[i].status \in {"PENDING", "LEASED"} => PhaseOf(i)' = "open"
BY DEF PhaseOf, Stopped

LEMMA PromiseByApi ==
  ASSUME TypeOK, NEW j \in Job, ByApi(j)
  PROVE  PromiseStep
<1>1. \A i \in Job : i # j => PhaseOf(i)' = PhaseOf(i)
  BY StatusByApi, SamePhase
<1>2. Phases' = [Phases EXCEPT ![j] = PhaseOf(j)']
  BY <1>1, PromiseMove
<1>3. CASE jobs'[j] = jobs[j] /\ ~RequestExport(j)
  <2>1. receipt' = receipt /\ reset' = reset
    BY <1>3, StatusByApi DEF Stopped
  <2> QED BY <1>1, <1>3, <2>1, SamePhase, PromiseStutter
<1>4. CASE jobs[j].status = "NONE" /\ jobs'[j].status = "PENDING" /\ ~RequestExport(j)
  <2>1. /\ PhaseOf(j) = "absent" /\ PhaseOf(j)' = "open"
        /\ receipt' = receipt /\ reset' = reset
    BY <1>4, PhaseCases, PhaseAfter, StatusByApi DEF Stopped
  <2>2. Promise!Submit(j)
    BY <1>2, <2>1, VoidedKept DEF Promise!Submit, Phases, Voided
  <2> QED BY <2>2 DEF PromiseStep, Promise!Next
<1>5. CASE jobs[j].status \in Stopped /\ jobs'[j].status = "PENDING" /\ ~RequestExport(j)
  <2>1. /\ PhaseOf(j) = "stopped" /\ PhaseOf(j)' = "open" /\ receipt' = receipt
        /\ reset' = [reset EXCEPT ![j] = epoch[j] + 1]
    BY <1>5, PhaseCases, PhaseAfter, StatusByApi DEF Stopped
  <2>2. Voided' = Voided \cup ({j} \cap {i \in Job : Is(i, "export_user")})
    BY <2>1 DEF Voided, TypeOK, Is
  <2>3. Promise!Reopen(j)
    BY <1>2, <2>1, <2>2 DEF Promise!Reopen, Phases, Voided
  <2> QED BY <2>3 DEF PromiseStep, Promise!Next
<1>6. CASE jobs[j].status = "PENDING" /\ jobs'[j].status = "CANCELLED" /\ ~RequestExport(j)
  <2>1. /\ PhaseOf(j) = "open" /\ PhaseOf(j)' = "stopped"
        /\ receipt' = receipt /\ reset' = reset
    BY <1>6, PhaseCases, PhaseAfter, StatusByApi DEF Stopped
  <2> QED BY <1>1, <2>1, PromiseStopOne
<1>7. CASE RequestExport(j)
  <2>1. /\ Is(j, "export_user") /\ receipt' = [receipt EXCEPT ![j] = NoToken]
        /\ jobs[j].status \in Stopped \cup {"SUCCEEDED"} /\ jobs'[j].status = "PENDING"
        /\ reset' = reset
    BY <1>7, ExtendedRow DEF RequestExport, TypeOK
  <2>2. PhaseOf(j) \in {"stopped", "done"} /\ PhaseOf(j)' = "open"
    BY <2>1, PhaseCases, PhaseAfter
  <2>3. Written' = [Written EXCEPT ![j] = FALSE]
    BY <2>1 DEF Written, TypeOK
  <2>4. Promise!Renewal(j)
    BY <1>2, <2>1, <2>2, <2>3, VoidedKept DEF Promise!Renewal, Phases, Written, Voided
  <2> QED BY <2>4 DEF PromiseStep, Promise!Next
<1> QED BY <1>3, <1>4, <1>5, <1>6, <1>7, StatusByApi

LEMMA PromiseRetire ==
  ASSUME TypeOK, NEW j \in Job, Retire(j)
  PROVE  PromiseStep
<1>1. /\ \A i \in Job : jobs'[i].status = IF i = j THEN "RETIRED" ELSE jobs[i].status
      /\ receipt' = [receipt EXCEPT ![j] = NoToken]
      /\ jobs[j].status \notin Missing /\ ~Is(j, "export_user") /\ reset' = reset
  <2>1. \A i \in Job : jobs'[i].status = IF i = j THEN "RETIRED" ELSE jobs[i].status
    <3>1. /\ jobs' = [jobs EXCEPT ![j] = Settled(@, "RETIRED", 0)]
          /\ "RETIRED" \in Status \cup Missing /\ 0 \in Timer
      BY TimerWritten DEF Retire, Missing
    <3> QED BY <3>1, SettleOne
  <2>2. /\ receipt' = [receipt EXCEPT ![j] = NoToken]
        /\ jobs[j].status \notin Missing /\ ~Is(j, "export_user") /\ reset' = reset
    BY DEF Retire, Present, Is, history
  <2> QED BY <2>1, <2>2
<1>2. Phases' = [Phases EXCEPT ![j] = PhaseOf(j)']
  BY <1>1, SamePhase, PromiseMove
<1>3. PhaseOf(j) \in {"open", "done", "stopped"} /\ PhaseOf(j)' = "retired"
  BY <1>1, PhaseCases, PhaseAfter DEF TypeOK, JobRow, Status, Stopped
<1>4. Written' = [Written EXCEPT ![j] = FALSE]
  BY <1>1 DEF Written, TypeOK
<1>5. Promise!Retirement(j)
  BY <1>1, <1>2, <1>3, <1>4, VoidedKept DEF Promise!Retirement, Phases, Written, Voided
<1> QED BY <1>5 DEF PromiseStep, Promise!Next

LEMMA PromiseByToken ==
  ASSUME StoreInv, \A i \in Job : Applied(i) /\ Applied(i)',
         NEW j \in Job, NEW t \in issued[j], ByToken(j, t)
  PROVE  PromiseStep
<1>0. TypeOK /\ t \in Token /\ t # NoToken
  BY TokenAssumption DEF StoreInv, TypeOK, Token
<1>1. CASE \E d \in Delay : Heartbeat(j, t, d)
  <2>1. \A i \in Job : jobs'[i].status = jobs[i].status
    BY <1>0, <1>1 DEF Heartbeat, TypeOK, JobRow
  <2>2. receipt' = receipt /\ reset' = reset
    BY <1>1 DEF Heartbeat, history
  <2> QED BY <2>1, <2>2, SamePhase, PromiseStutter
<1>2. CASE Complete(j, t)
  <2>1. /\ \A i \in Job : jobs'[i].status = IF i = j THEN "SUCCEEDED" ELSE jobs[i].status
        /\ receipt' = receipt /\ reset' = reset /\ jobs[j].status = "LEASED"
    BY <1>0, <1>2, SettleOne, TimerWritten DEF Complete, Status, Owns, history
  <2>2. Phases' = [Phases EXCEPT ![j] = PhaseOf(j)']
    BY <2>1, SamePhase, PromiseMove
  <2>3. PhaseOf(j) = "open" /\ PhaseOf(j)' = "done"
    BY <1>0, <2>1, PhaseCases, PhaseAfter
  <2>4. receipt[j] # NoToken \/ j \in Voided
    <3>1. reset[j] \in Nat
      BY <1>0 DEF TypeOK
    <3> QED BY <2>1, <3>1 DEF Applied, Reliable, Voided, Is
  <2>5. Promise!Done(j)
    BY <2>1, <2>2, <2>3, <2>4, VoidedKept DEF Promise!Done, Phases, Written, Voided
  <2> QED BY <2>5 DEF PromiseStep, Promise!Next
<1>3. ASSUME NEW retryable \in BOOLEAN, NEW b \in 0 .. MaxBackoff, NEW d \in Delay,
             Fail(j, t, retryable, b, d)
      PROVE  PromiseStep
  <2>1. /\ jobs'[j].status \in {"FAILED", "DEAD", "PENDING"}
        /\ \A i \in Job : i # j => jobs'[i] = jobs[i]
        /\ jobs[j].status = "LEASED" /\ receipt' = receipt /\ reset' = reset
    BY <1>0, <1>3, StatusFailed DEF Fail, Owns, history
  <2>2. \A i \in Job : i # j => PhaseOf(i)' = PhaseOf(i)
    BY <2>1, SamePhase
  <2>3. PhaseOf(j) = "open"
    BY <1>0, <2>1, PhaseCases
  <2>4. CASE jobs'[j].status = "PENDING"
    <3>1. PhaseOf(j)' = "open"
      BY <2>4, PhaseAfter
    <3> QED BY <2>1, <2>2, <2>3, <3>1, PromiseStutter
  <2>5. CASE jobs'[j].status \in {"FAILED", "DEAD"}
    <3>1. PhaseOf(j)' = "stopped"
      BY <2>5, PhaseAfter DEF Stopped
    <3> QED BY <2>1, <2>2, <2>3, <3>1, PromiseStopOne
  <2> QED BY <2>1, <2>4, <2>5
<1>4. CASE ApplyResult(j, t)
  <2>1. /\ jobs' = jobs /\ receipt' = [receipt EXCEPT ![j] = t] /\ receipt[j] = NoToken
        /\ jobs[j].status \notin Missing /\ reset' = reset
        /\ Is(j, "export_user") => jobs[j].status = "LEASED"
    BY <1>4 DEF ApplyResult, FirstResult, MayApply, Present, Owns
  <2>2. jobs[j].status # "SUCCEEDED"
    BY <2>1 DEF Applied, Reliable, Is
  <2>3. PhaseOf(j) \in (IF Is(j, "export_user") THEN {"open"} ELSE {"open", "stopped"})
    BY <1>0, <2>1, <2>2, PhaseCases DEF TypeOK, JobRow, Status, Missing, Stopped
  <2>4. Phases' = Phases
    BY <2>1 DEF Phases, PhaseOf
  <2>5. Written' = [Written EXCEPT ![j] = TRUE]
    BY <1>0, <2>1 DEF Written, TypeOK
  <2>6. Promise!Write(j)
    BY <2>1, <2>3, <2>4, <2>5, VoidedKept DEF Promise!Write, Phases, Written, Voided
  <2> QED BY <2>6 DEF PromiseStep, Promise!Next
<1> QED BY <1>1, <1>2, <1>3, <1>4 DEF ByToken

LEMMA PromiseStoreStep ==
  ASSUME StoreInv, \A i \in Job : Applied(i) /\ Applied(i)', [Next]_storeVars
  PROVE  PromiseStep
<1>0. TypeOK
  BY DEF StoreInv
<1>1. ASSUME NEW j \in Job, ByApi(j) \/ Retire(j) PROVE PromiseStep
  BY <1>0, <1>1, PromiseByApi, PromiseRetire
<1>2. ASSUME NEW j \in Job, NEW t \in issued[j], ByToken(j, t) PROVE PromiseStep
  BY <1>2, PromiseByToken
<1>3. ASSUME NEW w \in Worker, ReleaseLeases(w) PROVE PromiseStep
  <2>1. \A i \in Job : jobs'[i] = IF i \in Leased(w) THEN Settled(jobs[i], "PENDING", 0)
                                                     ELSE jobs[i]
    BY <1>3 DEF ReleaseLeases
  <2>2. \A i \in Job : jobs'[i].status = IF i \in Leased(w) THEN "PENDING" ELSE jobs[i].status
    BY <1>0, <2>1, StatusSettled, TimerWritten DEF Status, Leased
  <2>3. \A i \in Job : PhaseOf(i)' = PhaseOf(i)
    BY <1>0, <2>2, PhaseCases, PhaseAfter, SamePhase DEF Leased
  <2> QED BY <1>3, <2>3, PromiseStutter DEF ReleaseLeases, history
<1>4. ASSUME NEW w \in Worker, NEW j \in Job, NEW d \in Delay, Claim(w, j, d)
      PROVE  PromiseStep
  <2>1. /\ \A i \in Job : i # j => jobs'[i] = jobs[i]
        /\ jobs'[j].status = "LEASED" /\ receipt' = receipt /\ reset' = reset
        /\ jobs[j].status \in {"PENDING", "LEASED"}
    BY <1>0, <1>4 DEF Claim, Claimable, Due, TypeOK, JobRow
  <2>2. \A i \in Job : PhaseOf(i)' = PhaseOf(i)
    BY <1>0, <2>1, PhaseCases, PhaseAfter, SamePhase
  <2> QED BY <2>1, <2>2, PromiseStutter
<1>5. ASSUME NEW d \in Delay, Reap(d) PROVE PromiseStep
  <2>1. \A i \in Job : jobs'[i] = IF i \in ReapSet(d) THEN Settled(jobs[i], "DEAD", 0)
                                                      ELSE jobs[i]
    BY <1>5 DEF Reap
  <2>2. \A i \in Job : jobs'[i].status = IF i \in ReapSet(d) THEN "DEAD" ELSE jobs[i].status
    BY <1>0, <2>1, StatusSettled, TimerWritten DEF Status, ReapSet
  <2>3. /\ \A i \in ReapSet(d) : PhaseOf(i) = "open" /\ PhaseOf(i)' = "stopped"
        /\ \A i \in Job \ ReapSet(d) : PhaseOf(i)' = PhaseOf(i)
    BY <1>0, <2>2, PhaseCases, PhaseAfter, SamePhase DEF ReapSet, Due, Stopped
  <2>4. ReapSet(d) \subseteq Job /\ receipt' = receipt /\ reset' = reset
    BY <1>5 DEF ReapSet, Reap, history
  <2> QED BY <2>3, <2>4, PromiseStop
<1>6. CASE Disable
  <2> DEFINE S == {i \in Job : jobs[i].status \in {"PENDING", "LEASED"}}
  <2>1. \A i \in Job : jobs'[i] = IF i \in S THEN Settled(jobs[i], "CANCELLED", 0) ELSE jobs[i]
    BY <1>6 DEF Disable
  <2>2. \A i \in Job : jobs'[i].status = IF i \in S THEN "CANCELLED" ELSE jobs[i].status
    BY <1>0, <2>1, StatusSettled, TimerWritten DEF Status
  <2>3. /\ \A i \in S : PhaseOf(i) = "open" /\ PhaseOf(i)' = "stopped"
        /\ \A i \in Job \ S : PhaseOf(i)' = PhaseOf(i)
    BY <1>0, <2>2, PhaseCases, PhaseAfter, SamePhase DEF Stopped
  <2>4. receipt' = receipt /\ reset' = reset
    BY <1>6 DEF Disable, history
  <2> QED BY <2>3, <2>4, PromiseStop
<1>7. CASE Tick
  <2>1. \A i \in Job : jobs'[i].status = jobs[i].status
    BY <1>0, <1>7 DEF Tick, TypeOK, JobRow
  <2> QED BY <1>7, <2>1, SamePhase, PromiseStutter DEF Tick, history
<1>8. CASE Enable \/ UNCHANGED storeVars
  <2>1. jobs' = jobs /\ receipt' = receipt /\ reset' = reset
    BY <1>8 DEF Enable, rows, storeVars, history
  <2> QED BY <2>1, SamePhase, PromiseStutter
<1> QED BY <1>1, <1>2, <1>3, <1>4, <1>5, <1>6, <1>7, <1>8 DEF Next

\* Any number of workers keeps the promise made to whoever submits a job; for an
\* export it ends when an administrator retries it.
THEOREM PromiseTheorem == RuntimeSpec => KeepsPromise
<1>1. RuntimeInit => Promise!Init
  <2> SUFFICES ASSUME RuntimeInit PROVE Promise!Init
    OBVIOUS
  <2>1. /\ \A j \in Job : jobs[j].status = "NONE"
        /\ receipt = [j \in Job |-> NoToken] /\ reset = [j \in Job |-> 0]
    BY DEF RuntimeInit, Init, NewRow
  <2>2. \A j \in Job : PhaseOf(j) = "absent"
    BY <2>1 DEF PhaseOf, Stopped
  <2>3. /\ [j \in Job |-> PhaseOf(j)] = [j \in Job |-> "absent"]
        /\ [j \in Job |-> receipt[j] # NoToken] = [j \in Job |-> FALSE]
    BY <2>1, <2>2
  <2>4. {j \in Job : Is(j, "export_user") /\ reset[j] > 0} = {}
    <3>1. \A j \in Job : ~(reset[j] > 0)
      BY <2>1
    <3> QED BY <3>1
  <2> QED BY <2>3, <2>4 DEF Promise!Init
<1>2. StoreInv /\ AppliedInv /\ AppliedInv' /\ [Next]_storeVars => PromiseStep
  BY PromiseStoreStep DEF AppliedInv
<1>3. RuntimeSpec => [][Next]_storeVars
  BY StoreSpecHolds, PTL DEF Spec
<1> QED
  BY <1>1, <1>2, <1>3, StoreInvariantHolds, AppliedInvariant, PTL
     DEF RuntimeSpec, KeepsPromise, Promise!Spec, PromiseStep
=============================================================================
