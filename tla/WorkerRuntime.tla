---------------------------- MODULE WorkerRuntime ----------------------------
(***************************************************************************)
(* Worker processes on top of JobStore: the polling loop, the bounded set  *)
(* of running jobs, the heartbeat of each job, the pause by the runtime    *)
(* switch, graceful shutdown and crashes.                                  *)
(*                                                                         *)
(* A claimed job runs as two asyncio tasks: the outer one (_process_       *)
(* claimed) starts the heartbeat and the inner one (operation), waits for  *)
(* either, and reports failures.  Cancelling the outer task, as pause and  *)
(* shutdown do, ends heartbeat and failure report but not the inner task,  *)
(* because asyncio.wait does not cancel what it waits for: the operation   *)
(* goes on DETACHED until it returns or its process exits.                 *)
(*                                                                         *)
(* Every await that reaches the database is a step of its own and any of   *)
(* them may raise; faults counts these errors and is bounded by MaxFaults. *)
(* A process incarnation has its own worker_id (pid and a fresh uuid), so  *)
(* a restarted worker is another member of Worker.                         *)
(***************************************************************************)
EXTENDS JobStore

CONSTANTS
  MaxConcurrency,  \* jobs one process runs at a time
  Scheduled,       \* crawls made by the scheduler: never retried on failure
  MaxFaults        \* bound: database errors seen by worker processes

ASSUME RuntimeAssumption ==
  /\ MaxConcurrency \in Nat \ {0}
  /\ Scheduled \subseteq {j \in Job : Is(j, "crawl")}
  /\ MaxFaults \in Nat

VARIABLES
  state,   \* life cycle of each process
  permit,  \* what the runtime check of the current loop iteration returned
  ops,     \* running operations
  faults   \* database errors so far

runtimeVars == <<state, permit, ops, faults>>
vars == <<storeVars, runtimeVars>>

Process == {"off", "running", "pausing", "stopping", "released", "down"}
Phase == {"begin", "handle", "apply", "finish", "retry", "giveUp"}
Op == [job: Job, token: Token, phase: Phase, watched: BOOLEAN]

Reporting == {"retry", "giveUp"}         \* the outer task is in _fail
Alive == {"running", "pausing", "stopping", "released"}

Of(w) == {o \in ops : o.token.worker = w}
Active(w) == {o \in Of(w) : o.watched}

To(o, phase) == ops' = (ops \ {o}) \cup {[o EXCEPT !.phase = phase]}
End(o) == ops' = ops \ {o}

\* An exception in the operation: the outer task reports it with the given
\* retryability, a detached operation has nobody left to report to.
Raise(o, retryable) ==
  IF o.watched THEN To(o, IF retryable THEN "retry" ELSE "giveUp") ELSE End(o)

DbError == faults < MaxFaults /\ faults' = faults + 1

\* What is left of ops when the outer tasks of w are cancelled.
Detached(w) ==
  (ops \ Active(w))
    \cup {[o EXCEPT !.watched = FALSE] : o \in {a \in Active(w) : a.phase \notin Reporting}}

\* Bound: one process is spared, as the service manager keeps one running.
Spared(w) == \E v \in Worker \ {w} : state[v] \in {"off", "running", "pausing"}

-----------------------------------------------------------------------------
(* The polling loop.                                                       *)

Start(w) ==
  /\ state[w] = "off"
  /\ state' = [state EXCEPT ![w] = "running"]
  /\ UNCHANGED <<storeVars, permit, ops, faults>>

\* The loop's runtime check.  The answer may be a second old, which is the
\* same as checking earlier.
Permit(w) ==
  /\ state[w] = "running"
  /\ enabled
  /\ permit' = [permit EXCEPT ![w] = TRUE]
  /\ UNCHANGED <<storeVars, state, ops, faults>>

\* Mutant: the leases of the cancelled jobs are not given back.
Cancelled_Kept(w) == "running"

Cancelled(w) == IF Active(w) = {} THEN "running" ELSE "pausing"

\* Switched off, or the check failed: cancel the active jobs.
Pause(w) ==
  /\ state[w] = "running"
  /\ \/ ~enabled /\ UNCHANGED faults
     \/ DbError
  /\ permit' = [permit EXCEPT ![w] = FALSE]
  /\ state' = [state EXCEPT ![w] = Cancelled(w)]
  /\ ops' = Detached(w)
  /\ UNCHANGED storeVars

\* ... and give their leases back once the outer tasks are gone.
ReleasePaused(w) ==
  /\ state[w] = "pausing"
  /\ ReleaseLeases(w)
  /\ state' = [state EXCEPT ![w] = "running"]
  /\ UNCHANGED <<permit, ops, faults>>

\* An error here leaves run_forever through its shutdown path.
ReleaseRaises(w) ==
  /\ state[w] = "pausing" /\ Spared(w)
  /\ DbError
  /\ state' = [state EXCEPT ![w] = "stopping"]
  /\ UNCHANGED <<storeVars, permit, ops>>

MayPoll(w) ==
  state[w] = "running" /\ permit[w] /\ Cardinality(Active(w)) < MaxConcurrency

Poll(w, j, d) ==
  /\ MayPoll(w)
  /\ Claim(w, j, d)
  /\ ops' = ops \cup {[job |-> j, token |-> NextToken(w, j),
                       phase |-> "begin", watched |-> TRUE]}
  /\ UNCHANGED <<state, permit, faults>>

Sweep(w, d) ==
  /\ MayPoll(w)
  /\ Reap(d)
  /\ UNCHANGED runtimeVars

-----------------------------------------------------------------------------
(* One operation.                                                          *)

\* A receipt found here skips the handler; the applier looks again.
Begin(o) ==
  /\ o.phase = "begin"
  /\ To(o, IF receipt[o.job] = NoToken THEN "handle" ELSE "apply")
  /\ UNCHANGED <<storeVars, state, permit, faults>>

Handle(o) ==
  /\ o.phase = "handle"
  /\ \/ To(o, "apply")
     \/ \E retryable \in BOOLEAN : Raise(o, retryable)
  /\ UNCHANGED <<storeVars, state, permit, faults>>

Refused(o) ==
  \/ ~MayApply(o.job, o.token)
  \/ /\ Is(o.job, "render_share_card")
     /\ receipt[o.job] = NoToken
     /\ ~CardAccepts(o.job)

Reject(o) == Raise(o, FALSE)

Apply(o) ==
  /\ o.phase = "apply"
  /\ \/ /\ Refused(o)
        /\ Reject(o)
        /\ UNCHANGED storeVars
     \/ /\ ~Refused(o) /\ receipt[o.job] # NoToken
        /\ To(o, "finish")
        /\ UNCHANGED storeVars
     \/ /\ ApplyResult(o.job, o.token)
        /\ To(o, "finish")
  /\ UNCHANGED <<state, permit, faults>>

Finish(o) ==
  /\ o.phase = "finish"
  /\ \/ Complete(o.job, o.token)
     \/ ~Owns(o.job, o.token) /\ UNCHANGED storeVars
  /\ End(o)
  /\ UNCHANGED <<state, permit, faults>>

\* A database error in begin, apply or complete.
StepRaises(o) ==
  /\ o.phase \in {"begin", "apply", "finish"}
  /\ DbError
  /\ Raise(o, TRUE)
  /\ UNCHANGED <<storeVars, state, permit>>

Retryable(o) == o.phase = "retry" /\ o.job \notin Scheduled

Report(o) ==
  /\ o.phase \in Reporting
  /\ \/ \E b \in 0 .. MaxBackoff, d \in Delay :
          Fail(o.job, o.token, Retryable(o), IF Retryable(o) THEN b ELSE 0, d)
     \/ ~Owns(o.job, o.token) /\ UNCHANGED storeVars
  /\ End(o)
  /\ UNCHANGED <<state, permit, faults>>

\* The failure report fails itself: the row stays LEASED until it expires.
ReportRaises(o) ==
  /\ o.phase \in Reporting
  /\ DbError
  /\ End(o)
  /\ UNCHANGED <<storeVars, state, permit>>

Renew(o, d) ==
  /\ o.watched
  /\ Heartbeat(o.job, o.token, d)
  /\ UNCHANGED runtimeVars

\* The heartbeat fails or matches no row: the operation is cancelled and the
\* loss is reported as a retryable failure.
LoseLease(o) ==
  /\ o.watched /\ o.phase \notin Reporting
  /\ \/ ~Owns(o.job, o.token) /\ UNCHANGED faults
     \/ DbError
  /\ To(o, "retry")
  /\ UNCHANGED <<storeVars, state, permit>>

-----------------------------------------------------------------------------
(* Shutdown and crashes.                                                   *)

Stop(w) ==
  /\ state[w] = "running" /\ Spared(w)
  /\ state' = [state EXCEPT ![w] = "stopping"]
  /\ UNCHANGED <<storeVars, permit, ops, faults>>

\* The grace period is over: what still runs is cancelled.
GraceOver(w) ==
  /\ state[w] = "stopping" /\ Active(w) # {}
  /\ ops' = Detached(w)
  /\ UNCHANGED <<storeVars, state, permit, faults>>

ReleaseAtStop(w) ==
  /\ state[w] = "stopping" /\ Active(w) = {}
  /\ ReleaseLeases(w)
  /\ state' = [state EXCEPT ![w] = "released"]
  /\ UNCHANGED <<permit, ops, faults>>

Exit(w) ==
  /\ state[w] = "released"
  /\ state' = [state EXCEPT ![w] = "down"]
  /\ ops' = ops \ Of(w)
  /\ UNCHANGED <<storeVars, permit, faults>>

Crash(w) ==
  /\ state[w] \in Alive /\ Spared(w)
  /\ state' = [state EXCEPT ![w] = "down"]
  /\ ops' = ops \ Of(w)
  /\ UNCHANGED <<storeVars, permit, faults>>

-----------------------------------------------------------------------------
OpStep(o) ==
  \/ Begin(o) \/ Handle(o) \/ Apply(o) \/ Finish(o) \/ Report(o)

Environment ==
  /\ \/ \E j \in Job : ByApi(j) \/ Retire(j)
     \/ Disable \/ Enable \/ Tick
  /\ UNCHANGED runtimeVars

ProcessStep(w) ==
  \/ Start(w) \/ Permit(w) \/ Pause(w) \/ ReleasePaused(w) \/ ReleaseRaises(w)
  \/ \E j \in Job, d \in Delay : Poll(w, j, d)
  \/ \E d \in Delay : Sweep(w, d)
  \/ Stop(w) \/ GraceOver(w) \/ ReleaseAtStop(w) \/ Exit(w) \/ Crash(w)

RuntimeNext ==
  \/ Environment
  \/ \E w \in Worker : ProcessStep(w)
  \/ \E o \in ops :
       \/ OpStep(o) \/ StepRaises(o) \/ ReportRaises(o) \/ LoseLease(o)
       \/ \E d \in Delay : Renew(o, d)

RuntimeInit ==
  /\ Init
  /\ state = [w \in Worker |-> "off"]
  /\ permit = [w \in Worker |-> FALSE]
  /\ ops = {}
  /\ faults = 0

RuntimeSpec == RuntimeInit /\ [][RuntimeNext]_vars

(* Fairness.  The loop polls every poll_interval_seconds, an operation is    *)
(* driven by the event loop and a handler ends because its provider and      *)
(* crawl calls have timeouts; the clock advances.  Nothing is assumed of     *)
(* heartbeats, administrators, members, shutdowns, crashes or errors.        *)
Fairness ==
  /\ WF_vars(Environment /\ Tick)
  /\ \A w \in Worker :
       /\ WF_vars(Start(w)) /\ WF_vars(Permit(w)) /\ WF_vars(ReleasePaused(w))
       /\ \A j \in Job :
            /\ WF_vars(\E d \in Delay : Poll(w, j, d))
            /\ WF_vars(\E o \in Of(w) : o.job = j /\ OpStep(o))
       /\ WF_vars(\E d \in Delay : Sweep(w, d))

FairSpec == RuntimeSpec /\ Fairness

-----------------------------------------------------------------------------
(* Properties.                                                             *)

\* Processes and operations have the states of main.py, an operation carries
\* a token that a claim returned, and a process that is not up runs nothing.
RuntimeTypeOK ==
  /\ TypeOK
  /\ state \in [Worker -> Process]
  /\ permit \in [Worker -> BOOLEAN]
  /\ ops \subseteq Op
  /\ faults \in 0 .. MaxFaults
  /\ \A o \in ops : o.token \in issued[o.job] /\ state[o.token.worker] \in Alive

\* A job is reported SUCCEEDED only when its result is in the database: apply
\* commits before complete, and no lease is completed by an operation whose
\* result was discarded.  An export that is asked for again drops its receipt; it
\* is relied on only while no administrator retried it, because the retry sets
\* back the attempt counter that fences off the work for the earlier request.
Reliable(j) == Is(j, "export_user") => reset[j] = 0

SucceededIsApplied ==
  \A j \in Job :
    Reliable(j) /\ jobs[j].status = "SUCCEEDED" => receipt[j] # NoToken

\* "a worker from the prior terminal generation cannot match a new lease"
\* (request_export): work that began before the member's latest request never
\* owns the lease of an export.
ExportLeaseFenced ==
  \A o \in ops :
    Is(o.job, "export_user") /\ Owns(o.job, o.token)
      => o.token.epoch >= requested[o.job]

\* Without database errors no process that is up leaks a lease: a task that
\* watches the row is running, or the process is about to release it.
LeaseHasKeeper ==
  \A j \in Job :
    jobs[j].status = "LEASED" /\ faults = 0 =>
      \/ state[jobs[j].owner] \in {"pausing", "stopping", "down"}
      \/ \E o \in Active(jobs[j].owner) : o.job = j /\ Owns(j, o.token)

\* A card shown as queued or rendering belongs to a job that is still open or
\* that can be retried; it is never left behind by a job that succeeded.
CardNeverStuck ==
  \A j \in Job :
    card[j] \in {"queued", "rendering"}
      => jobs[j].status \in {"PENDING", "LEASED"} \cup Stopped

\* "Stops all running and waiting jobs" (the dialog of the runtime switch): a
\* process that has seen the switch turned off writes no more results.
SwitchStopsRunningWork ==
  [][\A j \in Job :
       receipt'[j] # receipt[j] /\ receipt'[j] # NoToken
         => permit[receipt'[j].worker]]_vars

\* Every submitted job is settled: whatever crashes, pauses, lost leases and
\* errors occur, it ends, provided the runtime switch stays on at last.
Open(j) == jobs[j].status \in {"PENDING", "LEASED"}
JobsSettle == <>[]enabled => \A j \in Job : []<>~Open(j)

\* The abstract promise, with leases, processes and time forgotten.
PhaseOf(j) ==
  CASE jobs[j].status = "NONE" -> "absent"
    [] jobs[j].status = "RETIRED" -> "retired"
    [] jobs[j].status = "SUCCEEDED" -> "done"
    [] jobs[j].status \in Stopped -> "stopped"
    [] OTHER -> "open"

Promise == INSTANCE JobPromise WITH
  Renewable <- {j \in Job : Is(j, "export_user")},
  phase <- [j \in Job |-> PhaseOf(j)],
  written <- [j \in Job |-> receipt[j] # NoToken],
  voided <- {j \in Job : Is(j, "export_user") /\ reset[j] > 0}

\* Worker processes keep the pipeline's promise to submitters.
KeepsPromise == Promise!Spec
=============================================================================
