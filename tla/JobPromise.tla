----------------------------- MODULE JobPromise -----------------------------
(***************************************************************************)
(* What the pipeline promises to whoever submits a job, without leases,    *)
(* attempts or processes: a job is reported done only after its result was *)
(* written, the result is written at most once until it is explicitly      *)
(* asked for again, and only an explicit request reopens a closed job.     *)
(*                                                                         *)
(* A Renewable job (a data export) may be asked for again when it is over: *)
(* its result is dropped, and results are accepted only while it is open.  *)
(* Results of all other jobs may still arrive after the job was stopped.   *)
(*                                                                         *)
(* The promise to a Renewable job has an end: when it is reopened by       *)
(* somebody who does not ask for a new result, nothing tells the work for  *)
(* the next one from what was left behind, and done may come without one.  *)
(***************************************************************************)
CONSTANTS
  Job,
  Renewable   \* the jobs among them that may be asked for again

VARIABLES
  phase,
  written,
  voided    \* the Renewable jobs to which the promise has ended

promiseVars == <<phase, written, voided>>

Submit(j) ==
  /\ phase[j] = "absent"
  /\ phase' = [phase EXCEPT ![j] = "open"]
  /\ UNCHANGED <<written, voided>>

Write(j) ==
  /\ phase[j] \in (IF j \in Renewable THEN {"open"} ELSE {"open", "stopped"})
  /\ ~written[j]
  /\ written' = [written EXCEPT ![j] = TRUE]
  /\ UNCHANGED <<phase, voided>>

Done(j) ==
  /\ phase[j] = "open" /\ (written[j] \/ j \in voided)
  /\ phase' = [phase EXCEPT ![j] = "done"]
  /\ UNCHANGED <<written, voided>>

\* Failure, cancellation or the runtime switch: the last stops all open jobs.
Stopping(S) ==
  /\ S # {} /\ \A j \in S : phase[j] = "open"
  /\ phase' = [j \in Job |-> IF j \in S THEN "stopped" ELSE phase[j]]
  /\ UNCHANGED <<written, voided>>

Reopen(j) ==
  /\ phase[j] = "stopped"
  /\ phase' = [phase EXCEPT ![j] = "open"]
  /\ voided' = voided \cup ({j} \cap Renewable)
  /\ UNCHANGED written

Renewal(j) ==
  /\ j \in Renewable
  /\ phase[j] \in {"stopped", "done"}
  /\ phase' = [phase EXCEPT ![j] = "open"]
  /\ written' = [written EXCEPT ![j] = FALSE]
  /\ UNCHANGED voided

Retirement(j) ==
  /\ j \notin Renewable
  /\ phase[j] \in {"open", "done", "stopped"}
  /\ phase' = [phase EXCEPT ![j] = "retired"]
  /\ written' = [written EXCEPT ![j] = FALSE]
  /\ UNCHANGED voided

Init ==
  /\ phase = [j \in Job |-> "absent"]
  /\ written = [j \in Job |-> FALSE]
  /\ voided = {}

Next ==
  \/ \E j \in Job :
       \/ Submit(j) \/ Write(j) \/ Done(j)
       \/ Reopen(j) \/ Renewal(j) \/ Retirement(j)
  \/ \E S \in SUBSET Job : Stopping(S)

Spec == Init /\ [][Next]_promiseVars
=============================================================================
