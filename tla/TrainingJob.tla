----------------------------- MODULE TrainingJob -----------------------------
(***************************************************************************)
(* The training service (rl/training.py): one job at a time, its learner   *)
(* thread, the control requests, and the three files of a run: state.json, *)
(* manifest.json and the model artifact.                                   *)
(*                                                                         *)
(* A call holds the service's lock through its file writes, which are the  *)
(* steps of a plan; each may fail, and a crash may come between two.  The  *)
(* learner takes the lock anew for every record, checkpoint and result,    *)
(* and looks at the two events without it.                                 *)
(***************************************************************************)
EXTENDS Naturals, Sequences

CONSTANTS MaxJobs,    \* bound on the jobs ever started
          Total,      \* total_steps of a job
          MaxCalls,   \* bound on the control requests
          Faults      \* which faults may happen

ASSUME BoundsAssumption == {MaxJobs, Total, MaxCalls} \subseteq Nat \ {0}
ASSUME FaultsAssumption == Faults \subseteq {"crash", "write", "start", "learn"}

VARIABLES
    job,        \* _job: its id and status; id 0 stands for None
    events,     \* the threading events _pause and _stop
    at,         \* where the learner thread of each job is
    steps,      \* environment steps recorded by each learner
    lock,       \* the call that holds _lock
    runs,       \* directories in RUNS_DIR
    state,      \* state.json of each run: a status, "absent" or "torn"
    manifest,   \* manifest.json of each run
    artifact,   \* runs with a complete model artifact
    asked,      \* history: jobs that a client asked to stop
    calls       \* control requests so far

files == <<state, manifest, artifact>>
vars == <<job, events, at, steps, lock, runs, files, asked, calls>>

(* Ids sort by local time and a random suffix, so jobs of one second, or   *)
(* of either side of a clock change, sort in any order.                    *)
Jobs == 1..MaxJobs

Active == {"running", "paused", "stopping"}
Finished == {"completed", "stopped"}
Steps == {"state", "manifest", "artifact", "outcome"}
Statuses == Active \cup Finished \cup {"failed", "interrupted"}
Contents == Statuses \cup {"absent", "torn"}

(* A thread is inside learn() and its callback, or past it.                *)
Training == {"learn", "record", "checkpoint", "finish"}
Places == Training \cup {"none", "handler"}

NoJob == [id |-> 0, status |-> "idle"]

(* thread is the run whose learner gets on when the plan is done (or is at *)
(* raised when a step of it fails), 0 if there is none.                    *)
Free == [by |-> "none", thread |-> 0, plan |-> <<>>,
         done |-> "none", raised |-> "none"]

LockFree == lock = Free

Takes(by, thread, plan, done, raised) ==
    lock' = [by |-> by, thread |-> thread, plan |-> plan,
             done |-> done, raised |-> raised]

Moved(place) ==
    IF lock.thread = 0 THEN at ELSE [at EXCEPT ![lock.thread] = place]

-----------------------------------------------------------------------------
Init ==
    /\ job = NoJob
    /\ events = [pause |-> FALSE, stop |-> FALSE]
    /\ at = [j \in Jobs |-> "none"]
    /\ steps = [j \in Jobs |-> 0]
    /\ lock = Free
    /\ runs = {}
    /\ state = [j \in Jobs |-> "absent"]
    /\ manifest = [j \in Jobs |-> "absent"]
    /\ artifact = {}
    /\ asked = {}
    /\ calls = 0

(* Mutant: a job that is stopping no longer blocks the next.               *)
MutantBusy == job.status \in {"running", "paused"}

Busy == job.status \in Active

(* Mutants: an event of the previous job survives.                         *)
MutantKeepsPause == [pause |-> events.pause, stop |-> FALSE]

MutantKeepsStop == [pause |-> FALSE, stop |-> events.stop]

Cleared == [pause |-> FALSE, stop |-> FALSE]

(* Mutant: the manifest goes first.                                        *)
MutantResultPlan == <<"outcome", "manifest", "artifact", "state">>

(* save, then the status in memory, then the two files.                    *)
ResultPlan == <<"artifact", "outcome", "manifest", "state">>

(* start() of a job, with a learner thread or, for MPC, with its result.   *)
Start(j, mpc) ==
    /\ LockFree
    /\ ~Busy
    /\ j \notin runs
    /\ runs' = runs \cup {j}
    /\ events' = Cleared
    /\ job' = [id |-> j, status |-> "running"]
    /\ IF mpc THEN Takes("start", 0, <<"state">> \o ResultPlan, "none", "none")
              ELSE Takes("start", j, <<"state">>, "learn", "none")
    /\ UNCHANGED <<at, steps, files, asked, calls>>

(* control(): every request writes the state, also when it changes nothing.*)
Control ==
    /\ LockFree
    /\ job # NoJob
    /\ calls < MaxCalls
    /\ calls' = calls + 1
    /\ Takes("control", 0, <<"state">>, "none", "none")
    /\ UNCHANGED <<at, steps, runs, files>>

Pause ==
    /\ Control
    /\ job.status = "running"
    /\ job' = [job EXCEPT !.status = "paused"]
    /\ events' = [events EXCEPT !.pause = TRUE]
    /\ UNCHANGED asked

Resume ==
    /\ Control
    /\ job.status = "paused"
    /\ job' = [job EXCEPT !.status = "running"]
    /\ events' = [events EXCEPT !.pause = FALSE]
    /\ UNCHANGED asked

Stop ==
    /\ Control
    /\ job.status \in {"running", "paused"}
    /\ job' = [job EXCEPT !.status = "stopping"]
    /\ events' = [pause |-> FALSE, stop |-> TRUE]
    /\ asked' = asked \cup {job.id}

(* A request that the status does not admit; "running" refuses a resume.   *)
Ignored ==
    /\ Control
    /\ UNCHANGED <<job, events, asked>>

-----------------------------------------------------------------------------
(* The learner thread.                                                     *)

(* EvidenceCallback: it polls while held, then stops or goes on.           *)
Callback(j) ==
    /\ at[j] = "learn"
    /\ events.pause => events.stop
    /\ at' = [at EXCEPT ![j] = IF events.stop THEN "finish" ELSE "record"]
    /\ UNCHANGED <<job, events, steps, lock, runs, files, asked, calls>>

(* _record_callback(): metrics and state are written when they are due.    *)
Record(j) ==
    /\ at[j] = "record"
    /\ LockFree
    /\ steps' = [steps EXCEPT ![j] = @ + 1]
    /\ \/ /\ Takes("learner", j, <<"state">>, "checkpoint", "handler")
          /\ UNCHANGED at
       \/ /\ at' = [at EXCEPT ![j] = "checkpoint"]
          /\ UNCHANGED lock
    /\ UNCHANGED <<job, events, runs, files, asked, calls>>

(* Mutant: the learner does not see that it has had its steps.             *)
MutantAfterStep(j) == "learn"

AfterStep(j) == IF steps[j] = Total THEN "finish" ELSE "learn"

(* _checkpoint_if_due().                                                   *)
Checkpoint(j) ==
    /\ at[j] = "checkpoint"
    /\ LockFree
    /\ \/ /\ Takes("learner", j, <<"state">>, AfterStep(j), "handler")
          /\ UNCHANGED at
       \/ /\ at' = [at EXCEPT ![j] = AfterStep(j)]
          /\ UNCHANGED lock
    /\ UNCHANGED <<job, events, steps, runs, files, asked, calls>>

(* learn() returned.  That the job is another one by now does not happen   *)
(* (OneLearner).                                                           *)
Finish(j) ==
    /\ at[j] = "finish"
    /\ LockFree
    /\ job.id = j
    /\ Takes("learner", j, ResultPlan, "none", "handler")
    /\ UNCHANGED <<job, events, at, steps, runs, files, asked, calls>>

(* The environment, the model or the training raised.                      *)
LearnFails(j) ==
    /\ "learn" \in Faults
    /\ at[j] = "learn"
    /\ at' = [at EXCEPT ![j] = "handler"]
    /\ UNCHANGED <<job, events, steps, lock, runs, files, asked, calls>>

(* The exception handler, which finds the lock free: the job may already   *)
(* be another one when the result's files could not be written.            *)
Handler(j) ==
    /\ at[j] = "handler"
    /\ LockFree
    /\ \/ /\ job.id = j
          /\ job' = [job EXCEPT !.status = "failed"]
          /\ Takes("learner", j, <<"manifest", "state">>, "none", "none")
          /\ UNCHANGED at
       \/ /\ job.id # j
          /\ at' = [at EXCEPT ![j] = "none"]
          /\ UNCHANGED <<job, lock>>
    /\ UNCHANGED <<events, steps, runs, files, asked, calls>>

-----------------------------------------------------------------------------
(* The steps of the call that holds the lock.                              *)

AtStep(step) == ~LockFree /\ Head(lock.plan) = step

Advance ==
    IF Len(lock.plan) = 1
    THEN lock' = Free /\ at' = Moved(lock.done)
    ELSE lock' = [lock EXCEPT !.plan = Tail(@)] /\ UNCHANGED at

(* Mutant: a stopped learner leaves the status as it is.                   *)
MutantOutcome == IF events.stop THEN job.status ELSE "completed"

Outcome == IF events.stop THEN "stopped" ELSE "completed"

SetOutcome ==
    /\ AtStep("outcome")
    /\ job' = [job EXCEPT !.status = Outcome]
    /\ Advance
    /\ UNCHANGED <<events, steps, runs, files, asked, calls>>

SaveArtifact ==
    /\ AtStep("artifact")
    /\ artifact' = artifact \cup {job.id}
    /\ Advance
    /\ UNCHANGED <<job, events, steps, runs, state, manifest, asked, calls>>

WriteManifest ==
    /\ AtStep("manifest")
    /\ manifest' = [manifest EXCEPT ![job.id] = job.status]
    /\ Advance
    /\ UNCHANGED <<job, events, steps, runs, state, artifact, asked, calls>>

WriteState ==
    /\ AtStep("state")
    /\ state' = [state EXCEPT ![job.id] = job.status]
    /\ Advance
    /\ UNCHANGED <<job, events, steps, runs, manifest, artifact, asked, calls>>

(* Files are written in place: what fails or is cut off may leave a torn   *)
(* file.                                                                   *)
MayTear ==
    /\ state' \in {state} \cup
          (IF AtStep("state") THEN {[state EXCEPT ![job.id] = "torn"]} ELSE {})
    /\ manifest' \in {manifest} \cup
          (IF AtStep("manifest") THEN {[manifest EXCEPT ![job.id] = "torn"]}
                                ELSE {})
    /\ UNCHANGED artifact

WriteFails ==
    /\ (IF lock.by = "start" THEN "start" ELSE "write") \in Faults
    /\ AtStep("state") \/ AtStep("manifest") \/ AtStep("artifact")
    /\ MayTear
    /\ lock' = Free
    /\ at' = Moved(lock.raised)
    /\ UNCHANGED <<job, events, steps, runs, asked, calls>>

(* The last run by name that has a state.json.                             *)
Latest(st) ==
    {j \in Jobs : st[j] # "absent" /\ \A k \in Jobs : st[k] # "absent" => k <= j}

(* _load_latest_state(), if it parses.                                     *)
Loaded(j, st) ==
    IF st[j] = "torn" THEN NoJob
    ELSE [id |-> j,
          status |-> IF st[j] \in Active THEN "interrupted" ELSE st[j]]

Crash ==
    /\ "crash" \in Faults
    /\ MayTear
    /\ \/ Latest(state') = {} /\ job' = NoJob
       \/ \E j \in Latest(state') : job' = Loaded(j, state')
    /\ events' = [pause |-> FALSE, stop |-> FALSE]
    /\ at' = [j \in Jobs |-> "none"]
    /\ lock' = Free
    /\ UNCHANGED <<steps, runs, asked, calls>>

Learner(j) ==
    \/ Callback(j)
    \/ Record(j)
    \/ Checkpoint(j)
    \/ Finish(j)
    \/ LearnFails(j)
    \/ Handler(j)

Holder ==
    \/ SetOutcome
    \/ SaveArtifact
    \/ WriteManifest
    \/ WriteState
    \/ WriteFails

Next ==
    \/ \E j \in Jobs, mpc \in BOOLEAN : Start(j, mpc)
    \/ Pause
    \/ Resume
    \/ Stop
    \/ Ignored
    \/ \E j \in Jobs : Learner(j)
    \/ Holder
    \/ Crash

Spec == Init /\ [][Next]_vars

(* Threads run.  Requests are finitely many, so that weak fairness of the  *)
(* learner is enough for it to get the lock.                               *)
FairSpec ==
    /\ Spec
    /\ WF_vars(Holder)
    /\ \A j \in Jobs : WF_vars(Learner(j))

-----------------------------------------------------------------------------
(* Properties.                                                             *)

TypeOK ==
    /\ job \in [id : Jobs, status : Statuses] \cup {NoJob}
    /\ events \in [pause : BOOLEAN, stop : BOOLEAN]
    /\ at \in [Jobs -> Places]
    /\ steps \in [Jobs -> 0..Total]
    /\ lock.thread \in {0} \cup Jobs
    /\ {lock.done, lock.raised} \subseteq Places
    /\ runs \subseteq Jobs
    /\ state \in [Jobs -> Contents]
    /\ manifest \in [Jobs -> Contents]
    /\ artifact \subseteq Jobs
    /\ asked \subseteq Jobs
    /\ calls \in 0..MaxCalls

(* The callback writes into the current job without asking whose it is:    *)
(* right only because a learner that still trains is that of the current,  *)
(* active job.                                                             *)
OneLearner ==
    \A j \in Jobs :
        at[j] \in Training => job.id = j /\ (LockFree => job.status \in Active)

(* A job shown as running is not held: the event that pauses learners may  *)
(* not survive a job that ended while it was paused.                       *)
RunningIsNotHeld == job.status = "running" => ~events.pause

(* The files say "completed" of a job that nobody asked to stop, and       *)
(* "stopped" of one that somebody did, whenever the stop came and whatever *)
(* became of the jobs before.                                              *)
HonestOutcome ==
    \A j \in Jobs : \A said \in {manifest[j], state[j]} :
        /\ said = "stopped" => j \in asked
        /\ said = "completed" => j \notin asked

(* A strategy offered as ready has its artifact, whatever write fails and  *)
(* wherever the process dies.                                              *)
ReadyHasArtifact ==
    \A j \in Jobs : manifest[j] \in Finished => j \in artifact

(* A stop ends the job.                                                    *)
StopEnds ==
    \A j \in Jobs : j \in asked ~> ~(job.id = j /\ job.status \in Active)

=============================================================================
