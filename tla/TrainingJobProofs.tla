--------------------------- MODULE TrainingJobProofs ---------------------------
(***************************************************************************)
(* Proofs about TrainingJob: types, and three parts.                       *)
(*                                                                         *)
(* That a learner is the one of the current job is not inductive: the      *)
(* lock's holder may be about to start a learner, to let one go on, or to  *)
(* change the status of the job.  Holds says of each such call that it fits*)
(* the job, and Shapes what the proof needs of types.                      *)
(*                                                                         *)
(* That outcomes are honest is not inductive either: a file repeats what   *)
(* memory says, and memory draws it from the stop event.  OutcomeInvariant *)
(* ties the event to the clients' requests as long as an outcome is due.   *)
(*                                                                         *)
(* That a ready strategy has its artifact needs the order of the steps that*)
(* the call in flight has left: what the manifest will say comes after what*)
(* it says it of.                                                          *)
(***************************************************************************)
EXTENDS TrainingJob, SequenceTheorems, TLAPS

Calls == [by : {"none", "start", "control", "learner"}, thread : {0} \cup Jobs,
          plan : Seq(Steps), done : Places, raised : {"none", "handler"}]

Shapes ==
    /\ job = [id |-> job.id, status |-> job.status]
    /\ events \in [pause : BOOLEAN, stop : BOOLEAN]
    /\ at \in [Jobs -> Places]
    /\ lock \in Calls
    /\ lock # Free => lock.plan # <<>>

(* A learner that trains is that of the current job, which is active       *)
(* except while the call that ends it holds the lock.                      *)
Learning ==
    \A j \in Jobs : at[j] \in Training =>
        /\ job.id = j
        /\ job.status \in Active \/ (lock.thread = j /\ lock.done = "none")

(* The call in flight: a start finds no learner; a learner that goes on is *)
(* that of the current job; only the end of a job changes its status.      *)
Holds ==
    /\ lock.by = "start" => \A j \in Jobs : at[j] \notin Training
    /\ lock.thread # 0 /\ lock.done \in Training =>
          lock.thread = job.id /\ job.status \in Active
    /\ \A i \in DOMAIN lock.plan : lock.plan[i] = "outcome" =>
          lock.done = "none" /\ (lock.by = "start" \/ lock.thread = job.id)

LearnerInvariant == Shapes /\ Learning /\ Holds /\ RunningIsNotHeld

-----------------------------------------------------------------------------
(* A list of steps without its first.                                      *)
LEMMA PlanTail ==
    ASSUME NEW plan \in Seq(Steps), plan # <<>>
    PROVE  /\ Head(plan) = plan[1] /\ 1 \in DOMAIN plan
           /\ Len(plan) # 1 =>
                /\ Tail(plan) \in Seq(Steps) /\ Tail(plan) # <<>>
                /\ \A i \in DOMAIN Tail(plan) :
                      i + 1 \in DOMAIN plan /\ Tail(plan)[i] = plan[i + 1]
<1>1. Head(plan) = plan[1] /\ Len(plan) \in Nat \ {0} /\ 1 \in DOMAIN plan
  BY LenProperties, EmptySeq
<1>2. /\ Tail(plan) \in Seq(Steps) /\ Len(Tail(plan)) = Len(plan) - 1
      /\ \A i \in 1..Len(Tail(plan)) : Tail(plan)[i] = plan[i + 1]
  BY HeadTailProperties
<1>3. DOMAIN plan = 1..Len(plan) /\ DOMAIN Tail(plan) = 1..Len(Tail(plan))
  BY <1>2, LenProperties
<1>4. Len(plan) # 1 => Tail(plan) # <<>>
  BY <1>1, <1>2, EmptySeq
<1> QED BY <1>1, <1>2, <1>3, <1>4

LEMMA NamesDiffer ==
    /\ "none" \notin Training /\ "handler" \notin Training
    /\ Training \subseteq Places /\ 0 \notin Jobs
    /\ Free \in Calls
  BY BoundsAssumption DEF Training, Places, Jobs, Free, Calls

(* The holder of the lock takes a step that leaves the job alone, or is the*)
(* step that ends it, and goes on to its next step or returns.             *)
LEMMA AdvanceKeeps ==
    ASSUME Shapes, Learning, Holds, ~LockFree, Advance,
           job'.id = job.id, job' = job \/ Head(lock.plan) = "outcome"
    PROVE  /\ at' \in [Jobs -> Places]
           /\ lock' \in Calls
           /\ lock' # Free => lock'.plan # <<>>
           /\ Learning' /\ Holds'
<1> USE NamesDiffer
<1> DEFINE plan == lock.plan
<1>1. plan \in Seq(Steps) /\ plan # <<>> /\ lock \in Calls
  BY DEF Shapes, LockFree, Calls
<1>2. /\ Head(plan) = plan[1] /\ 1 \in DOMAIN plan
      /\ Len(plan) # 1 =>
           /\ Tail(plan) \in Seq(Steps) /\ Tail(plan) # <<>>
           /\ \A i \in DOMAIN Tail(plan) :
                 i + 1 \in DOMAIN plan /\ Tail(plan)[i] = plan[i + 1]
  BY <1>1, PlanTail
<1>3. job' # job => /\ lock.done = "none"
                    /\ lock.by = "start" \/ lock.thread = job.id
  BY <1>2 DEF Holds
<1>4. CASE Len(plan) = 1
  <2>1. lock' = Free /\ at' = Moved(lock.done)
    BY <1>4 DEF Advance
  <2>2. at' \in [Jobs -> Places]
    BY <2>1, <1>1 DEF Moved, Shapes, Calls
  <2>3. Learning'
    <3> SUFFICES ASSUME NEW j \in Jobs, at'[j] \in Training
                 PROVE  job'.id = j /\ job'.status \in Active
      BY <2>1 DEF Learning
    <3>1. CASE lock.thread = j
      <4>1. at'[j] = lock.done
        BY <2>1, <3>1 DEF Moved, Shapes
      <4> QED BY <4>1, <3>1, <1>3 DEF Holds
    <3>2. CASE lock.thread # j
      <4>1. at'[j] = at[j]
        BY <2>1, <3>2, <1>1 DEF Moved, Shapes, Calls
      <4>2. job.id = j /\ job.status \in Active
        BY <4>1, <3>2 DEF Learning
      <4>3. job' = job
        BY <4>1, <4>2, <3>2, <1>3 DEF Holds
      <4> QED BY <4>2, <4>3
    <3> QED BY <3>1, <3>2
  <2>4. Holds'
    BY <2>1 DEF Holds, Free
  <2> QED BY <2>1, <2>2, <2>3, <2>4
<1>5. CASE Len(plan) # 1
  <2>1. lock' = [lock EXCEPT !.plan = Tail(plan)] /\ at' = at
    BY <1>5 DEF Advance
  <2>2. /\ lock' \in Calls /\ lock'.plan = Tail(plan) /\ lock'.by = lock.by
        /\ lock'.thread = lock.thread /\ lock'.done = lock.done
    BY <2>1, <1>1, <1>2, <1>5 DEF Calls
  <2>3. Learning'
    <3> SUFFICES ASSUME NEW j \in Jobs, at[j] \in Training
                 PROVE  /\ job'.id = j
                        /\ \/ job'.status \in Active
                           \/ lock.thread = j /\ lock.done = "none"
      BY <2>1, <2>2 DEF Learning
    <3>1. job.id = j
      BY DEF Learning
    <3> QED BY <3>1, <1>3 DEF Learning, Holds
  <2>4. Holds'
    <3>1. lock'.by = "start" => \A j \in Jobs : at'[j] \notin Training
      BY <2>1, <2>2 DEF Holds
    <3>2. lock'.thread # 0 /\ lock'.done \in Training =>
              lock'.thread = job'.id /\ job'.status \in Active
      BY <2>2, <1>3 DEF Holds
    <3>3. \A i \in DOMAIN lock'.plan : lock'.plan[i] = "outcome" =>
              /\ lock'.done = "none"
              /\ lock'.by = "start" \/ lock'.thread = job'.id
      BY <2>2, <1>2, <1>5 DEF Holds
    <3> QED BY <3>1, <3>2, <3>3 DEF Holds
  <2>5. at' \in [Jobs -> Places]
    BY <2>1 DEF Shapes
  <2> QED BY <2>2, <2>3, <2>4, <2>5, <1>2, <1>5
<1> QED BY <1>4, <1>5

(* The plans of the calls; only a result has the step that ends a job.     *)
LEMMA Prefixed ==
    ASSUME NEW S, NEW s \in Seq(S), NEW plan \in Seq(S), Len(s) = 1, Len(plan) = 4
    PROVE  s \o plan \in Seq(S) /\ s \o plan # <<>>
<1>1. s \o plan \in Seq(S) /\ Len(s \o plan) = Len(s) + Len(plan)
  BY ConcatProperties, Zenon
<1>2. Len(s \o plan) # 0
  BY <1>1
<1>3. Len(<<>>) = 0
  OBVIOUS
<1> QED BY <1>1, <1>2, <1>3, Zenon

LEMMA Plans ==
    /\ <<"state">> \in Seq(Steps) /\ <<"state">> # <<>>
    /\ \A i \in DOMAIN <<"state">> : <<"state">>[i] # "outcome"
    /\ <<"manifest", "state">> \in Seq(Steps) /\ <<"manifest", "state">> # <<>>
    /\ \A i \in DOMAIN <<"manifest", "state">> :
          <<"manifest", "state">>[i] # "outcome"
    /\ ResultPlan \in Seq(Steps) /\ ResultPlan # <<>>
    /\ <<"state">> \o ResultPlan \in Seq(Steps)
    /\ <<"state">> \o ResultPlan # <<>>
<1>1. <<"state">> \in Seq(Steps) /\ Len(<<"state">>) = 1 /\ <<"state">> # <<>>
  BY DEF Steps
<1>2. ResultPlan \in Seq(Steps) /\ Len(ResultPlan) = 4 /\ ResultPlan # <<>>
  BY DEF Steps, ResultPlan
<1>3. \A i \in DOMAIN <<"state">> : <<"state">>[i] # "outcome"
  OBVIOUS
<1>4. <<"manifest", "state">> \in Seq(Steps) /\ <<"manifest", "state">> # <<>>
  BY DEF Steps
<1>5. \A i \in DOMAIN <<"manifest", "state">> :
          <<"manifest", "state">>[i] # "outcome"
  OBVIOUS
<1>6. /\ <<"state">> \o ResultPlan \in Seq(Steps)
      /\ <<"state">> \o ResultPlan # <<>>
  BY <1>1, <1>2, Prefixed
<1> QED BY <1>1, <1>2, <1>3, <1>4, <1>5, <1>6

(* A call that takes the free lock while no job ends: what is left to show *)
(* is that it fits the job.                                                *)
LEMMA FreeLock ==
    ASSUME LearnerInvariant, LockFree
    PROVE  \A j \in Jobs : at[j] \in Training =>
               job.id = j /\ job.status \in Active
  BY NamesDiffer DEF LearnerInvariant, Learning, LockFree, Free

(* What a call that takes the lock leaves in it.                           *)
LEMMA Taken ==
    ASSUME NEW by \in {"none", "start", "control", "learner"},
           NEW thread \in {0} \cup Jobs, NEW plan \in Seq(Steps), plan # <<>>,
           NEW done \in Places, NEW raised \in {"none", "handler"},
           Takes(by, thread, plan, done, raised)
    PROVE  /\ lock' \in Calls
           /\ lock'.by = by /\ lock'.thread = thread /\ lock'.done = done
           /\ lock'.plan = plan /\ lock'.plan # <<>>
  BY DEF Takes, Calls

(* A new job, with a learner or with its result.                           *)
LEMMA StartKeeps ==
    ASSUME LearnerInvariant, NEW j \in Jobs, NEW mpc \in BOOLEAN, Start(j, mpc)
    PROVE  LearnerInvariant'
<1> USE NamesDiffer
<1>1. \A k \in Jobs : at[k] \notin Training
  BY FreeLock DEF Start, Busy
<1>2. job'.id = j /\ job'.status = "running" /\ job' = [id |-> j, status |-> "running"]
  BY DEF Start
<1>3. events' = [pause |-> FALSE, stop |-> FALSE] /\ at' = at
  BY DEF Start, Cleared
<1>4. /\ lock'.by = "start" /\ lock' \in Calls /\ lock'.plan # <<>>
      /\ mpc => lock'.thread = 0 /\ lock'.done = "none"
      /\ ~mpc => lock'.thread = j /\ lock'.plan = <<"state">>
  <2>1. "none" \in Places /\ "learn" \in Places
    BY DEF Training, Places
  <2>2. CASE mpc
    <3>1. Takes("start", 0, <<"state">> \o ResultPlan, "none", "none")
      BY <2>2 DEF Start
    <3> DEFINE plan == <<"state">> \o ResultPlan
    <3>2. plan \in Seq(Steps) /\ plan # <<>>
      BY Plans, Zenon
    <3> HIDE DEF plan
    <3>3. Takes("start", 0, plan, "none", "none")
      BY <3>1 DEF plan
    <3>4. lock' \in Calls /\ lock'.by = "start" /\ lock'.thread = 0
          /\ lock'.done = "none" /\ lock'.plan # <<>>
      BY <2>1, <3>2, <3>3, Taken
    <3> QED BY <3>4, <2>2
  <2>3. CASE ~mpc
    <3>1. Takes("start", j, <<"state">>, "learn", "none")
      BY <2>3 DEF Start
    <3>2. lock' \in Calls /\ lock'.by = "start" /\ lock'.thread = j
          /\ lock'.plan = <<"state">> /\ lock'.plan # <<>>
      BY <2>1, <3>1, Plans, Taken
    <3> QED BY <3>2, <2>3
  <2> QED BY <2>2, <2>3
<1>5. Shapes'
  BY <1>2, <1>3, <1>4 DEF Shapes, LearnerInvariant
<1>6. Learning'
  BY <1>1, <1>3 DEF Learning
<1>7. Holds'
  <2>1. \A i \in DOMAIN lock'.plan : lock'.plan[i] = "outcome" => lock'.done = "none"
    BY <1>4, Plans
  <2>2. lock'.thread # 0 => lock'.thread = job'.id /\ job'.status \in Active
    BY <1>2, <1>4 DEF Active
  <2> QED BY <1>1, <1>3, <1>4, <2>1, <2>2 DEF Holds
<1> QED BY <1>3, <1>5, <1>6, <1>7 DEF LearnerInvariant, RunningIsNotHeld

(* A control request moves the job between the active statuses.            *)
LEMMA ControlKeeps ==
    ASSUME LearnerInvariant, Pause \/ Resume \/ Stop \/ Ignored
    PROVE  LearnerInvariant'
<1> USE NamesDiffer
<1>1. /\ LockFree /\ at' = at /\ lock'.by = "control" /\ lock'.thread = 0
      /\ lock'.plan = <<"state">> /\ lock' \in Calls
  <2>1. /\ LockFree /\ at' = at
        /\ Takes("control", 0, <<"state">>, "none", "none")
    BY DEF Pause, Resume, Stop, Ignored, Control
  <2>2. "none" \in Places
    BY DEF Places
  <2> QED BY <2>1, <2>2, Plans, Taken
<1>2. /\ job'.id = job.id /\ job' = [id |-> job'.id, status |-> job'.status]
      /\ job.status \in Active => job'.status \in Active
      /\ events' \in [pause : BOOLEAN, stop : BOOLEAN]
      /\ RunningIsNotHeld'
  <2>1. /\ job = [id |-> job.id, status |-> job.status]
        /\ events \in [pause : BOOLEAN, stop : BOOLEAN] /\ RunningIsNotHeld
    BY DEF LearnerInvariant, Shapes
  <2> USE DEF Active, RunningIsNotHeld
  <2>2. CASE Pause
    BY <2>1, <2>2 DEF Pause
  <2>3. CASE Resume
    BY <2>1, <2>3 DEF Resume
  <2>4. CASE Stop
    BY <2>1, <2>4 DEF Stop
  <2>5. CASE Ignored
    BY <2>1, <2>5 DEF Ignored
  <2> QED BY <2>2, <2>3, <2>4, <2>5
<1>3. Shapes'
  BY <1>1, <1>2, Plans DEF Shapes, LearnerInvariant
<1>4. Learning'
  BY <1>1, <1>2, FreeLock DEF Learning
<1>5. Holds'
  BY <1>1, Plans DEF Holds
<1> QED BY <1>2, <1>3, <1>4, <1>5 DEF LearnerInvariant

(* What the learner thread does without the lock leaves the job alone.     *)
LEMMA PollKeeps ==
    ASSUME LearnerInvariant, NEW j \in Jobs, Callback(j) \/ LearnFails(j)
    PROVE  LearnerInvariant'
<1>1. PICK place \in {"finish", "record", "handler"} : at' = [at EXCEPT ![j] = place]
  BY DEF Callback, LearnFails
<1>2. /\ at[j] = "learn" /\ job' = job /\ events' = events /\ lock' = lock
  BY DEF Callback, LearnFails
<1>3. at[j] \in Training /\ place \in Places
  BY <1>2 DEF Training, Places
<1>4. Shapes'
  BY <1>1, <1>2, <1>3 DEF LearnerInvariant, Shapes
<1>5. \A k \in Jobs : at'[k] \in Training => at[k] \in Training
  BY <1>1, <1>3 DEF LearnerInvariant, Shapes
<1>6. Learning' /\ Holds'
  BY <1>2, <1>5 DEF LearnerInvariant, Learning, Holds
<1> QED BY <1>2, <1>4, <1>6 DEF LearnerInvariant, RunningIsNotHeld

(* A record or a checkpoint of a learner, with or without its file.        *)
LEMMA ProgressKeeps ==
    ASSUME LearnerInvariant, NEW j \in Jobs, Record(j) \/ Checkpoint(j)
    PROVE  LearnerInvariant'
<1> USE NamesDiffer
<1>1. at[j] \in Training /\ LockFree /\ job' = job /\ events' = events
  BY DEF Record, Checkpoint, Training
<1>2. job.id = j /\ job.status \in Active
  BY <1>1, FreeLock
<1>3. PICK place \in Training :
          \/ Takes("learner", j, <<"state">>, place, "handler") /\ at' = at
          \/ at' = [at EXCEPT ![j] = place] /\ lock' = lock
  BY DEF Record, Checkpoint, AfterStep, Training
<1>4. CASE Takes("learner", j, <<"state">>, place, "handler") /\ at' = at
  <2>1. /\ lock' \in Calls /\ lock'.by = "learner" /\ lock'.thread = j
        /\ lock'.plan = <<"state">> /\ lock'.plan # <<>>
    BY <1>4, Plans, Taken
  <2>2. Shapes'
    BY <1>1, <1>4, <2>1 DEF LearnerInvariant, Shapes
  <2>3. Learning'
    BY <1>1, <1>4, FreeLock DEF Learning
  <2>4. Holds'
    BY <1>1, <1>2, <2>1, Plans DEF Holds
  <2> QED BY <1>1, <2>2, <2>3, <2>4 DEF LearnerInvariant, RunningIsNotHeld
<1>5. CASE at' = [at EXCEPT ![j] = place] /\ lock' = lock
  <2>1. Shapes'
    BY <1>1, <1>5 DEF LearnerInvariant, Shapes
  <2>2. \A k \in Jobs : at'[k] \in Training => at[k] \in Training
    BY <1>1, <1>5 DEF LearnerInvariant, Shapes
  <2>3. Learning' /\ Holds'
    BY <1>1, <1>5, <2>2 DEF LearnerInvariant, Learning, Holds
  <2> QED BY <1>1, <2>1, <2>3 DEF LearnerInvariant, RunningIsNotHeld
<1> QED BY <1>3, <1>4, <1>5

(* The result of a learner: the job is still its own.                      *)
LEMMA FinishKeeps ==
    ASSUME LearnerInvariant, NEW j \in Jobs, Finish(j)
    PROVE  LearnerInvariant'
<1> USE NamesDiffer
<1>1. /\ LockFree /\ job.id = j /\ job' = job /\ events' = events /\ at' = at
      /\ Takes("learner", j, ResultPlan, "none", "handler")
  BY DEF Finish
<1>2. "none" \in Places
  BY DEF Places
<1>3. /\ lock' \in Calls /\ lock'.by = "learner" /\ lock'.thread = j
      /\ lock'.done = "none" /\ lock'.plan # <<>>
  BY <1>1, <1>2, Plans, Taken
<1>4. Shapes'
  BY <1>1, <1>3 DEF LearnerInvariant, Shapes
<1>5. Learning'
  BY <1>1, FreeLock DEF Learning
<1>6. Holds'
  BY <1>1, <1>3 DEF Holds
<1> QED BY <1>1, <1>4, <1>5, <1>6 DEF LearnerInvariant, RunningIsNotHeld

(* The exception handler: no learner of this job trains any more.          *)
LEMMA HandlerKeeps ==
    ASSUME LearnerInvariant, NEW j \in Jobs, Handler(j)
    PROVE  LearnerInvariant'
<1> USE NamesDiffer
<1>1. at[j] = "handler" /\ LockFree /\ events' = events
  BY DEF Handler
<1>2. CASE job.id = j /\ at' = at /\ job' = [job EXCEPT !.status = "failed"]
           /\ Takes("learner", j, <<"manifest", "state">>, "none", "none")
  <2>1. "none" \in Places
    BY DEF Places
  <2>2. /\ lock' \in Calls /\ lock'.by = "learner" /\ lock'.done = "none"
        /\ lock'.plan = <<"manifest", "state">> /\ lock'.plan # <<>>
    BY <1>2, <2>1, Plans, Taken
  <2>3. job' = [id |-> j, status |-> "failed"]
    BY <1>2 DEF LearnerInvariant, Shapes
  <2>4. Shapes'
    BY <1>1, <1>2, <2>2, <2>3 DEF LearnerInvariant, Shapes
  <2>5. Learning'
    BY <1>1, <1>2, FreeLock DEF Learning
  <2>6. Holds'
    BY <2>2, Plans DEF Holds
  <2> QED BY <2>3, <2>4, <2>5, <2>6 DEF LearnerInvariant, RunningIsNotHeld
<1>3. CASE job' = job /\ lock' = lock /\ at' = [at EXCEPT ![j] = "none"]
  <2>1. Shapes'
    BY <1>1, <1>3 DEF LearnerInvariant, Shapes, Places
  <2>2. \A k \in Jobs : at'[k] \in Training => at[k] \in Training
    BY <1>3 DEF LearnerInvariant, Shapes
  <2>3. Learning' /\ Holds'
    BY <1>3, <2>2 DEF LearnerInvariant, Learning, Holds
  <2> QED BY <1>1, <1>3, <2>1, <2>3 DEF LearnerInvariant, RunningIsNotHeld
<1> QED BY <1>2, <1>3 DEF Handler

(* A step of the call that holds the lock.                                 *)
LEMMA HolderKeeps ==
    ASSUME LearnerInvariant,
           SetOutcome \/ SaveArtifact \/ WriteManifest \/ WriteState
    PROVE  LearnerInvariant'
<1>1. /\ ~LockFree /\ Advance /\ events' = events
      /\ job' = job \/ /\ Head(lock.plan) = "outcome"
                       /\ job' = [job EXCEPT !.status = Outcome]
  BY DEF SetOutcome, SaveArtifact, WriteManifest, WriteState, AtStep
<1>2. /\ job' = [id |-> job'.id, status |-> job'.status] /\ job'.id = job.id
      /\ RunningIsNotHeld'
  BY <1>1 DEF LearnerInvariant, Shapes, RunningIsNotHeld, Outcome
<1>3. /\ at' \in [Jobs -> Places] /\ lock' \in Calls
      /\ lock' # Free => lock'.plan # <<>>
      /\ Learning' /\ Holds'
  BY <1>1, <1>2, AdvanceKeeps DEF LearnerInvariant
<1> QED BY <1>1, <1>2, <1>3 DEF LearnerInvariant, Shapes

(* A write that raises ends the call; its learner, if any, is past it.     *)
LEMMA FailureKeeps ==
    ASSUME LearnerInvariant, WriteFails
    PROVE  LearnerInvariant'
<1> USE NamesDiffer
<1>1. lock' = Free /\ at' = Moved(lock.raised) /\ job' = job /\ events' = events
  BY DEF WriteFails
<1>2. lock \in Calls /\ lock.raised \in {"none", "handler"}
  BY DEF LearnerInvariant, Shapes, Calls
<1>3. Shapes'
  BY <1>1, <1>2 DEF LearnerInvariant, Shapes, Moved, Places
<1>4. \A k \in Jobs : at'[k] \in Training => at[k] \in Training /\ lock.thread # k
  BY <1>1, <1>2 DEF LearnerInvariant, Shapes, Moved
<1>5. Learning'
  BY <1>1, <1>4 DEF LearnerInvariant, Learning
<1>6. Holds'
  BY <1>1 DEF Holds, Free
<1> QED BY <1>1, <1>3, <1>5, <1>6 DEF LearnerInvariant, RunningIsNotHeld

(* A restart has no learner and no event set.                              *)
LEMMA RestartKeeps ==
    ASSUME LearnerInvariant, Crash
    PROVE  LearnerInvariant'
<1> USE NamesDiffer
<1>1. /\ lock' = Free /\ at' = [j \in Jobs |-> "none"]
      /\ events' = [pause |-> FALSE, stop |-> FALSE]
  BY DEF Crash
<1>2. job' = [id |-> job'.id, status |-> job'.status]
  <2>1. job' = NoJob \/ \E j \in Jobs : job' = Loaded(j, state')
    BY DEF Crash, Latest
  <2> QED BY <2>1 DEF Loaded, NoJob
<1>3. Shapes'
  BY <1>1, <1>2 DEF Shapes, Places
<1>4. Learning' /\ Holds'
  BY <1>1 DEF Learning, Holds, Free
<1> QED BY <1>1, <1>3, <1>4 DEF LearnerInvariant, RunningIsNotHeld

-----------------------------------------------------------------------------
LEMMA LearnerStarts == Init => LearnerInvariant
<1> SUFFICES ASSUME Init PROVE LearnerInvariant
  OBVIOUS
<1>1. Shapes
  BY NamesDiffer DEF Init, Shapes, NoJob, Places
<1>2. Learning /\ Holds
  BY NamesDiffer DEF Init, Learning, Holds, Free
<1> QED BY <1>1, <1>2 DEF Init, LearnerInvariant, RunningIsNotHeld

LEMMA LearnerSteps == LearnerInvariant /\ [Next]_vars => LearnerInvariant'
<1> SUFFICES ASSUME LearnerInvariant, [Next]_vars PROVE LearnerInvariant'
  OBVIOUS
<1>1. ASSUME NEW j \in Jobs, NEW mpc \in BOOLEAN, Start(j, mpc)
      PROVE  LearnerInvariant'
  BY <1>1, StartKeeps
<1>2. CASE Pause \/ Resume \/ Stop \/ Ignored
  BY <1>2, ControlKeeps
<1>3. ASSUME NEW j \in Jobs, Learner(j)
      PROVE  LearnerInvariant'
  BY <1>3, PollKeeps, ProgressKeeps, FinishKeeps, HandlerKeeps DEF Learner
<1>4. CASE Holder
  BY <1>4, HolderKeeps, FailureKeeps DEF Holder
<1>5. CASE Crash
  BY <1>5, RestartKeeps
<1>6. CASE UNCHANGED vars
  BY <1>6 DEF vars, LearnerInvariant, Shapes, Learning, Holds, RunningIsNotHeld
<1> QED BY <1>1, <1>2, <1>3, <1>4, <1>5, <1>6 DEF Next

(* However pauses, stops, failing writes, failing training and restarts    *)
(* fall, a learner that is still in learn() or its callback is that of the *)
(* current job, which _record_callback and _checkpoint_if_due take for     *)
(* granted, and the job is active when they look at it.                    *)
THEOREM LearnersAreOne == Spec => []OneLearner
<1>1. LearnerInvariant => OneLearner
  BY NamesDiffer DEF LearnerInvariant, Learning, OneLearner, LockFree, Free
<1> QED BY <1>1, LearnerStarts, LearnerSteps, PTL DEF Spec

(* A job whose status reads running is not held by the pause event, of     *)
(* whichever job that event was.                                           *)
THEOREM RunningIsNeverHeld == Spec => []RunningIsNotHeld
<1>1. LearnerInvariant => RunningIsNotHeld
  BY DEF LearnerInvariant
<1> QED BY <1>1, LearnerStarts, LearnerSteps, PTL DEF Spec

-----------------------------------------------------------------------------
(* What the files say of an outcome.  Memory is as honest as the files; the*)
(* stop event tells the clients' stops as long as an outcome may be drawn  *)
(* from it; and a job that may still be stopped has not been called        *)
(* completed, nor has one that is yet to be started.                       *)
Honest(said, j) ==
    /\ said = "stopped" => j \in asked
    /\ said = "completed" => j \notin asked

FilesHonest ==
    /\ DOMAIN state = Jobs /\ DOMAIN manifest = Jobs
    /\ \A j \in Jobs : Honest(state[j], j) /\ Honest(manifest[j], j)

Pending == \E i \in DOMAIN lock.plan : lock.plan[i] = "outcome"

StopTold ==
    job.status \in Active \/ Pending => (events.stop <=> job.id \in asked)

Unfinished ==
    job.id \in Jobs /\ job.status \in Active =>
        state[job.id] \notin Finished /\ manifest[job.id] \notin Finished

Known ==
    /\ job.id \in Jobs => job.id \in runs
    /\ job.id \notin Jobs => job.status \notin Active
    /\ asked \subseteq runs
    /\ \A j \in Jobs : state[j] # "absent" \/ manifest[j] # "absent" => j \in runs

OutcomeInvariant ==
    /\ FilesHonest
    /\ Honest(job.status, job.id)
    /\ StopTold
    /\ Unfinished
    /\ Known

(* A step that changes neither the job nor the files, and leaves no outcome*)
(* to be drawn that was not due, changes nothing here.                     *)
LEMMA OutcomeFrame ==
    ASSUME OutcomeInvariant, job' = job, events' = events, asked' = asked,
           runs' = runs, state' = state, manifest' = manifest,
           Pending' => Pending \/ job.status \in Active
    PROVE  OutcomeInvariant'
  BY DEF OutcomeInvariant, FilesHonest, Honest, StopTold, Unfinished, Known

(* The free lock has no plan.                                              *)
LEMMA NothingPending == LockFree => ~Pending
  BY DEF LockFree, Free, Pending

LEMMA OutcomeStart ==
    ASSUME OutcomeInvariant, NEW j \in Jobs, NEW mpc \in BOOLEAN, Start(j, mpc)
    PROVE  OutcomeInvariant'
<1>1. /\ job'.id = j /\ job'.status = "running" /\ j \notin runs
      /\ runs' = runs \cup {j} /\ events'.stop = FALSE
      /\ state' = state /\ manifest' = manifest /\ asked' = asked
  BY DEF Start, Cleared, files
<1>2. j \notin asked /\ state[j] = "absent" /\ manifest[j] = "absent"
  BY <1>1 DEF OutcomeInvariant, Known
<1>3. FilesHonest' /\ Honest(job.status, job.id)' /\ Known'
  BY <1>1 DEF OutcomeInvariant, FilesHonest, Honest, Known
<1>4. StopTold' /\ Unfinished'
  BY <1>1, <1>2 DEF StopTold, Unfinished, Finished
<1> QED BY <1>3, <1>4 DEF OutcomeInvariant

LEMMA OutcomeControl ==
    ASSUME LearnerInvariant, OutcomeInvariant, Pause \/ Resume \/ Stop \/ Ignored
    PROVE  OutcomeInvariant'
<1>1. /\ LockFree /\ job # NoJob /\ runs' = runs /\ state' = state
      /\ manifest' = manifest
      /\ Takes("control", 0, <<"state">>, "none", "none")
  BY DEF Pause, Resume, Stop, Ignored, Control, files
<1>2. ~Pending'
  <2>1. lock'.plan = <<"state">>
    BY <1>1 DEF Takes
  <2> QED BY <2>1, Plans DEF Pending
<1>3. CASE Ignored
  BY <1>1, <1>2, <1>3, OutcomeFrame DEF Ignored
<1>4. CASE Pause \/ Resume \/ Stop
  <2>1. /\ job'.id = job.id
        /\ job.status \in Active /\ job'.status \in Active
    BY <1>4 DEF Pause, Resume, Stop, Active, LearnerInvariant, Shapes
  <2>2. \/ asked' = asked /\ events'.stop = events.stop
        \/ asked' = asked \cup {job.id} /\ events'.stop = TRUE
    BY <1>4 DEF Pause, Resume, Stop, LearnerInvariant, Shapes
  <2>3. job.id \in Jobs /\ job.id \in runs
    BY <2>1 DEF OutcomeInvariant, Known, Active
  <2>4. FilesHonest'
    BY <1>1, <2>1, <2>2, <2>3
       DEF OutcomeInvariant, FilesHonest, Honest, Unfinished, Finished
  <2>5. Honest(job.status, job.id)'
    BY <2>1 DEF Honest, Active
  <2>6. StopTold'
    BY <2>1, <2>2 DEF OutcomeInvariant, StopTold
  <2>7. Unfinished' /\ Known'
    BY <1>1, <2>1, <2>2, <2>3 DEF OutcomeInvariant, Unfinished, Known
  <2> QED BY <2>4, <2>5, <2>6, <2>7 DEF OutcomeInvariant
<1> QED BY <1>3, <1>4

LEMMA OutcomeLearner ==
    ASSUME LearnerInvariant, OutcomeInvariant, NEW j \in Jobs, Learner(j)
    PROVE  OutcomeInvariant'
<1>1. runs' = runs /\ state' = state /\ manifest' = manifest
      /\ events' = events /\ asked' = asked
  BY DEF Learner, Callback, Record, Checkpoint, Finish, LearnFails, Handler, files
<1>2. CASE Callback(j) \/ LearnFails(j)
  <2>1. lock' = lock /\ job' = job
    BY <1>2 DEF Callback, LearnFails
  <2> QED BY <1>1, <2>1, OutcomeFrame DEF Pending
<1>3. CASE Record(j) \/ Checkpoint(j)
  <2>1. job' = job
    BY <1>3 DEF Record, Checkpoint
  <2>2. lock' = lock \/ lock'.plan = <<"state">>
    BY <1>3 DEF Record, Checkpoint, Takes
  <2>3. Pending' => Pending
    BY <2>2, Plans DEF Pending
  <2> QED BY <1>1, <2>1, <2>3, OutcomeFrame
<1>4. CASE Finish(j)
  <2>1. job' = job /\ job.status \in Active
    BY <1>4, FreeLock DEF Finish, Training
  <2> QED BY <1>1, <2>1, OutcomeFrame
<1>5. CASE Handler(j)
  <2>1. LockFree
    BY <1>5 DEF Handler
  <2>2. CASE job' = job /\ lock' = lock
    BY <1>1, <2>2, OutcomeFrame DEF Pending
  <2>3. CASE job' = [job EXCEPT !.status = "failed"] /\ job.id = j
             /\ lock'.plan = <<"manifest", "state">>
    <3>1. job'.id = job.id /\ job'.status = "failed"
      BY <2>3 DEF LearnerInvariant, Shapes
    <3>2. ~Pending'
      BY <2>3, Plans DEF Pending
    <3>3. FilesHonest' /\ Known'
      BY <1>1, <2>3, <3>1 DEF OutcomeInvariant, FilesHonest, Honest, Known
    <3>4. Honest(job.status, job.id)' /\ StopTold' /\ Unfinished'
      BY <3>1, <3>2 DEF Honest, StopTold, Unfinished, Active
    <3> QED BY <3>3, <3>4 DEF OutcomeInvariant
  <2> QED BY <1>5, <2>2, <2>3 DEF Handler, Takes
<1> QED BY <1>2, <1>3, <1>4, <1>5 DEF Learner

(* What is left of a plan was in it.                                       *)
LEMMA PendingBefore ==
    ASSUME LearnerInvariant, ~LockFree, Advance
    PROVE  Pending' => Pending
<1> DEFINE plan == lock.plan
<1>1. plan \in Seq(Steps) /\ plan # <<>>
  BY DEF LearnerInvariant, Shapes, LockFree, Calls
<1>2. CASE Len(plan) = 1
  BY <1>2 DEF Advance, Free, Pending
<1>3. CASE Len(plan) # 1
  <2>1. lock'.plan = Tail(plan)
    BY <1>3 DEF Advance, LearnerInvariant, Shapes, Calls
  <2>2. \A i \in DOMAIN Tail(plan) :
            i + 1 \in DOMAIN plan /\ Tail(plan)[i] = plan[i + 1]
    BY <1>1, <1>3, PlanTail
  <2> QED BY <2>1, <2>2 DEF Pending
<1> QED BY <1>2, <1>3

LEMMA OutcomeDrawn ==
    ASSUME LearnerInvariant, OutcomeInvariant, SetOutcome
    PROVE  OutcomeInvariant'
<1>1. /\ ~LockFree /\ Advance /\ runs' = runs /\ state' = state
      /\ manifest' = manifest /\ events' = events /\ asked' = asked
      /\ Head(lock.plan) = "outcome"
  BY DEF SetOutcome, AtStep, files
<1>2. job'.id = job.id /\ job'.status = Outcome
  BY DEF SetOutcome, LearnerInvariant, Shapes
<1>3. Pending
  <2>1. lock.plan \in Seq(Steps) /\ lock.plan # <<>>
    BY <1>1 DEF LearnerInvariant, Shapes, LockFree, Calls
  <2>2. lock.plan[1] = "outcome" /\ 1 \in DOMAIN lock.plan
    BY <1>1, <2>1, PlanTail
  <2> QED BY <2>2 DEF Pending
<1>4. events.stop <=> job.id \in asked
  BY <1>3 DEF OutcomeInvariant, StopTold
<1>5. FilesHonest'
  BY <1>1 DEF OutcomeInvariant, FilesHonest, Honest
<1>6. Honest(job.status, job.id)'
  BY <1>1, <1>2, <1>4 DEF Honest, Outcome
<1>7. StopTold'
  BY <1>1, <1>2, <1>4 DEF StopTold
<1>8. Unfinished' /\ Known'
  BY <1>1, <1>2 DEF OutcomeInvariant, Unfinished, Known, Outcome, Active
<1> QED BY <1>5, <1>6, <1>7, <1>8 DEF OutcomeInvariant

LEMMA OutcomeWritten ==
    ASSUME LearnerInvariant, OutcomeInvariant,
           SaveArtifact \/ WriteManifest \/ WriteState
    PROVE  OutcomeInvariant'
<1>1. /\ ~LockFree /\ Advance /\ job' = job /\ events' = events
      /\ runs' = runs /\ asked' = asked
  BY DEF SaveArtifact, WriteManifest, WriteState, AtStep
<1>2. Pending' => Pending
  BY <1>1, PendingBefore
<1>3. CASE SaveArtifact
  BY <1>1, <1>2, <1>3, OutcomeFrame DEF SaveArtifact
<1>4. CASE WriteManifest \/ WriteState
  <2>1. /\ DOMAIN state' = Jobs /\ DOMAIN manifest' = Jobs
        /\ \A j \in Jobs :
              /\ state'[j] = state[j] \/ (state'[j] = job.status /\ j = job.id)
              /\ \/ manifest'[j] = manifest[j]
                 \/ manifest'[j] = job.status /\ j = job.id
    <3>1. DOMAIN state = Jobs /\ DOMAIN manifest = Jobs
      BY DEF OutcomeInvariant, FilesHonest
    <3>2. CASE WriteManifest
      BY <3>1, <3>2 DEF WriteManifest
    <3>3. CASE WriteState
      BY <3>1, <3>3 DEF WriteState
    <3> QED BY <1>4, <3>2, <3>3
  <2>2. FilesHonest'
    BY <1>1, <2>1 DEF OutcomeInvariant, FilesHonest, Honest
  <2>3. Honest(job.status, job.id)' /\ StopTold'
    BY <1>1, <1>2 DEF OutcomeInvariant, Honest, StopTold, Pending
  <2>4. Unfinished'
    BY <1>1, <2>1 DEF OutcomeInvariant, Unfinished, Active, Finished
  <2>5. Known'
    BY <1>1, <2>1 DEF OutcomeInvariant, Known
  <2> QED BY <2>2, <2>3, <2>4, <2>5 DEF OutcomeInvariant
<1> QED BY <1>3, <1>4

(* A torn file says nothing.                                               *)
LEMMA TornSaysNothing ==
    ASSUME OutcomeInvariant, MayTear, UNCHANGED <<runs, asked>>
    PROVE  /\ FilesHonest'
           /\ \A j \in Jobs : state'[j] # "absent" \/ manifest'[j] # "absent" =>
                                  state[j] # "absent" \/ manifest[j] # "absent"
                                  \/ j = job.id
           /\ \A j \in Jobs : /\ state'[j] \in {state[j], "torn"}
                              /\ manifest'[j] \in {manifest[j], "torn"}
<1>1. DOMAIN state = Jobs /\ DOMAIN manifest = Jobs
  BY DEF OutcomeInvariant, FilesHonest
<1>2. state' = state \/ state' = [state EXCEPT ![job.id] = "torn"]
  BY DEF MayTear
<1>3. manifest' = manifest \/ manifest' = [manifest EXCEPT ![job.id] = "torn"]
  BY DEF MayTear
<1>4. DOMAIN state' = Jobs /\ \A j \in Jobs :
          state'[j] = state[j] \/ (state'[j] = "torn" /\ j = job.id)
  BY <1>1, <1>2
<1>5. DOMAIN manifest' = Jobs /\ \A j \in Jobs :
          manifest'[j] = manifest[j] \/ (manifest'[j] = "torn" /\ j = job.id)
  BY <1>1, <1>3
<1>6. FilesHonest'
  BY <1>4, <1>5 DEF OutcomeInvariant, FilesHonest, Honest
<1> QED BY <1>4, <1>5, <1>6

LEMMA OutcomeFailure ==
    ASSUME LearnerInvariant, OutcomeInvariant, WriteFails
    PROVE  OutcomeInvariant'
<1>1. /\ MayTear /\ job' = job /\ events' = events /\ runs' = runs
      /\ asked' = asked /\ lock' = Free
  BY DEF WriteFails
<1>2. FilesHonest' /\ Unfinished' /\ Known'
  BY <1>1, TornSaysNothing DEF OutcomeInvariant, Unfinished, Known, Finished
<1>3. Honest(job.status, job.id)' /\ StopTold'
  BY <1>1 DEF OutcomeInvariant, Honest, StopTold, Pending, Free
<1> QED BY <1>2, <1>3 DEF OutcomeInvariant

LEMMA OutcomeRestart ==
    ASSUME LearnerInvariant, OutcomeInvariant, Crash
    PROVE  OutcomeInvariant'
<1> USE NamesDiffer
<1>1. MayTear /\ runs' = runs /\ asked' = asked /\ lock' = Free
  BY DEF Crash
<1>2. FilesHonest'
  BY <1>1, TornSaysNothing
<1>3. \A j \in Jobs : state'[j] # "absent" \/ manifest'[j] # "absent" => j \in runs
  BY <1>1, TornSaysNothing DEF OutcomeInvariant, Known
<1>4. \/ job' = NoJob
      \/ \E j \in Jobs : state'[j] # "absent" /\ job' = Loaded(j, state')
  BY DEF Crash, Latest
<1>5. /\ job'.status \notin Active
      /\ job'.id \in Jobs => job'.id \in runs
      /\ Honest(job.status, job.id)'
  <2>1. CASE job' = NoJob
    BY <2>1 DEF NoJob, Honest, Active
  <2>2. ASSUME NEW j \in Jobs, state'[j] # "absent",
               job' = [id |-> j,
                       status |-> IF state'[j] \in Active THEN "interrupted"
                                                          ELSE state'[j]]
        PROVE  /\ job'.status \notin Active
               /\ job'.id \in Jobs => job'.id \in runs
               /\ Honest(job.status, job.id)'
    BY <1>2, <1>3, <2>2 DEF FilesHonest, Honest, Active
  <2> QED BY <1>4, <2>1, <2>2 DEF Loaded
<1>6. StopTold' /\ Unfinished'
  BY <1>1, <1>5 DEF StopTold, Unfinished, Pending, Free
<1>7. Known'
  BY <1>1, <1>3, <1>5 DEF OutcomeInvariant, Known
<1> QED BY <1>2, <1>5, <1>6, <1>7 DEF OutcomeInvariant

LEMMA OutcomeStarts == Init => OutcomeInvariant
<1> SUFFICES ASSUME Init PROVE OutcomeInvariant
  OBVIOUS
<1>1. FilesHonest
  BY DEF Init, FilesHonest, Honest
<1>2. Honest(job.status, job.id) /\ StopTold /\ Unfinished /\ Known
  BY NamesDiffer
     DEF Init, NoJob, Honest, StopTold, Unfinished, Known, Pending, Free, Active
<1> QED BY <1>1, <1>2 DEF OutcomeInvariant

LEMMA OutcomeSteps ==
    LearnerInvariant /\ OutcomeInvariant /\ [Next]_vars => OutcomeInvariant'
<1> SUFFICES ASSUME LearnerInvariant, OutcomeInvariant, [Next]_vars
             PROVE  OutcomeInvariant'
  OBVIOUS
<1>1. ASSUME NEW j \in Jobs, NEW mpc \in BOOLEAN, Start(j, mpc)
      PROVE  OutcomeInvariant'
  BY <1>1, OutcomeStart
<1>2. CASE Pause \/ Resume \/ Stop \/ Ignored
  BY <1>2, OutcomeControl
<1>3. ASSUME NEW j \in Jobs, Learner(j)
      PROVE  OutcomeInvariant'
  BY <1>3, OutcomeLearner
<1>4. CASE Holder
  BY <1>4, OutcomeDrawn, OutcomeWritten, OutcomeFailure DEF Holder
<1>5. CASE Crash
  BY <1>5, OutcomeRestart
<1>6. CASE UNCHANGED vars
  BY <1>6, OutcomeFrame DEF vars, files, Pending
<1> QED BY <1>1, <1>2, <1>3, <1>4, <1>5, <1>6 DEF Next

(* state.json and manifest.json call a job stopped only if a client asked  *)
(* for it, and completed only if none did, for any number of jobs and      *)
(* requests and whatever fails.                                            *)
THEOREM OutcomesAreHonest == Spec => []HonestOutcome
<1>1. OutcomeInvariant => HonestOutcome
  BY DEF OutcomeInvariant, FilesHonest, Honest, HonestOutcome
<1> QED BY <1>1, LearnerStarts, LearnerSteps, OutcomeStarts, OutcomeSteps, PTL
    DEF Spec

-----------------------------------------------------------------------------
(* Types, and what they need: a learner that is about to record has steps  *)
(* to go unless its call is still writing, and a call that holds the lock  *)
(* is about a job.                                                         *)
Counted ==
    /\ \A j \in Jobs : at[j] \in {"learn", "record"} =>
           steps[j] < Total \/ lock.thread = j
    /\ lock.thread # 0 =>
           /\ lock.done # "record"
           /\ lock.done = "learn" => steps[lock.thread] < Total
    /\ \A j \in Jobs : j \notin runs => steps[j] = 0

JobThere == lock # Free => job.id \in Jobs

TypeInvariant == TypeOK /\ Counted /\ JobThere

LEMMA StatusesOfJob ==
    ASSUME TypeOK
    PROVE  /\ job.id \in Jobs => job \in [id : Jobs, status : Statuses]
           /\ job.id \notin Jobs => job = NoJob
           /\ job # NoJob => job.id \in Jobs
  BY NamesDiffer DEF TypeOK, NoJob

(* The types that LearnerInvariant has shown already.                      *)
LEMMA ShapesTyped ==
    ASSUME LearnerInvariant'
    PROVE  /\ events' \in [pause : BOOLEAN, stop : BOOLEAN]
           /\ at' \in [Jobs -> Places]
           /\ lock'.thread \in {0} \cup Jobs
           /\ {lock'.done, lock'.raised} \subseteq Places
  BY DEF LearnerInvariant, Shapes, Calls, Places

LEMMA TypeStart ==
    ASSUME LearnerInvariant, TypeInvariant, NEW j \in Jobs, NEW mpc \in BOOLEAN,
           Start(j, mpc)
    PROVE  TypeInvariant'
<1> USE NamesDiffer
<1>1. LearnerInvariant'
  BY StartKeeps
<1>2. /\ LockFree /\ job' = [id |-> j, status |-> "running"]
      /\ events' = Cleared /\ runs' = runs \cup {j} /\ j \notin runs
      /\ at' = at /\ steps' = steps /\ state' = state /\ manifest' = manifest
      /\ artifact' = artifact /\ asked' = asked /\ calls' = calls
      /\ (lock'.thread = 0 \/ lock'.thread = j) /\ lock'.done # "record"
  BY DEF Start, files, Takes
<1>3. job' \in [id : Jobs, status : Statuses]
  BY <1>2 DEF Statuses, Active
<1>4. TypeOK'
  BY <1>1, <1>2, <1>3, ShapesTyped
     DEF TypeInvariant, TypeOK
<1>5. steps[j] = 0 /\ 0 < Total /\ lock.thread = 0
  BY <1>2, BoundsAssumption DEF TypeInvariant, Counted, LockFree, Free
<1>6. Counted'
  BY <1>2, <1>5 DEF TypeInvariant, Counted
<1> QED BY <1>2, <1>4, <1>6 DEF TypeInvariant, JobThere

LEMMA TypeControl ==
    ASSUME LearnerInvariant, TypeInvariant, Pause \/ Resume \/ Stop \/ Ignored
    PROVE  TypeInvariant'
<1> USE NamesDiffer
<1>1. LearnerInvariant'
  BY ControlKeeps
<1>2. /\ LockFree /\ job # NoJob /\ calls' = calls + 1 /\ calls < MaxCalls
      /\ at' = at /\ steps' = steps /\ runs' = runs /\ state' = state
      /\ manifest' = manifest /\ artifact' = artifact /\ lock'.thread = 0
  BY DEF Pause, Resume, Stop, Ignored, Control, files, Takes
<1>3. job.id \in Jobs /\ job \in [id : Jobs, status : Statuses]
  BY <1>2, StatusesOfJob DEF TypeInvariant
<1>4. /\ job' \in [id : Jobs, status : Statuses]
      /\ asked' = asked \/ asked' = asked \cup {job.id}
  BY <1>3 DEF Pause, Resume, Stop, Ignored, Statuses, Active
<1>5. calls' \in 0..MaxCalls
  BY <1>2, BoundsAssumption DEF TypeInvariant, TypeOK
<1>6. TypeOK'
  BY <1>1, <1>2, <1>3, <1>4, <1>5, ShapesTyped
     DEF TypeInvariant, TypeOK
<1>7. Counted'
  BY <1>2 DEF TypeInvariant, Counted, LockFree, Free
<1> QED BY <1>4, <1>6, <1>7 DEF TypeInvariant, JobThere

LEMMA TypeLearner ==
    ASSUME LearnerInvariant, TypeInvariant, Known, NEW j \in Jobs, Learner(j)
    PROVE  TypeInvariant'
<1> USE NamesDiffer
<1>1. LearnerInvariant'
  BY PollKeeps, ProgressKeeps, FinishKeeps, HandlerKeeps DEF Learner
<1>2. /\ events' = events /\ runs' = runs /\ state' = state
      /\ manifest' = manifest /\ artifact' = artifact /\ asked' = asked
      /\ calls' = calls
  BY DEF Learner, Callback, Record, Checkpoint, Finish, LearnFails, Handler, files
<1>3. job' \in [id : Jobs, status : Statuses] \cup {NoJob}
      /\ job'.id = job.id
  <2>1. job' = job \/ (job.id = j /\ job' = [job EXCEPT !.status = "failed"])
    BY DEF Learner, Callback, Record, Checkpoint, Finish, LearnFails, Handler
  <2> QED BY <2>1, StatusesOfJob DEF TypeInvariant, TypeOK, Statuses
<1>4. at[j] \in Training /\ LockFree => job.id = j
  BY FreeLock
<1>5. CASE Callback(j) \/ LearnFails(j)
  <2>1. /\ lock' = lock /\ steps' = steps /\ job' = job /\ at[j] = "learn"
        /\ \E place \in {"finish", "record", "handler"} : at' = [at EXCEPT ![j] = place]
    BY <1>5 DEF Callback, LearnFails
  <2>2. Counted'
    BY <1>2, <2>1 DEF TypeInvariant, Counted, TypeOK
  <2> QED BY <1>1, <1>2, <2>1, <2>2, ShapesTyped
         DEF TypeInvariant, TypeOK, JobThere
<1>6. CASE Record(j)
  <2>1. /\ at[j] = "record" /\ LockFree /\ job' = job
        /\ steps' = [steps EXCEPT ![j] = @ + 1]
        /\ \/ at' = at /\ lock'.thread = j /\ lock'.done = "checkpoint"
           \/ at' = [at EXCEPT ![j] = "checkpoint"] /\ lock' = lock
    BY <1>6 DEF Record, Takes
  <2>2. j \in runs
    BY <1>4, <2>1 DEF Training, Known
  <2>3. steps[j] \in 0..Total /\ steps[j] < Total /\ lock.thread = 0
    BY <2>1 DEF TypeInvariant, Counted, TypeOK, LockFree, Free
  <2>4. steps' \in [Jobs -> 0..Total]
    BY <2>1, <2>3, BoundsAssumption DEF TypeInvariant, TypeOK
  <2>5. Counted'
    BY <1>2, <2>1, <2>2, <2>3 DEF TypeInvariant, Counted, TypeOK
  <2>6. JobThere'
    BY <1>4, <2>1 DEF Training, JobThere
  <2> QED BY <1>1, <1>2, <1>3, <2>4, <2>5, <2>6, ShapesTyped
         DEF TypeInvariant, TypeOK
<1>7. CASE Checkpoint(j)
  <2>1. /\ at[j] = "checkpoint" /\ LockFree /\ job' = job /\ steps' = steps
        /\ \/ at' = at /\ lock'.thread = j /\ lock'.done = AfterStep(j)
           \/ at' = [at EXCEPT ![j] = AfterStep(j)] /\ lock' = lock
    BY <1>7 DEF Checkpoint, Takes
  <2>2. /\ AfterStep(j) \in {"finish", "learn"}
        /\ AfterStep(j) = "learn" => steps[j] < Total
    BY BoundsAssumption DEF AfterStep, TypeInvariant, TypeOK
  <2>3. Counted'
    BY <1>2, <2>1, <2>2 DEF TypeInvariant, Counted, TypeOK, LockFree, Free
  <2>4. JobThere'
    BY <1>4, <2>1 DEF Training, JobThere
  <2> QED BY <1>1, <1>2, <1>3, <2>1, <2>3, <2>4, ShapesTyped
         DEF TypeInvariant, TypeOK
<1>8. CASE Finish(j) \/ Handler(j)
  <2>1. /\ LockFree /\ steps' = steps
        /\ \/ at' = at /\ lock'.thread = j /\ lock'.done = "none" /\ job.id = j
           \/ at' = [at EXCEPT ![j] = "none"] /\ lock' = lock
    BY <1>8 DEF Finish, Handler, Takes
  <2>2. Counted'
    BY <1>2, <2>1 DEF TypeInvariant, Counted, TypeOK, LockFree, Free
  <2>3. JobThere'
    BY <1>3, <2>1 DEF JobThere, LockFree
  <2> QED BY <1>1, <1>2, <1>3, <2>1, <2>2, <2>3, ShapesTyped
         DEF TypeInvariant, TypeOK
<1> QED BY <1>5, <1>6, <1>7, <1>8 DEF Learner

(* The files and the job, when the call that holds the lock goes on.       *)
LEMMA TypeHolder ==
    ASSUME LearnerInvariant, TypeInvariant,
           SetOutcome \/ SaveArtifact \/ WriteManifest \/ WriteState
    PROVE  TypeInvariant'
<1> USE NamesDiffer
<1>1. LearnerInvariant'
  BY HolderKeeps
<1>2. /\ ~LockFree /\ Advance /\ events' = events /\ steps' = steps
      /\ runs' = runs /\ asked' = asked /\ calls' = calls
  BY DEF SetOutcome, SaveArtifact, WriteManifest, WriteState, AtStep
<1>3. job.id \in Jobs /\ job \in [id : Jobs, status : Statuses]
  BY <1>2, StatusesOfJob DEF TypeInvariant, JobThere, LockFree
<1>4. /\ job' \in [id : Jobs, status : Statuses]
      /\ job' = job \/ job'.status = Outcome
  BY <1>3 DEF SetOutcome, SaveArtifact, WriteManifest, WriteState, Statuses, Finished, Outcome
<1>5. state' \in [Jobs -> Contents] /\ manifest' \in [Jobs -> Contents]
      /\ artifact' \subseteq Jobs
  BY <1>3 DEF SetOutcome, SaveArtifact, WriteManifest, WriteState, files, TypeInvariant, TypeOK, Contents
<1>6. CASE Len(lock.plan) = 1
  <2>1. lock' = Free /\ at' = Moved(lock.done)
    BY <1>2, <1>6 DEF Advance
  <2>2. ASSUME NEW j \in Jobs, at'[j] \in {"learn", "record"}
        PROVE  steps[j] < Total
    <3>1. at'[j] = IF lock.thread = j THEN lock.done ELSE at[j]
      BY <2>1 DEF Moved, TypeInvariant, TypeOK
    <3> QED BY <2>2, <3>1 DEF TypeInvariant, Counted
  <2> QED BY <1>1, <1>2, <1>4, <1>5, <2>1, <2>2, ShapesTyped
         DEF TypeInvariant, TypeOK, Counted, JobThere, Free
<1>7. CASE Len(lock.plan) # 1
  <2>1. at' = at /\ lock' = [lock EXCEPT !.plan = Tail(@)]
    BY <1>2, <1>7 DEF Advance
  <2>2. lock'.thread = lock.thread /\ lock'.done = lock.done
    BY <2>1 DEF LearnerInvariant, Shapes, Calls
  <2>3. Counted'
    BY <1>2, <2>1, <2>2 DEF TypeInvariant, Counted
  <2> QED BY <1>1, <1>2, <1>4, <1>5, <2>3, ShapesTyped
         DEF TypeInvariant, TypeOK, JobThere
<1> QED BY <1>6, <1>7

LEMMA TypeTorn ==
    ASSUME TypeOK, MayTear
    PROVE  /\ state' \in [Jobs -> Contents] /\ manifest' \in [Jobs -> Contents]
           /\ artifact' = artifact
  BY DEF TypeOK, MayTear, Contents

LEMMA TypeFailure ==
    ASSUME LearnerInvariant, TypeInvariant, WriteFails
    PROVE  TypeInvariant'
<1> USE NamesDiffer
<1>1. LearnerInvariant'
  BY FailureKeeps
<1>2. /\ MayTear /\ lock' = Free /\ at' = Moved(lock.raised) /\ job' = job
      /\ events' = events /\ steps' = steps /\ runs' = runs
      /\ asked' = asked /\ calls' = calls
  BY DEF WriteFails
<1>3. lock.raised \in {"none", "handler"} /\ lock.thread \in {0} \cup Jobs
  BY DEF LearnerInvariant, Shapes, Calls
<1>4. Counted'
  BY <1>2, <1>3 DEF TypeInvariant, Counted, TypeOK, Moved, Free
<1> QED BY <1>1, <1>2, <1>4, TypeTorn, ShapesTyped
       DEF TypeInvariant, TypeOK, JobThere

LEMMA TypeRestart ==
    ASSUME LearnerInvariant, TypeInvariant, Crash
    PROVE  TypeInvariant'
<1> USE NamesDiffer
<1>1. LearnerInvariant'
  BY RestartKeeps
<1>2. /\ MayTear /\ lock' = Free /\ at' = [j \in Jobs |-> "none"]
      /\ steps' = steps /\ runs' = runs /\ asked' = asked /\ calls' = calls
  BY DEF Crash
<1>3. state' \in [Jobs -> Contents] /\ manifest' \in [Jobs -> Contents]
      /\ artifact' = artifact
  BY <1>2, TypeTorn DEF TypeInvariant
<1>4. job' \in [id : Jobs, status : Statuses] \cup {NoJob}
  <2>1. job' = NoJob \/ \E j \in Jobs : state'[j] # "absent" /\ job' = Loaded(j, state')
    BY DEF Crash, Latest
  <2>2. ASSUME NEW j \in Jobs, state'[j] # "absent", state'[j] # "torn"
        PROVE  Loaded(j, state') \in [id : Jobs, status : Statuses]
    BY <1>3, <2>2 DEF Loaded, Contents, Statuses
  <2> QED BY <2>1, <2>2 DEF Loaded
<1>5. Counted'
  BY <1>2 DEF TypeInvariant, Counted, Free
<1> QED BY <1>1, <1>2, <1>3, <1>4, <1>5, ShapesTyped
       DEF TypeInvariant, TypeOK, JobThere

LEMMA TypeStarts == Init => TypeInvariant
<1> SUFFICES ASSUME Init PROVE TypeInvariant
  OBVIOUS
<1>1. TypeOK
  BY NamesDiffer, BoundsAssumption DEF Init, TypeOK, NoJob, Places, Contents, Free
<1>2. Counted /\ JobThere
  BY DEF Init, Counted, JobThere, Free
<1> QED BY <1>1, <1>2 DEF TypeInvariant

LEMMA TypeSteps ==
    LearnerInvariant /\ TypeInvariant /\ OutcomeInvariant /\ [Next]_vars => TypeInvariant'
<1> SUFFICES ASSUME LearnerInvariant, TypeInvariant, OutcomeInvariant, [Next]_vars
             PROVE  TypeInvariant'
  OBVIOUS
<1>1. ASSUME NEW j \in Jobs, NEW mpc \in BOOLEAN, Start(j, mpc)
      PROVE  TypeInvariant'
  BY <1>1, TypeStart
<1>2. CASE Pause \/ Resume \/ Stop \/ Ignored
  BY <1>2, TypeControl
<1>3. ASSUME NEW j \in Jobs, Learner(j)
      PROVE  TypeInvariant'
  BY <1>3, TypeLearner DEF OutcomeInvariant
<1>4. CASE Holder
  BY <1>4, TypeHolder, TypeFailure DEF Holder
<1>5. CASE Crash
  BY <1>5, TypeRestart
<1>6. CASE UNCHANGED vars
  BY <1>6 DEF vars, files, TypeInvariant, TypeOK, Counted, JobThere
<1> QED BY <1>1, <1>2, <1>3, <1>4, <1>5, <1>6 DEF Next

(* The state and the files of the service have their types, a learner does *)
(* not record more steps than it was given.                                *)
THEOREM TrainingTypeCorrect == Spec => []TypeOK
<1>1. TypeInvariant => TypeOK
  BY DEF TypeInvariant
<1> QED BY <1>1, LearnerStarts, LearnerSteps, OutcomeStarts, OutcomeSteps,
           TypeStarts, TypeSteps, PTL DEF Spec

-----------------------------------------------------------------------------
(* That a ready strategy has its artifact rests on the order of the steps: *)
(* in what is left of a plan, the outcome is not drawn before the artifact *)
(* is saved, and a manifest does not repeat an outcome that has none.      *)
Preceded(plan, step, i) == \E k \in DOMAIN plan : k < i /\ plan[k] = step

InOrder(plan, saved, id, status) ==
    \A i \in DOMAIN plan :
        /\ plan[i] = "outcome" => id \in saved \/ Preceded(plan, "artifact", i)
        /\ plan[i] = "manifest" =>
               id \in saved \/ status = "failed" \/ Preceded(plan, "outcome", i)

ArtifactInvariant ==
    InOrder(lock.plan, artifact, job.id, job.status) /\ ReadyHasArtifact

(* The plans with which a call takes the lock.                             *)
LEMMA ResultInOrder ==
    ASSUME NEW saved, NEW id, NEW status
    PROVE  /\ InOrder(ResultPlan, saved, id, status)
           /\ InOrder(<<"state">> \o ResultPlan, saved, id, status)
<1>1. InOrder(<<"artifact", "outcome", "manifest", "state">>, saved, id, status)
  <2> DEFINE plan == <<"artifact", "outcome", "manifest", "state">>
  <2>1. DOMAIN plan = 1..4 /\ plan[1] = "artifact" /\ plan[2] = "outcome"
        /\ plan[3] = "manifest" /\ plan[4] = "state"
    OBVIOUS
  <2> HIDE DEF plan
  <2>2. \A i \in 1..4 : i = 1 \/ i = 2 \/ i = 3 \/ i = 4
    OBVIOUS
  <2>3. 1 \in 1..4 /\ 2 \in 1..4 /\ 1 < 2 /\ 2 < 3
    OBVIOUS
  <2>4. Preceded(plan, "artifact", 2) /\ Preceded(plan, "outcome", 3)
    BY <2>1, <2>3 DEF Preceded
  <2>5. InOrder(plan, saved, id, status)
    BY <2>1, <2>2, <2>4 DEF InOrder
  <2> QED BY <2>5 DEF plan
<1>2. InOrder(<<"state">> \o ResultPlan, saved, id, status)
  <2> DEFINE plan == <<"state">> \o ResultPlan
  <2>1. DOMAIN plan = 1..5 /\ plan[1] = "state" /\ plan[2] = "artifact" /\ plan[3] = "outcome"
        /\ plan[4] = "manifest" /\ plan[5] = "state"
    <3>1. <<"state">> \in Seq(Steps) /\ Len(<<"state">>) = 1 /\ <<"state">>[1] = "state"
      BY DEF Steps
    <3>2. /\ ResultPlan \in Seq(Steps) /\ Len(ResultPlan) = 4
          /\ ResultPlan[1] = "artifact" /\ ResultPlan[2] = "outcome"
          /\ ResultPlan[3] = "manifest" /\ ResultPlan[4] = "state"
      BY DEF ResultPlan, Steps
    <3> HIDE DEF ResultPlan
    <3>3. /\ plan \in Seq(Steps) /\ Len(plan) = Len(<<"state">>) + Len(ResultPlan)
          /\ \A i \in 1..(Len(<<"state">>) + Len(ResultPlan)) :
                plan[i] = IF i <= Len(<<"state">>) THEN <<"state">>[i] ELSE ResultPlan[i - Len(<<"state">>)]
      BY <3>1, <3>2, ConcatProperties, Zenon
    <3> HIDE DEF plan
    <3>4. DOMAIN plan = 1..5
      BY <3>1, <3>2, <3>3, LenProperties
    <3> QED BY <3>1, <3>2, <3>3, <3>4
  <2> HIDE DEF plan
  <2>2. \A i \in 1..5 : i = 1 \/ i = 2 \/ i = 3 \/ i = 4 \/ i = 5
    OBVIOUS
  <2>3. 2 \in 1..5 /\ 3 \in 1..5 /\ 2 < 3 /\ 3 < 4
    OBVIOUS
  <2>4. Preceded(plan, "artifact", 3) /\ Preceded(plan, "outcome", 4)
    BY <2>1, <2>3 DEF Preceded
  <2>5. InOrder(plan, saved, id, status)
    BY <2>1, <2>2, <2>4 DEF InOrder
  <2> QED BY <2>5 DEF plan
<1> QED BY <1>1, <1>2 DEF ResultPlan

LEMMA OthersInOrder ==
    ASSUME NEW saved, NEW id, NEW status
    PROVE  /\ InOrder(<<>>, saved, id, status)
           /\ InOrder(<<"state">>, saved, id, status)
           /\ status = "failed" => InOrder(<<"manifest", "state">>, saved, id, status)
  BY DEF InOrder

(* The plan that is left when its first step is done.                      *)
LEMMA TailInOrder ==
    ASSUME NEW plan \in Seq(Steps), plan # <<>>, NEW id,
           NEW saved, NEW savedNext, saved \subseteq savedNext,
           NEW status, NEW statusNext,
           InOrder(plan, saved, id, status),
           Head(plan) = "artifact" => id \in savedNext,
           Head(plan) = "outcome" \/ statusNext = status
    PROVE  InOrder(Tail(plan), savedNext, id, statusNext)
<1>1. CASE Len(plan) = 1
  <2>1. Len(Tail(plan)) = 0 /\ DOMAIN Tail(plan) = 1..Len(Tail(plan))
    BY <1>1, HeadTailProperties, LenProperties
  <2>2. DOMAIN Tail(plan) = {}
    BY <2>1
  <2> QED BY <2>2 DEF InOrder
<1>2. CASE Len(plan) # 1
  <2> DEFINE rest == Tail(plan)
  <2>1. /\ Head(plan) = plan[1] /\ 1 \in DOMAIN plan
        /\ \A i \in DOMAIN rest : i + 1 \in DOMAIN plan /\ rest[i] = plan[i + 1]
    BY <1>2, PlanTail
  <2>2. /\ DOMAIN plan = 1..Len(plan) /\ Len(plan) \in Nat
        /\ DOMAIN rest = 1..(Len(plan) - 1)
    BY HeadTailProperties, LenProperties
  <2> HIDE DEF rest
  <2>3. ASSUME NEW step, NEW i \in DOMAIN rest, Preceded(plan, step, i + 1), plan[1] # step
        PROVE  Preceded(rest, step, i)
    <3>1. PICK k \in DOMAIN plan : k < i + 1 /\ plan[k] = step
      BY <2>3 DEF Preceded
    <3>2. k - 1 \in DOMAIN rest /\ k - 1 < i /\ (k - 1) + 1 = k
      BY <2>2, <2>3, <3>1
    <3>3. rest[k - 1] = step
      BY <2>1, <3>1, <3>2
    <3> QED BY <3>2, <3>3 DEF Preceded
  <2>4. ASSUME NEW i \in DOMAIN rest, rest[i] = "outcome"
        PROVE  id \in savedNext \/ Preceded(rest, "artifact", i)
    <3>1. id \in saved \/ Preceded(plan, "artifact", i + 1)
      BY <2>1, <2>4 DEF InOrder
    <3> QED BY <3>1, <2>1, <2>3
  <2>5. ASSUME NEW i \in DOMAIN rest, rest[i] = "manifest"
        PROVE  \/ id \in savedNext \/ statusNext = "failed"
               \/ Preceded(rest, "outcome", i)
    <3>1. \/ id \in saved \/ status = "failed"
          \/ Preceded(plan, "outcome", i + 1)
      BY <2>1, <2>5 DEF InOrder
    <3>2. CASE Head(plan) = "outcome"
      <4>1. id \in saved \/ Preceded(plan, "artifact", 1)
        BY <2>1, <3>2 DEF InOrder
      <4>2. ~Preceded(plan, "artifact", 1)
        BY <2>2 DEF Preceded
      <4> QED BY <4>1, <4>2
    <3>3. CASE Head(plan) # "outcome"
      BY <3>1, <3>3, <2>1, <2>3
    <3> QED BY <3>2, <3>3
  <2> QED BY <2>4, <2>5 DEF InOrder, rest
<1> QED BY <1>1, <1>2

LEMMA ArtifactHolder ==
    ASSUME LearnerInvariant, TypeInvariant, ArtifactInvariant,
           SetOutcome \/ SaveArtifact \/ WriteManifest \/ WriteState
    PROVE  ArtifactInvariant'
<1> DEFINE plan == lock.plan
<1>1. ~LockFree /\ Advance
  BY DEF SetOutcome, SaveArtifact, WriteManifest, WriteState, AtStep
<1>2. plan \in Seq(Steps) /\ plan # <<>> /\ Head(plan) = plan[1] /\ 1 \in DOMAIN plan
  <2>1. plan \in Seq(Steps) /\ plan # <<>>
    BY <1>1 DEF LockFree, LearnerInvariant, Shapes, Calls
  <2> QED BY <2>1, PlanTail
<1>3. job.id \in Jobs /\ job'.id = job.id
  <2>1. job.id \in Jobs
    BY <1>1 DEF TypeInvariant, JobThere, LockFree
  <2>2. job = [id |-> job.id, status |-> job.status]
    BY DEF LearnerInvariant, Shapes
  <2> QED BY <2>1, <2>2 DEF SetOutcome, SaveArtifact, WriteManifest, WriteState
<1>4. /\ artifact \subseteq artifact'
      /\ Head(plan) = "artifact" => job.id \in artifact'
      /\ Head(plan) = "outcome" \/ job' = job
  BY DEF SetOutcome, SaveArtifact, WriteManifest, WriteState, files, AtStep
<1>5. InOrder(Tail(plan), artifact', job'.id, job'.status)
  <2>1. InOrder(Tail(plan), artifact', job.id, job'.status)
    BY <1>2, <1>4, TailInOrder DEF ArtifactInvariant
  <2> QED BY <2>1, <1>3
<1>6. InOrder(lock'.plan, artifact', job'.id, job'.status)
  <2>1. CASE lock' = Free
    <3>1. lock'.plan = <<>>
      BY <2>1 DEF Free
    <3> QED BY <3>1, OthersInOrder
  <2>2. CASE lock' = [lock EXCEPT !.plan = Tail(@)]
    <3>1. lock'.plan = Tail(plan)
      BY <2>2 DEF LearnerInvariant, Shapes, Calls
    <3> QED BY <3>1, <1>5
  <2> QED BY <1>1, <2>1, <2>2 DEF Advance
<1>7. ReadyHasArtifact'
  <2>1. CASE manifest' = manifest
    BY <2>1, <1>4 DEF ArtifactInvariant, ReadyHasArtifact
  <2>2. CASE WriteManifest
    <3>1. /\ plan[1] = "manifest" /\ artifact' = artifact
          /\ manifest' = [manifest EXCEPT ![job.id] = job.status]
      BY <1>2, <2>2 DEF WriteManifest, AtStep
    <3>2. job.id \in artifact \/ job.status = "failed" \/ Preceded(plan, "outcome", 1)
      BY <1>2, <3>1 DEF ArtifactInvariant, InOrder
    <3>3. ~Preceded(plan, "outcome", 1)
      <4>1. DOMAIN plan = 1..Len(plan) /\ Len(plan) \in Nat
        BY <1>2, LenProperties
      <4> QED BY <4>1 DEF Preceded
    <3> QED BY <3>1, <3>2, <3>3
        DEF ArtifactInvariant, ReadyHasArtifact, TypeInvariant, TypeOK, Finished
  <2> QED BY <2>1, <2>2 DEF SetOutcome, SaveArtifact, WriteState, files
<1> QED BY <1>6, <1>7 DEF ArtifactInvariant

(* A call that takes the lock, a failure and a restart save no outcome.    *)
LEMMA ArtifactOthers ==
    ASSUME LearnerInvariant, TypeInvariant, ArtifactInvariant,
           \/ \E j \in Jobs, mpc \in BOOLEAN : Start(j, mpc)
           \/ Pause \/ Resume \/ Stop \/ Ignored
           \/ \E j \in Jobs : Learner(j)
           \/ WriteFails \/ Crash
           \/ UNCHANGED vars
    PROVE  ArtifactInvariant'
<1>1. /\ artifact' = artifact
      /\ manifest' = manifest \/ manifest' = [manifest EXCEPT ![job.id] = "torn"]
  BY DEF Start, Pause, Resume, Stop, Ignored, Control, Learner, Callback, Record, Checkpoint,
     Finish, LearnFails, Handler, WriteFails, Crash, MayTear, vars, files
<1>2. ReadyHasArtifact'
  <2>1. \A j \in Jobs : manifest'[j] = manifest[j] \/ manifest'[j] = "torn"
    BY <1>1 DEF TypeInvariant, TypeOK
  <2> QED BY <1>1, <2>1 DEF ArtifactInvariant, ReadyHasArtifact, Finished
<1>3. InOrder(lock'.plan, artifact', job'.id, job'.status)
  <2>1. CASE job' = job /\ lock' = lock
    BY <1>1, <2>1 DEF ArtifactInvariant
  <2>2. CASE lock'.plan \in {<<>>, <<"state">>, ResultPlan, <<"state">> \o ResultPlan}
    BY <2>2, ResultInOrder, OthersInOrder
  <2>3. CASE lock'.plan = <<"manifest", "state">> /\ job'.status = "failed"
    BY <2>3, OthersInOrder
  <2>4. ASSUME NEW j \in Jobs, NEW mpc \in BOOLEAN, Start(j, mpc)
        PROVE  lock'.plan \in {<<"state">>, <<"state">> \o ResultPlan}
    BY <2>4 DEF Start, Takes
  <2>5. ASSUME NEW j \in Jobs, Handler(j)
        PROVE  \/ job' = job /\ lock' = lock
               \/ lock'.plan = <<"manifest", "state">> /\ job'.status = "failed"
    BY <2>5 DEF Handler, Takes, LearnerInvariant, Shapes
  <2>6. ASSUME NEW j \in Jobs,
               Callback(j) \/ Record(j) \/ Checkpoint(j) \/ Finish(j) \/ LearnFails(j)
        PROVE  \/ job' = job /\ lock' = lock
               \/ lock'.plan \in {<<"state">>, ResultPlan}
    BY <2>6 DEF Callback, Record, Checkpoint, Finish, LearnFails, Takes
  <2>7. CASE Pause \/ Resume \/ Stop \/ Ignored
    BY <2>7, <2>2 DEF Pause, Resume, Stop, Ignored, Control, Takes
  <2>8. CASE WriteFails \/ Crash
    BY <2>8, <2>2 DEF WriteFails, Crash, Free
  <2>9. CASE UNCHANGED vars
    BY <2>9, <2>1 DEF vars
  <2> QED BY <2>1, <2>2, <2>3, <2>4, <2>5, <2>6, <2>7, <2>8, <2>9 DEF Learner
<1> QED BY <1>2, <1>3 DEF ArtifactInvariant

LEMMA ArtifactStarts == Init => ArtifactInvariant
<1> SUFFICES ASSUME Init PROVE ArtifactInvariant
  OBVIOUS
<1>1. lock.plan = <<>>
  BY DEF Init, Free
<1>2. ReadyHasArtifact
  BY DEF Init, ReadyHasArtifact, Finished
<1> QED BY <1>1, <1>2, OthersInOrder DEF ArtifactInvariant

LEMMA ArtifactSteps ==
    LearnerInvariant /\ TypeInvariant /\ ArtifactInvariant /\ [Next]_vars => ArtifactInvariant'
  BY ArtifactHolder, ArtifactOthers DEF Next, Holder

(* A manifest calls a job completed or stopped, which makes its strategy   *)
(* ready to be chosen, only when the model artifact is complete, for any   *)
(* jobs, whatever write fails and wherever the process dies.               *)
THEOREM ReadyStrategiesHaveArtifacts == Spec => []ReadyHasArtifact
<1>1. ArtifactInvariant => ReadyHasArtifact
  BY DEF ArtifactInvariant
<1> QED BY <1>1, LearnerStarts, LearnerSteps, OutcomeStarts, OutcomeSteps,
           TypeStarts, TypeSteps, ArtifactStarts, ArtifactSteps, PTL DEF Spec

=============================================================================
