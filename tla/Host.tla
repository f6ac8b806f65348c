-------------------------------- MODULE Host --------------------------------
(***************************************************************************)
(* The camctl host library (apps/host-demo/src): a main program calls      *)
(* camctl_host_init once and camctl_host_submit any number of times; one   *)
(* worker thread starts `camctl run` and `camctl submit` processes,        *)
(* collects their results and retries under one shared budget.             *)
(*                                                                         *)
(* Three parties interleave:                                               *)
(*   - the main program's threads, each call atomic under inputs_mutex;    *)
(*   - the worker thread, one action per step of the loop of worker_main   *)
(*     that another party can observe or disturb (pc names the step);      *)
(*   - the environment: the camctl processes, which exit when they like,   *)
(*     and the monotonic clock.                                            *)
(*                                                                         *)
(* Abstractions.  A path is a model value.  What a process printed is the  *)
(* result host_result_parse makes of it, chosen when the slot is           *)
(* collected; a process counts as gone when it has exited AND its pipes    *)
(* are drained (module HostChild models that part).  Faults names the      *)
(* system calls that may fail.                                             *)
(***************************************************************************)
EXTENDS Integers, Sequences

CONSTANTS
    Paths,        \* the plan files the main program may name
    NoPath,       \* a NULL path
    Capacity,     \* config->plan_capacity
    RetryLimit,   \* config->retry_limit
    Delay,        \* config->retry_delay_ms
    Faults,       \* subset of {"spawn", "wait", "clock", "poll"}
    MaxSubmits,   \* bound: submissions accepted in a behaviour
    MaxClock      \* bound: clock ticks nobody waits for

ASSUME PathsAssumption == NoPath \notin Paths
ASSUME CapacityAssumption == Capacity \in Nat \ {0}
ASSUME RetryAssumption == RetryLimit \in Nat /\ Delay \in Nat
ASSUME BoundAssumption == MaxSubmits \in Nat /\ MaxClock \in Nat

RUN == "run"
SUBMIT == "submit"
Commands == {RUN, SUBMIT}
Phases == {"IDLE", "NORMAL", "WAIT", "ACTIVE", "STARTING"}
Steps == {"off", "top", "collectRun", "collectSubmit", "launchRun",
          "launchSubmit", "spawn", "poll", "stopped"}
Results == {"success", "needs_run", "error", "abnormal"}

VARIABLES
    \* shared with the main program, under inputs_mutex
    instance,       \* the library is initialised
    runtime_error,  \* set: submissions are refused
    items, head, count, next_id,
    \* host_schedule
    phase, due, retries_used, pending_run, fresh_run, first_plan,
    \* the worker's own state
    clock_failed,
    paths5,         \* h->paths[5], the first plan
    child,          \* the two host_child slots
    pc, now,        \* position in worker_main, its last clock sample
    call,           \* launch's locals: command, call id, plan source
    \* environment
    live,           \* call ids of the processes that still exist
    clock,
    \* history
    initial,        \* the first plan given to camctl_host_init
    accepted,       \* submissions answered 0, in order
    handed,         \* submissions a created submit process was given
    dropped,        \* ids of submissions given up before any process
    runs,           \* the plan argument of each run process created
    attempts,       \* calls of host_child_spawn
    needs,          \* submit answers that asked for a run
    unserved        \* such an answer came after the last created run began

inputs == <<items, head, count>>
schedule == <<phase, due, retries_used, pending_run, fresh_run, first_plan>>
history == <<initial, accepted, handed, dropped, runs, attempts, needs,
             unserved>>
vars == <<instance, runtime_error, inputs, next_id, schedule, clock_failed,
          paths5, child, pc, now, call, live, clock, history>>

Item == [path : Paths \cup {NoPath}, id : Nat]
Slot == 0 .. Capacity - 1
Child == [pid : BOOLEAN, id : Nat, wait_fault : BOOLEAN]
Call == [command : Commands, id : Nat]

TypeOK ==
    /\ instance \in BOOLEAN /\ runtime_error \in BOOLEAN
    /\ items \in [Slot -> Item] /\ head \in Slot /\ count \in 0 .. Capacity
    /\ next_id \in Nat
    /\ phase \in [Commands -> Phases] /\ due \in [Commands -> Nat]
    /\ retries_used \in Nat
    /\ pending_run \in BOOLEAN /\ fresh_run \in BOOLEAN
    /\ first_plan \in BOOLEAN
    /\ clock_failed \in BOOLEAN
    /\ paths5 \in Paths \cup {NoPath}
    /\ child \in [Commands -> Child]
    /\ pc \in Steps /\ now \in Nat /\ call \in Call
    /\ live \in [Commands -> SUBSET Nat] /\ clock \in Nat
    /\ initial \in Paths \cup {NoPath}
    /\ accepted \in Seq(Item) /\ handed \in Seq(Item)
    /\ dropped \in SUBSET Nat
    /\ runs \in Seq(Paths \cup {NoPath})
    /\ attempts \in Nat /\ needs \in Nat /\ unserved \in BOOLEAN

-----------------------------------------------------------------------------
(* The ring of host_inputs.  The front item keeps its slot until the       *)
(* submission is settled.                                                  *)

At(h, n) == (h + n) % Capacity
Front == items[head]

(* Slips: definitions named Slip... change one below as a bug would.       *)
SlipPushOverNewest(p) ==
    /\ items' = [items EXCEPT ![At(head, count - 1)] =
                    [path |-> p, id |-> next_id]]
    /\ count' = count + 1
    /\ UNCHANGED head

SlipPopKeepsHead ==
    /\ count > 0
    /\ count' = count - 1
    /\ UNCHANGED <<items, head>>

QueueFull == count = Capacity

host_inputs_push(p) ==
    /\ items' = [items EXCEPT ![At(head, count)] =
                    [path |-> p, id |-> next_id]]
    /\ count' = count + 1
    /\ UNCHANGED head

host_inputs_pop ==
    /\ count > 0
    /\ head' = At(head, 1)
    /\ count' = count - 1
    /\ UNCHANGED items

(* The conditions of host_schedule_take.  Effective(c) is the phase it     *)
(* judges: a fresh requirement cancels the wait of the run job.            *)
SlipBusyForgetsActive(c) == phase[c] = "STARTING"
SlipFreshIgnored(c) == phase[c]
SlipNoWait(c) == TRUE
SlipExhaustedEarly(ph) == ph = "WAIT" /\ retries_used + 1 >= RetryLimit
SlipExhaustedLate(ph) == ph = "WAIT" /\ retries_used > RetryLimit

Busy(c) == phase[c] \in {"ACTIVE", "STARTING"}
Effective(c) == IF c = RUN /\ fresh_run /\ ~Busy(c) THEN "NORMAL" ELSE phase[c]
Exhausted(ph) == ph = "WAIT" /\ retries_used >= RetryLimit
Elapsed(c) == now >= due[c]

SlipOneRetryMore(c, ph) ==
    ph = "WAIT" /\ retries_used <= RetryLimit /\ Elapsed(c)

RetryDue(c, ph) == ph = "WAIT" /\ retries_used < RetryLimit /\ Elapsed(c)

-----------------------------------------------------------------------------
Init ==
    /\ instance = FALSE /\ runtime_error = FALSE
    /\ items = [i \in Slot |-> [path |-> NoPath, id |-> 0]]
    /\ head = 0 /\ count = 0 /\ next_id = 1
    /\ phase = [c \in Commands |-> "IDLE"] /\ due = [c \in Commands |-> 0]
    /\ retries_used = 0
    /\ pending_run = FALSE /\ fresh_run = FALSE /\ first_plan = FALSE
    /\ clock_failed = FALSE /\ paths5 = NoPath
    /\ child = [c \in Commands |->
                  [pid |-> FALSE, id |-> 0, wait_fault |-> FALSE]]
    /\ pc = "off" /\ now = 0 /\ call = [command |-> RUN, id |-> 0]
    /\ live = [c \in Commands |-> {}] /\ clock = 0
    /\ initial = NoPath /\ accepted = <<>> /\ handed = <<>>
    /\ dropped = {} /\ runs = <<>> /\ attempts = 0 /\ needs = 0
    /\ unserved = FALSE

(* camctl_host_init.  A failed or a second call releases what it made and  *)
(* changes nothing.                                                        *)
HostInit(plan) ==
    /\ ~instance
    /\ instance' = TRUE
    /\ paths5' = plan
    /\ first_plan' = (plan # NoPath)
    /\ phase' = [phase EXCEPT ![RUN] = "NORMAL"]
    /\ pc' = "top"
    /\ initial' = plan
    /\ UNCHANGED <<runtime_error, inputs, next_id, due, retries_used,
                   pending_run, fresh_run, clock_failed, child, now, call,
                   live, clock, accepted, handed, dropped, runs, attempts,
                   needs, unserved>>

(* camctl_host_submit, when it answers 0.  ENODEV, a runtime error and a   *)
(* full queue (EAGAIN) change nothing.                                     *)
Submit(p) ==
    /\ Len(accepted) < MaxSubmits
    /\ instance
    /\ ~runtime_error
    /\ ~QueueFull
    /\ host_inputs_push(p)
    /\ next_id' = next_id + 1
    /\ accepted' = Append(accepted, [path |-> p, id |-> next_id])
    /\ UNCHANGED <<instance, runtime_error, schedule, clock_failed, paths5,
                   child, pc, now, call, live, clock, initial, handed,
                   dropped, runs, attempts, needs, unserved>>

-----------------------------------------------------------------------------
(* The worker.                                                             *)

SlipErrorNotShared ==
    "clock" \in Faults /\ clock_failed' = TRUE /\ UNCHANGED runtime_error

ClockFails == "clock" \in Faults /\ clock_failed' = TRUE /\ runtime_error' = TRUE
ClockWorks == UNCHANGED <<clock_failed, runtime_error>>

ReadClock ==
    /\ pc = "top"
    /\ \/ ClockWorks /\ now' = clock
       \/ ClockFails /\ now' = 0
    /\ pc' = "collectRun"
    /\ UNCHANGED <<instance, inputs, next_id, schedule, paths5, child, call,
                   live, clock, history>>

AfterCollect(c) ==
    pc' = IF c = RUN THEN "collectSubmit"
          ELSE IF clock_failed THEN "poll" ELSE "launchRun"

(* The slot is empty, or its process is not known to be finished.          *)
CollectNothing(c) ==
    /\ \/ ~child[c].pid
       \/ child[c].wait_fault
       \/ child[c].id \in live[c]
    /\ AfterCollect(c)
    /\ UNCHANGED <<instance, runtime_error, inputs, next_id, schedule,
                   clock_failed, paths5, child, now, call, live, clock,
                   history>>

(* waitpid fails: the slot is kept for ever.                               *)
CollectWaitFault(c) ==
    /\ "wait" \in Faults
    /\ child[c].pid /\ ~child[c].wait_fault
    /\ child' = [child EXCEPT ![c].wait_fault = TRUE]
    /\ AfterCollect(c)
    /\ UNCHANGED <<instance, runtime_error, inputs, next_id, schedule,
                   clock_failed, paths5, now, call, live, clock, history>>

(* host_schedule_finished *)
FinishedRun(r) ==
    /\ phase' = [phase EXCEPT ![RUN] = IF r = "abnormal" THEN "WAIT" ELSE "IDLE"]
    /\ due' = IF r = "abnormal" THEN [due EXCEPT ![RUN] = now + Delay] ELSE due
    /\ UNCHANGED <<retries_used, pending_run, fresh_run, first_plan>>

FinishedSubmit(r) ==
    /\ phase' = [phase EXCEPT ![SUBMIT] = "IDLE"]
    /\ pending_run' = (pending_run \/ r = "needs_run")
    /\ fresh_run' = (fresh_run \/ r = "needs_run")
    /\ needs' = IF r = "needs_run" THEN needs + 1 ELSE needs
    /\ unserved' = (unserved \/ r = "needs_run")
    /\ UNCHANGED <<due, retries_used, first_plan>>

Collected(c) ==
    /\ child[c].pid /\ ~child[c].wait_fault /\ child[c].id \notin live[c]
    /\ child' = [child EXCEPT ![c].pid = FALSE]
    /\ AfterCollect(c)
    /\ UNCHANGED <<instance, runtime_error, next_id, clock_failed, paths5, now,
                   call, live, clock, initial, accepted, handed, dropped, runs,
                   attempts>>

CollectRun(r) ==
    /\ pc = "collectRun"
    /\ Collected(RUN) /\ FinishedRun(r)
    /\ UNCHANGED <<inputs, needs, unserved>>

CollectSubmit(r) ==
    /\ pc = "collectSubmit"
    /\ Collected(SUBMIT) /\ FinishedSubmit(r)
    /\ host_inputs_pop

CollectOther ==
    \/ pc = "collectRun" /\ (CollectNothing(RUN) \/ CollectWaitFault(RUN))
    \/ pc = "collectSubmit" /\ (CollectNothing(SUBMIT) \/ CollectWaitFault(SUBMIT))

-----------------------------------------------------------------------------
(* launch *)

NextLaunch(c) == IF c = RUN THEN "launchSubmit" ELSE "poll"

(* host_schedule_take says yes.  judged is the phase it looked at.         *)
Take(c, judged, id) ==
    /\ judged = "NORMAL" \/ RetryDue(c, judged)
    /\ retries_used' = IF judged = "WAIT" THEN retries_used + 1
                                          ELSE retries_used
    /\ phase' = [phase EXCEPT ![c] = "STARTING"]
    /\ call' = [command |-> c, id |-> id]
    /\ pc' = "spawn"
    /\ UNCHANGED <<instance, runtime_error, inputs, due, first_plan,
                   clock_failed, paths5, child, now, live, clock, history>>

LaunchRun ==
    /\ pc = "launchRun"
    /\ Take(RUN, Effective(RUN), next_id)
    /\ pending_run' = FALSE /\ fresh_run' = FALSE
    /\ next_id' = next_id + 1

(* An idle submit job with an input in the ring is first made NORMAL.      *)
SlipNotMadeNormal == phase[SUBMIT]

JudgedSubmit == IF phase[SUBMIT] = "IDLE" THEN "NORMAL" ELSE phase[SUBMIT]

LaunchSubmit ==
    /\ pc = "launchSubmit"
    /\ count > 0
    /\ Take(SUBMIT, JudgedSubmit, Front.id)
    /\ UNCHANGED <<pending_run, fresh_run, next_id>>

(* The budget is spent: the job is abandoned, a submission leaves the ring.*)
GiveUpRun ==
    /\ pc = "launchRun"
    /\ Exhausted(Effective(RUN))
    /\ phase' = [phase EXCEPT ![RUN] = "IDLE"]
    /\ pc' = "launchSubmit"
    /\ UNCHANGED <<instance, runtime_error, inputs, next_id, due, retries_used,
                   pending_run, fresh_run, first_plan, clock_failed, paths5,
                   child, now, call, live, clock, history>>

GiveUpSubmit ==
    /\ pc = "launchSubmit"
    /\ count > 0
    /\ Exhausted(phase[SUBMIT])
    /\ phase' = [phase EXCEPT ![SUBMIT] = "IDLE"]
    /\ dropped' = dropped \cup {Front.id}
    /\ host_inputs_pop
    /\ pc' = "poll"
    /\ UNCHANGED <<instance, runtime_error, next_id, due, retries_used,
                   pending_run, fresh_run, first_plan, clock_failed, paths5,
                   child, now, call, live, clock, initial, accepted, handed,
                   runs, attempts, needs, unserved>>

NothingToLaunch(c, judged) ==
    \/ judged \in {"ACTIVE", "STARTING", "IDLE"}
    \/ judged = "WAIT" /\ retries_used < RetryLimit /\ ~Elapsed(c)

LaunchNothing ==
    /\ \/ /\ pc = "launchRun"
          /\ NothingToLaunch(RUN, Effective(RUN))
          /\ pc' = NextLaunch(RUN)
       \/ /\ pc = "launchSubmit"
          /\ count = 0 \/ NothingToLaunch(SUBMIT, JudgedSubmit)
          /\ pc' = NextLaunch(SUBMIT)
    /\ UNCHANGED <<instance, runtime_error, inputs, next_id, schedule,
                   clock_failed, paths5, child, now, call, live, clock,
                   history>>

(* host_child_spawn is called without the mutex: the submit path is read   *)
(* from the front slot itself, whatever that holds by then.                *)
SlipPlanKept ==
    /\ call.command = RUN
    /\ runs' = Append(runs, IF first_plan THEN paths5 ELSE NoPath)
    /\ unserved' = FALSE
    /\ UNCHANGED <<handed, first_plan, paths5>>

SpawnRun ==
    LET plan == IF first_plan THEN paths5 ELSE NoPath IN
    /\ call.command = RUN
    /\ runs' = Append(runs, plan)
    /\ first_plan' = FALSE
    /\ paths5' = NoPath
    /\ unserved' = FALSE
    /\ UNCHANGED handed

SpawnSubmit ==
    /\ call.command = SUBMIT
    /\ handed' = Append(handed, Front)
    /\ UNCHANGED <<runs, first_plan, paths5, unserved>>

Spawned ==
    LET c == call.command IN
    /\ pc = "spawn"
    /\ SpawnRun \/ SpawnSubmit
    /\ phase' = [phase EXCEPT ![c] = "ACTIVE"]
    /\ child' = [child EXCEPT ![c] =
                   [pid |-> TRUE, id |-> call.id, wait_fault |-> FALSE]]
    /\ live' = [live EXCEPT ![c] = @ \cup {call.id}]
    /\ attempts' = attempts + 1
    /\ pc' = NextLaunch(c)
    /\ UNCHANGED <<instance, runtime_error, inputs, next_id, due, retries_used,
                   pending_run, fresh_run, clock_failed, now, call, clock,
                   initial, accepted, dropped, needs>>

SlipNeedForgotten(c) == pending_run

StillPending(c) == pending_run \/ c = RUN

(* No process was created.  The wait starts at a fresh clock reading,      *)
(* which is 0 when the clock fails.                                        *)
SpawnFailed ==
    LET c == call.command IN
    /\ pc = "spawn"
    /\ "spawn" \in Faults
    /\ child' = [child EXCEPT ![c].id = call.id]
    /\ phase' = [phase EXCEPT ![c] = "WAIT"]
    /\ \/ ClockWorks /\ due' = [due EXCEPT ![c] = clock + Delay]
       \/ ClockFails /\ due' = [due EXCEPT ![c] = Delay]
    /\ pending_run' = StillPending(c)
    /\ attempts' = attempts + 1
    /\ pc' = NextLaunch(c)
    /\ UNCHANGED <<instance, inputs, next_id, retries_used, fresh_run,
                   first_plan, paths5, now, call, live, clock, initial,
                   accepted, handed, dropped, runs, needs, unserved>>

Poll ==
    /\ pc = "poll"
    /\ \/ pc' = "top" /\ UNCHANGED runtime_error
       \/ "poll" \in Faults /\ pc' = "stopped" /\ runtime_error' = TRUE
    /\ UNCHANGED <<instance, inputs, next_id, schedule, clock_failed, paths5,
                   child, now, call, live, clock, history>>

Worker ==
    \/ ReadClock
    \/ \E r \in Results \ {"needs_run"} : CollectRun(r)
    \/ \E r \in Results : CollectSubmit(r)
    \/ CollectOther
    \/ LaunchRun \/ LaunchSubmit \/ GiveUpRun \/ GiveUpSubmit \/ LaunchNothing
    \/ Spawned \/ SpawnFailed
    \/ Poll

-----------------------------------------------------------------------------
(* The environment.                                                        *)

Exit(c) ==
    /\ \E i \in live[c] : live' = [live EXCEPT ![c] = @ \ {i}]
    /\ UNCHANGED <<instance, runtime_error, inputs, next_id, schedule,
                   clock_failed, paths5, child, pc, now, call, clock, history>>

Waiting(c) == phase[c] = "WAIT" /\ clock < due[c]

Tick ==
    /\ clock < MaxClock \/ \E c \in Commands : Waiting(c)
    /\ clock' = clock + 1
    /\ UNCHANGED <<instance, runtime_error, inputs, next_id, schedule,
                   clock_failed, paths5, child, pc, now, call, live, history>>

Next ==
    \/ \E p \in Paths \cup {NoPath} : HostInit(p)
    \/ \E p \in Paths : Submit(p)
    \/ Worker
    \/ \E c \in Commands : Exit(c)
    \/ Tick

Spec == Init /\ [][Next]_vars

(* The worker thread keeps being scheduled and a process that was created  *)
(* ends some day with its pipes drained (module HostChild); time passes.   *)
Fairness ==
    /\ WF_vars(Worker)
    /\ \A c \in Commands : WF_vars(Exit(c))
    /\ WF_vars(Tick)

FairSpec == Spec /\ Fairness

-----------------------------------------------------------------------------
(* Properties.                                                             *)

(* Never two processes of the same command at once, although the phase     *)
(* that forbids it and the process table live apart: neither a failed      *)
(* waitpid, nor a fresh requirement, nor an exhausted retry frees a slot   *)
(* whose process may still run.                                            *)
OneProcessPerCommand ==
    \A c \in Commands : \A i, j \in live[c] : i = j

(* The first plan is the argument of the first run process that came to    *)
(* be, however many attempts failed before, and of no later one.           *)
FirstPlanOnce ==
    \A k \in DOMAIN runs : runs[k] = IF k = 1 THEN initial ELSE NoPath

(* Every attempt beyond the first one of the library, the first one of     *)
(* each submission and one per needs_run answer is an automatic retry; all *)
(* of them share RetryLimit, whatever succeeded in between.                *)
AttemptsPaid ==
    LET tried == Len(accepted) - count + (IF phase[SUBMIT] = "IDLE" THEN 0 ELSE 1)
        starting == IF pc = "spawn" THEN 1 ELSE 0
    IN  /\ retries_used <= RetryLimit
        /\ attempts + starting <= 1 + needs + tried + retries_used

(* A requirement of a submit answer is only consumed by the start of a run *)
(* process: errors, failed attempts and given-up retries keep it recorded. *)
NeedRemembered ==
    unserved => pending_run \/ (pc = "spawn" /\ call.command = RUN)

(* An automatic attempt never begins before the wait that was set for it   *)
(* is over, though the clock sample it is judged by is an old one.         *)
RetryWaits ==
    [][retries_used' # retries_used => clock >= due[call'.command]]_vars

(* The wait before a retry is counted from a moment at which the failed    *)
(* attempt and the end of its process were known (docs/host-demo/design.md *)
(* line 204).                                                              *)
WaitStartsAfterFailure ==
    [][\A c \in Commands :
         phase[c] # "WAIT" /\ phase'[c] = "WAIT" => due'[c] >= clock + Delay]_vars

(* Once the worker can start nothing any more (its clock failed, or its    *)
(* poll did and the thread is gone) no submission is accepted.             *)
DeadWorkerRefuses ==
    [][clock_failed \/ pc = "stopped" => accepted' = accepted]_vars

(* Every accepted submission is settled some day: a retry that waits, an   *)
(* exhausted budget or a run that goes on for long does not block the      *)
(* ring.  Only a failed clock, poll or waitpid does.                       *)
SubmissionsSettle ==
    \A n \in 1 .. MaxSubmits :
        Len(accepted) >= n ~> \/ Len(accepted) - count >= n
                             \/ runtime_error \/ child[SUBMIT].wait_fault

(* A fresh requirement leads to an attempt to start a run, unless the      *)
(* clock, the poll or the waitpid for the run before it failed.            *)
NeedLeadsToRun ==
    fresh_run ~> ~fresh_run \/ runtime_error \/ child[RUN].wait_fault

(* A run that waits for its retry is retried or given up.                  *)
RunWaitEnds == phase[RUN] = "WAIT" ~> phase[RUN] # "WAIT" \/ runtime_error

(* A run that is wanted is started, a run that failed retried or given up. *)
RunsSettle == NeedLeadsToRun /\ RunWaitEnds

=============================================================================
