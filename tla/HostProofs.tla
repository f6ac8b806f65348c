---------------------------- MODULE HostProofs ----------------------------
(***************************************************************************)
(* What is proved of the host library for every ring capacity, budget,     *)
(* delay and set of faults: its invariants, and that it implements         *)
(* HostPromise.                                                            *)
(***************************************************************************)
EXTENDS HostRefinement, SequenceTheorems, TLAPS

-----------------------------------------------------------------------------
(* The ring's index arithmetic stays inside the ring.                      *)
LEMMA AtIsSlot ==
  ASSUME NEW h \in Nat, NEW n \in Int
  PROVE  At(h, n) \in Slot
  BY CapacityAssumption DEF At, Slot

LEMMA CommandFacts ==
  /\ RUN \in Commands /\ SUBMIT \in Commands /\ RUN # SUBMIT
  /\ \A c \in Commands : c = RUN \/ c = SUBMIT
  BY DEF Commands, RUN, SUBMIT

(* A slot stays well-formed when one of its fields is set.                 *)
LEMMA ChildUpdate ==
  ASSUME NEW k \in Child, NEW b \in BOOLEAN, NEW n \in Nat
  PROVE  /\ [k EXCEPT !.pid = b] \in Child
         /\ [k EXCEPT !.id = n] \in Child
         /\ [k EXCEPT !.wait_fault = b] \in Child
         /\ [pid |-> b, id |-> n, wait_fault |-> b] \in Child
         /\ [pid |-> TRUE, id |-> n, wait_fault |-> FALSE] \in Child
  BY DEF Child

(* Everything the host keeps always has its type; in particular the ring   *)
(* never holds more than its capacity.                                     *)
LEMMA InitTypeOK == Init => TypeOK
  <1> SUFFICES ASSUME Init PROVE TypeOK
    OBVIOUS
  <1>1. 0 \in Slot /\ 0 \in 0 .. Capacity
    BY CapacityAssumption DEF Slot
  <1> QED
    <2>1. items \in [Slot -> Item]
      BY DEF Init, Item
    <2>2. child \in [Commands -> Child]
      BY DEF Init, Child
    <2>3. call \in Call
      BY CommandFacts DEF Init, Call
    <2>4. accepted \in Seq(Item) /\ handed \in Seq(Item) /\ runs \in Seq(Paths \cup {NoPath})
      BY DEF Init
    <2> QED
      BY <1>1, <2>1, <2>2, <2>3, <2>4 DEF Init, TypeOK, Phases, Steps

LEMMA NextTypeOK == TypeOK /\ [Next]_vars => TypeOK'
  <1> SUFFICES ASSUME TypeOK, [Next]_vars PROVE TypeOK'
    OBVIOUS
  <1> USE CapacityAssumption, RetryAssumption, CommandFacts
      DEF TypeOK, inputs, schedule, history, Phases, Steps
  <1>1. ASSUME NEW p \in Paths \cup {NoPath}, HostInit(p) PROVE TypeOK'
    BY <1>1 DEF HostInit
  <1>2. ASSUME NEW p \in Paths, Submit(p) PROVE TypeOK'
    <2>1. At(head, count) \in Slot
      <3>1. head \in Nat /\ count \in Int
        BY DEF Slot
      <3> QED
        BY <3>1, AtIsSlot
    <2>2. [path |-> p, id |-> next_id] \in Item
      BY DEF Item
    <2>3. items' \in [Slot -> Item] /\ head' \in Slot
      BY <1>2, <2>1, <2>2 DEF Submit, host_inputs_push
    <2>4. count' \in 0 .. Capacity
      BY <1>2 DEF Submit, host_inputs_push, QueueFull
    <2>5. accepted' \in Seq(Item)
      BY <1>2, <2>2 DEF Submit
    <2> QED
      BY <1>2, <2>3, <2>4, <2>5 DEF Submit
  <1>3. CASE ReadClock
    <2>1. runtime_error' \in BOOLEAN /\ clock_failed' \in BOOLEAN
      BY <1>3, Zenon DEF ReadClock, ClockWorks, ClockFails
    <2>2. now' \in Nat
      BY <1>3 DEF ReadClock, ClockWorks, ClockFails
    <2> QED
      BY <1>3, <2>1, <2>2 DEF ReadClock
  <1>4. ASSUME NEW r \in Results, CollectRun(r) PROVE TypeOK'
    <2>1. child' \in [Commands -> Child]
      BY <1>4, ChildUpdate DEF CollectRun, Collected
    <2>2. phase' \in [Commands -> Phases] /\ due' \in [Commands -> Nat]
      BY <1>4 DEF CollectRun, FinishedRun
    <2>3. pc' \in Steps
      BY <1>4 DEF CollectRun, Collected, AfterCollect
    <2> QED
      BY <1>4, <2>1, <2>2, <2>3 DEF CollectRun, Collected, FinishedRun
  <1>5. ASSUME NEW r \in Results, CollectSubmit(r) PROVE TypeOK'
    <2>1. items' \in [Slot -> Item] /\ head' \in Slot /\ count' \in 0 .. Capacity
      BY <1>5, AtIsSlot DEF CollectSubmit, host_inputs_pop, Slot
    <2>2. child' \in [Commands -> Child]
      BY <1>5, ChildUpdate DEF CollectSubmit, Collected
    <2>3. pc' \in Steps
      BY <1>5 DEF CollectSubmit, Collected, AfterCollect
    <2>4. pending_run' \in BOOLEAN /\ fresh_run' \in BOOLEAN /\ unserved' \in BOOLEAN
      BY <1>5 DEF CollectSubmit, FinishedSubmit
    <2> QED
      BY <1>5, <2>1, <2>2, <2>3, <2>4 DEF CollectSubmit, Collected, FinishedSubmit
  <1>6. CASE CollectOther
    <2>1. ASSUME NEW c \in Commands, CollectNothing(c) PROVE TypeOK'
      BY <2>1 DEF CollectNothing, AfterCollect
    <2>2. ASSUME NEW c \in Commands, CollectWaitFault(c) PROVE TypeOK'
      <3>1. child' \in [Commands -> Child]
        BY <2>2, ChildUpdate DEF CollectWaitFault
      <3> QED
        BY <2>2, <3>1 DEF CollectWaitFault, AfterCollect
    <2> QED
      BY <1>6, <2>1, <2>2 DEF CollectOther
  <1>7. CASE LaunchRun
    <2>1. call' \in Call
      BY <1>7 DEF LaunchRun, Take, Call
    <2>2. retries_used' \in Nat /\ next_id' \in Nat
      BY <1>7 DEF LaunchRun, Take
    <2>3. phase' \in [Commands -> Phases] /\ pc' \in Steps
      BY <1>7 DEF LaunchRun, Take
    <2>4. pending_run' \in BOOLEAN /\ fresh_run' \in BOOLEAN
      BY <1>7, Zenon DEF LaunchRun
    <2> QED
      BY <1>7, <2>1, <2>2, <2>3, <2>4 DEF LaunchRun, Take
  <1>8. CASE LaunchSubmit
    <2>1. Front.id \in Nat
      BY DEF Front, Item
    <2>2. call' \in Call
      BY <1>8, <2>1 DEF LaunchSubmit, Take, Call
    <2> QED
      BY <1>8, <2>2 DEF LaunchSubmit, Take
  <1>9. CASE GiveUpRun
    BY <1>9 DEF GiveUpRun
  <1>10. CASE GiveUpSubmit
    <2>1. Front.id \in Nat
      BY DEF Front, Item
    <2>2. items' \in [Slot -> Item] /\ head' \in Slot /\ count' \in 0 .. Capacity
      BY <1>10, AtIsSlot DEF GiveUpSubmit, host_inputs_pop, Slot
    <2> QED
      BY <1>10, <2>1, <2>2 DEF GiveUpSubmit
  <1>11. CASE LaunchNothing
    BY <1>11 DEF LaunchNothing, NextLaunch
  <1>12. CASE Spawned
    <2>1. call.command \in Commands /\ call.id \in Nat
      BY DEF Call
    <2>2. child' \in [Commands -> Child]
      BY <1>12, <2>1, ChildUpdate DEF Spawned
    <2>3. CASE SpawnRun
      <3>1. first_plan' \in BOOLEAN /\ unserved' \in BOOLEAN
        BY <2>3, Zenon DEF SpawnRun
      <3>2. /\ runs' \in Seq(Paths \cup {NoPath}) /\ paths5' \in Paths \cup {NoPath}
            /\ handed' \in Seq(Item)
        BY <2>3 DEF SpawnRun
      <3>3. phase' \in [Commands -> Phases] /\ live' \in [Commands -> SUBSET Nat]
        BY <1>12, <2>1 DEF Spawned
      <3>4. pc' \in Steps /\ attempts' \in Nat
        BY <1>12 DEF Spawned, NextLaunch
      <3> QED
        BY <1>12, <2>2, <3>1, <3>2, <3>3, <3>4 DEF Spawned
    <2>4. CASE SpawnSubmit
      <3>1. Front \in Item
        BY DEF Front
      <3> QED
        BY <1>12, <2>1, <2>2, <2>4, <3>1 DEF Spawned, SpawnSubmit, NextLaunch
    <2> QED
      BY <1>12, <2>3, <2>4 DEF Spawned
  <1>13. CASE SpawnFailed
    <2>1. call.command \in Commands /\ call.id \in Nat
      BY DEF Call
    <2>2. child' \in [Commands -> Child]
      BY <1>13, <2>1, ChildUpdate DEF SpawnFailed
    <2>3. due' \in [Commands -> Nat]
      <3>1. clock + Delay \in Nat
        OBVIOUS
      <3>2. \/ due' = [due EXCEPT ![call.command] = clock + Delay]
            \/ due' = [due EXCEPT ![call.command] = Delay]
        BY <1>13, Zenon DEF SpawnFailed
      <3> QED
        BY <2>1, <3>1, <3>2
    <2>4. runtime_error' \in BOOLEAN /\ clock_failed' \in BOOLEAN
      BY <1>13, Zenon DEF SpawnFailed, ClockWorks, ClockFails
    <2>5. pending_run' \in BOOLEAN
      BY <1>13, Zenon DEF SpawnFailed, StillPending
    <2>6. phase' \in [Commands -> Phases] /\ pc' \in Steps /\ attempts' \in Nat
      BY <1>13, <2>1 DEF SpawnFailed, NextLaunch
    <2> QED
      BY <1>13, <2>2, <2>3, <2>4, <2>5, <2>6 DEF SpawnFailed
  <1>14. CASE Poll
    BY <1>14 DEF Poll
  <1>15. ASSUME NEW c \in Commands, Exit(c) PROVE TypeOK'
    BY <1>15 DEF Exit
  <1>16. CASE Tick
    BY <1>16 DEF Tick
  <1>17. CASE UNCHANGED vars
    BY <1>17 DEF vars
  <1> QED
    BY <1>1, <1>2, <1>3, <1>4, <1>5, <1>6, <1>7, <1>8, <1>9, <1>10, <1>11,
       <1>12, <1>13, <1>14, <1>15, <1>16, <1>17 DEF Next, Worker

THEOREM TypeCorrect == Spec => []TypeOK
  BY InitTypeOK, NextTypeOK, PTL DEF Spec


-----------------------------------------------------------------------------
(***************************************************************************)
(* The inductive invariant of the process slots.  OneProcessPerCommand     *)
(* alone is not inductive: a step that creates a process has to know that  *)
(* the phase of the schedule, the pid of the slot and the processes that   *)
(* exist agree.                                                            *)
(***************************************************************************)

(* Only the process of the slot may still exist.                           *)
SlotOwnsProcess ==
    \A c \in Commands : \A i \in live[c] : child[c].pid /\ child[c].id = i

(* The schedule says ACTIVE exactly while the slot is taken.               *)
ActiveIsTaken == \A c \in Commands : child[c].pid <=> phase[c] = "ACTIVE"

(* STARTING is the phase between host_schedule_take and the outcome.       *)
StartingIsSpawning ==
    \A c \in Commands :
        phase[c] = "STARTING" <=> pc = "spawn" /\ call.command = c

(* Before camctl_host_init there is no worker.                             *)
OffBeforeInit == ~instance => pc = "off" /\ phase = [c \in Commands |-> "IDLE"]

SlotInv ==
    /\ TypeOK
    /\ SlotOwnsProcess /\ ActiveIsTaken /\ StartingIsSpawning /\ OffBeforeInit

LEMMA InitSlotInv == Init => SlotInv
  <1> SUFFICES ASSUME Init PROVE SlotInv
    OBVIOUS
  <1>1. TypeOK
    BY InitTypeOK
  <1>2. SlotOwnsProcess /\ ActiveIsTaken /\ StartingIsSpawning /\ OffBeforeInit
    BY DEF Init, SlotOwnsProcess, ActiveIsTaken, StartingIsSpawning, OffBeforeInit
  <1> QED
    BY <1>1, <1>2 DEF SlotInv

(* A phase from which host_schedule_take starts a process is not busy.     *)
LEMMA JudgedIsFree ==
  ASSUME TypeOK
  PROVE  /\ Effective(RUN) \in {"NORMAL", "WAIT"} => phase[RUN] \notin {"ACTIVE", "STARTING"}
         /\ JudgedSubmit \in {"NORMAL", "WAIT"} => phase[SUBMIT] \notin {"ACTIVE", "STARTING"}
  BY DEF Effective, Busy, JudgedSubmit

(* The steps that leave phases, slots and processes alone.                 *)
LEMMA QuietStep ==
  ASSUME SlotInv, TypeOK', UNCHANGED <<phase, child, live>>,
         pc' # "spawn", pc # "spawn", instance => instance', instance,
         UNCHANGED call
  PROVE  SlotInv'
  BY DEF SlotInv, SlotOwnsProcess, ActiveIsTaken, StartingIsSpawning, OffBeforeInit

(* host_schedule_take starts command c, whose slot is free.                *)
LEMMA TakeStep ==
  ASSUME SlotInv, TypeOK', NEW c \in Commands, NEW judged, NEW id,
         Take(c, judged, id), phase[c] \notin {"ACTIVE", "STARTING"},
         pc \in {"launchRun", "launchSubmit"}
  PROVE  SlotInv'
  <1> USE DEF SlotInv
  <1>1. /\ phase' = [phase EXCEPT ![c] = "STARTING"] /\ UNCHANGED <<child, live, instance>>
        /\ call'.command = c /\ pc' = "spawn"
    BY DEF Take
  <1>2. SlotOwnsProcess'
    BY <1>1 DEF SlotOwnsProcess
  <1>3. ActiveIsTaken'
    BY <1>1 DEF ActiveIsTaken, TypeOK
  <1>4. StartingIsSpawning'
    BY <1>1 DEF StartingIsSpawning, TypeOK
  <1>5. OffBeforeInit'
    BY <1>1 DEF OffBeforeInit
  <1> QED
    BY <1>2, <1>3, <1>4, <1>5

(* A job leaves WAIT without a process.                                    *)
LEMMA AbandonStep ==
  ASSUME SlotInv, TypeOK', NEW c \in Commands,
         phase[c] = "WAIT", phase' = [phase EXCEPT ![c] = "IDLE"],
         pc \in {"launchRun", "launchSubmit"}, pc' # "spawn",
         UNCHANGED <<child, live, instance, call>>
  PROVE  SlotInv'
  BY DEF SlotInv, SlotOwnsProcess, ActiveIsTaken, StartingIsSpawning,
         OffBeforeInit, TypeOK

(* A finished process is collected and its slot freed.                     *)
LEMMA CollectedStep ==
  ASSUME SlotInv, TypeOK', NEW c \in Commands, NEW ph \in {"IDLE", "WAIT"},
         Collected(c), phase' = [phase EXCEPT ![c] = ph],
         pc \in {"collectRun", "collectSubmit"}
  PROVE  SlotInv'
  <1> USE DEF SlotInv
  <1>1. /\ child[c].pid /\ child[c].id \notin live[c]
        /\ child' = [child EXCEPT ![c].pid = FALSE]
        /\ UNCHANGED <<live, instance, call>> /\ pc' # "spawn"
    BY DEF Collected, AfterCollect
  <1>2. live[c] = {}
    BY <1>1 DEF SlotOwnsProcess
  <1>3. \A d \in Commands : d # c => child'[d] = child[d]
    BY <1>1 DEF TypeOK
  <1>4. ~child'[c].pid
    BY <1>1 DEF TypeOK, Child
  <1>5. SlotOwnsProcess'
    BY <1>1, <1>2, <1>3 DEF SlotOwnsProcess
  <1>6. ActiveIsTaken'
    BY <1>3, <1>4 DEF ActiveIsTaken, TypeOK
  <1>7. StartingIsSpawning'
    BY <1>1 DEF StartingIsSpawning, TypeOK
  <1>8. OffBeforeInit'
    BY <1>1 DEF OffBeforeInit
  <1> QED
    BY <1>5, <1>6, <1>7, <1>8


LEMMA NextSlotInv == SlotInv /\ [Next]_vars => SlotInv'
  <1> SUFFICES ASSUME SlotInv, [Next]_vars PROVE SlotInv'
    OBVIOUS
  <1>0. TypeOK /\ TypeOK'
    BY NextTypeOK DEF SlotInv
  <1> USE CommandFacts DEF inputs, schedule, history
  <1>1. ASSUME NEW p \in Paths \cup {NoPath}, HostInit(p) PROVE SlotInv'
    <2>1. /\ phase' = [phase EXCEPT ![RUN] = "NORMAL"] /\ UNCHANGED <<child, live, call>>
          /\ instance' /\ pc' = "top" /\ ~instance
      BY <1>1 DEF HostInit
    <2>2. pc = "off" /\ phase = [c \in Commands |-> "IDLE"]
      BY <2>1 DEF SlotInv, OffBeforeInit
    <2>3. ActiveIsTaken' /\ StartingIsSpawning'
      BY <2>1, <2>2 DEF SlotInv, ActiveIsTaken, StartingIsSpawning
    <2>4. SlotOwnsProcess' /\ OffBeforeInit'
      BY <2>1 DEF SlotInv, SlotOwnsProcess, OffBeforeInit
    <2> QED
      BY <1>0, <2>3, <2>4 DEF SlotInv
  <1>2. ASSUME NEW p \in Paths, Submit(p) PROVE SlotInv'
    BY <1>0, <1>2
       DEF Submit, SlotInv, SlotOwnsProcess, ActiveIsTaken, StartingIsSpawning,
           OffBeforeInit
  <1>3. CASE ReadClock
    <2>1. instance /\ UNCHANGED instance
      BY <1>3 DEF ReadClock, SlotInv, OffBeforeInit
    <2> QED
      BY <1>0, <1>3, <2>1, QuietStep DEF ReadClock
  <1>4. ASSUME NEW r \in Results, CollectRun(r) PROVE SlotInv'
    <2>1. PICK ph \in {"IDLE", "WAIT"} : phase' = [phase EXCEPT ![RUN] = ph]
      BY <1>4 DEF CollectRun, FinishedRun
    <2> QED
      BY <1>0, <1>4, <2>1, CollectedStep DEF CollectRun
  <1>5. ASSUME NEW r \in Results, CollectSubmit(r) PROVE SlotInv'
    BY <1>0, <1>5, CollectedStep DEF CollectSubmit, FinishedSubmit
  <1>6. CASE CollectOther
    <2>1. pc \in {"collectRun", "collectSubmit"} /\ UNCHANGED <<phase, live, call, instance>>
      BY <1>6 DEF CollectOther, CollectNothing, CollectWaitFault
    <2>2. pc' # "spawn"
      BY <1>6 DEF CollectOther, CollectNothing, CollectWaitFault, AfterCollect
    <2>3. /\ child' \in [Commands -> Child]
          /\ \A d \in Commands : child'[d].pid = child[d].pid /\ child'[d].id = child[d].id
      <3>1. ASSUME NEW c \in Commands, CollectNothing(c)
            PROVE  \A d \in Commands : child'[d].pid = child[d].pid /\ child'[d].id = child[d].id
        BY <3>1 DEF CollectNothing
      <3>2. ASSUME NEW c \in Commands, CollectWaitFault(c)
            PROVE  \A d \in Commands : child'[d].pid = child[d].pid /\ child'[d].id = child[d].id
        BY <1>0, <3>2 DEF CollectWaitFault, TypeOK, Child
      <3> QED
        BY <1>0, <1>6, <3>1, <3>2 DEF CollectOther, TypeOK
    <2> QED
      BY <1>0, <2>1, <2>2, <2>3
         DEF SlotInv, SlotOwnsProcess, ActiveIsTaken, StartingIsSpawning, OffBeforeInit
  <1>7. CASE LaunchRun
    <2>1. phase[RUN] \notin {"ACTIVE", "STARTING"}
      BY <1>0, <1>7, JudgedIsFree DEF LaunchRun, Take, RetryDue
    <2> QED
      BY <1>0, <1>7, <2>1, TakeStep DEF LaunchRun
  <1>8. CASE LaunchSubmit
    <2>1. phase[SUBMIT] \notin {"ACTIVE", "STARTING"}
      BY <1>0, <1>8, JudgedIsFree DEF LaunchSubmit, Take, RetryDue
    <2> QED
      BY <1>0, <1>8, <2>1, TakeStep DEF LaunchSubmit
  <1>9. CASE GiveUpRun
    <2>1. phase[RUN] = "WAIT"
      BY <1>9 DEF GiveUpRun, Exhausted, Effective
    <2> QED
      BY <1>0, <1>9, <2>1, AbandonStep DEF GiveUpRun
  <1>10. CASE GiveUpSubmit
    BY <1>0, <1>10, AbandonStep DEF GiveUpSubmit, Exhausted
  <1>11. CASE LaunchNothing
    <2>1. pc \in {"launchRun", "launchSubmit"} /\ pc' # "spawn"
          /\ UNCHANGED <<phase, child, live, call, instance>>
      BY <1>11 DEF LaunchNothing, NextLaunch
    <2>2. instance
      BY <2>1 DEF SlotInv, OffBeforeInit
    <2> QED
      BY <1>0, <2>1, <2>2, QuietStep
  <1>12. CASE Spawned
    <2> DEFINE c == call.command
    <2>1. c \in Commands
      BY <1>0 DEF TypeOK, Call
    <2>2. /\ pc = "spawn" /\ pc' # "spawn" /\ UNCHANGED <<call, instance>>
          /\ phase' = [phase EXCEPT ![c] = "ACTIVE"]
          /\ child' = [child EXCEPT ![c] =
                          [pid |-> TRUE, id |-> call.id, wait_fault |-> FALSE]]
          /\ live' = [live EXCEPT ![c] = @ \cup {call.id}]
      BY <1>12 DEF Spawned, NextLaunch
    <2>3. phase[c] = "STARTING" /\ ~child[c].pid
      BY <2>1, <2>2 DEF SlotInv, StartingIsSpawning, ActiveIsTaken
    <2>4. live[c] = {}
      BY <2>1, <2>3 DEF SlotInv, SlotOwnsProcess
    <2>5. SlotOwnsProcess'
      BY <1>0, <2>1, <2>2, <2>4 DEF SlotInv, SlotOwnsProcess, TypeOK
    <2>6. ActiveIsTaken'
      BY <1>0, <2>1, <2>2 DEF SlotInv, ActiveIsTaken, TypeOK
    <2>7. StartingIsSpawning'
      BY <1>0, <2>1, <2>2 DEF SlotInv, StartingIsSpawning, TypeOK
    <2>8. OffBeforeInit'
      BY <2>2 DEF SlotInv, OffBeforeInit
    <2> QED
      BY <1>0, <2>5, <2>6, <2>7, <2>8 DEF SlotInv
  <1>13. CASE SpawnFailed
    <2> DEFINE c == call.command
    <2>1. c \in Commands /\ call.id \in Nat
      BY <1>0 DEF TypeOK, Call
    <2>2. /\ pc = "spawn" /\ pc' # "spawn" /\ UNCHANGED <<call, instance, live>>
          /\ phase' = [phase EXCEPT ![c] = "WAIT"]
          /\ child' = [child EXCEPT ![c].id = call.id]
      BY <1>13 DEF SpawnFailed, NextLaunch
    <2>3. phase[c] = "STARTING" /\ ~child[c].pid
      BY <2>1, <2>2 DEF SlotInv, StartingIsSpawning, ActiveIsTaken
    <2>4. live[c] = {}
      BY <2>1, <2>3 DEF SlotInv, SlotOwnsProcess
    <2>5. \A d \in Commands : child'[d].pid = child[d].pid
      BY <1>0, <2>2 DEF TypeOK, Child
    <2>6. \A d \in Commands : d # c => child'[d] = child[d]
      BY <1>0, <2>2 DEF TypeOK
    <2>7. SlotOwnsProcess'
      BY <2>1, <2>2, <2>4, <2>6 DEF SlotInv, SlotOwnsProcess
    <2>8. ActiveIsTaken'
      BY <1>0, <2>1, <2>2, <2>3, <2>5 DEF SlotInv, ActiveIsTaken, TypeOK
    <2>9. StartingIsSpawning'
      BY <1>0, <2>1, <2>2 DEF SlotInv, StartingIsSpawning, TypeOK
    <2>10. OffBeforeInit'
      BY <2>2 DEF SlotInv, OffBeforeInit
    <2> QED
      BY <1>0, <2>7, <2>8, <2>9, <2>10 DEF SlotInv
  <1>14. CASE Poll
    <2>1. instance /\ UNCHANGED instance
      BY <1>14 DEF Poll, SlotInv, OffBeforeInit
    <2> QED
      BY <1>0, <1>14, <2>1, QuietStep DEF Poll
  <1>15. ASSUME NEW c \in Commands, Exit(c) PROVE SlotInv'
    <2>1. UNCHANGED <<phase, child, pc, call, instance>>
          /\ \A d \in Commands : live'[d] \subseteq live[d]
      BY <1>0, <1>15 DEF Exit, TypeOK
    <2> QED
      BY <1>0, <2>1
         DEF SlotInv, SlotOwnsProcess, ActiveIsTaken, StartingIsSpawning, OffBeforeInit
  <1>16. CASE Tick
    BY <1>0, <1>16
       DEF Tick, SlotInv, SlotOwnsProcess, ActiveIsTaken, StartingIsSpawning, OffBeforeInit
  <1>17. CASE UNCHANGED vars
    BY <1>0, <1>17
       DEF vars, SlotInv, SlotOwnsProcess, ActiveIsTaken, StartingIsSpawning, OffBeforeInit
  <1> QED
    BY <1>1, <1>2, <1>3, <1>4, <1>5, <1>6, <1>7, <1>8, <1>9, <1>10, <1>11,
       <1>12, <1>13, <1>14, <1>15, <1>16, <1>17 DEF Next, Worker

THEOREM SlotsAgree == Spec => []SlotInv
  BY InitSlotInv, NextSlotInv, PTL DEF Spec

(* For every ring size, budget, delay and combination of faults, there is  *)
(* at most one run process and at most one submit process at any time.     *)
THEOREM AtMostOneProcess == Spec => []OneProcessPerCommand
  <1>1. SlotInv => OneProcessPerCommand
    BY DEF SlotInv, SlotOwnsProcess, OneProcessPerCommand
  <1> QED
    BY <1>1, SlotsAgree, PTL


-----------------------------------------------------------------------------
(***************************************************************************)
(* The first plan.  paths5 and first_plan, which launch reads at different *)
(* places, agree with each other and with the run processes created so far.*)
(***************************************************************************)
PlanKept ==
    /\ paths5 = (IF runs = <<>> THEN initial ELSE NoPath)
    /\ first_plan <=> paths5 # NoPath
    /\ ~instance => runs = <<>>

PlanInv == SlotInv /\ PlanKept /\ FirstPlanOnce

LEMMA NextPlanInv == PlanInv /\ [Next]_vars => PlanInv'
  <1> SUFFICES ASSUME PlanInv, [Next]_vars PROVE PlanInv'
    OBVIOUS
  <1>0. SlotInv /\ SlotInv' /\ TypeOK /\ TypeOK'
    BY NextSlotInv DEF PlanInv, SlotInv
  <1> USE DEF inputs, schedule, history
  <1>1. ASSUME NEW p \in Paths \cup {NoPath}, HostInit(p) PROVE PlanInv'
    <2>1. runs' = <<>> /\ paths5' = initial' /\ instance'
      BY <1>1 DEF HostInit, PlanInv, PlanKept
    <2>2. first_plan' <=> paths5' # NoPath
      BY <1>1, Zenon DEF HostInit
    <2>3. PlanKept'
      BY <2>1, <2>2, Zenon DEF PlanKept
    <2>4. FirstPlanOnce'
      BY <2>1 DEF FirstPlanOnce
    <2> QED
      BY <1>0, <2>3, <2>4 DEF PlanInv
  <1>2. CASE Spawned
    <2>1. instance /\ UNCHANGED <<instance, initial>>
      BY <1>0, <1>2 DEF Spawned, SlotInv, OffBeforeInit
    <2>2. CASE SpawnRun
      <3>1. runs' = Append(runs, paths5) /\ ~first_plan' /\ paths5' = NoPath
        BY <2>2, Zenon DEF SpawnRun, PlanInv, PlanKept
      <3>2. runs \in Seq(Paths \cup {NoPath})
        BY <1>0 DEF TypeOK
      <3>3. /\ runs' # <<>> /\ Len(runs') = Len(runs) + 1
            /\ runs'[Len(runs) + 1] = paths5
            /\ \A k \in 1 .. Len(runs) : runs'[k] = runs[k]
        BY <3>1, <3>2
      <3>4. PlanKept'
        BY <2>1, <3>1, <3>3 DEF PlanKept
      <3>5. FirstPlanOnce'
        <4> SUFFICES ASSUME NEW k \in 1 .. Len(runs) + 1
                     PROVE  runs'[k] = IF k = 1 THEN initial ELSE NoPath
          BY <1>0, <2>1, <3>3 DEF FirstPlanOnce, TypeOK
        <4>1. CASE k \in 1 .. Len(runs)
          BY <3>2, <3>3, <4>1 DEF PlanInv, FirstPlanOnce
        <4>2. CASE k = Len(runs) + 1
          <5>1. runs = <<>> <=> k = 1
            BY <3>2, <4>2
          <5> QED
            BY <3>3, <4>2, <5>1 DEF PlanInv, PlanKept
        <4> QED
          BY <3>2, <4>1, <4>2
      <3> QED
        BY <1>0, <3>4, <3>5 DEF PlanInv
    <2>3. CASE SpawnSubmit
      BY <1>0, <2>1, <2>3 DEF SpawnSubmit, PlanInv, PlanKept, FirstPlanOnce
    <2> QED
      BY <1>2, <2>2, <2>3 DEF Spawned
  <1>3. ASSUME instance' = instance, UNCHANGED <<paths5, first_plan, runs, initial>>
        PROVE  PlanInv'
    BY <1>0, <1>3 DEF PlanInv, PlanKept, FirstPlanOnce
  <1>4. \/ \E p \in Paths \cup {NoPath} : HostInit(p)
        \/ Spawned
        \/ instance' = instance /\ UNCHANGED <<paths5, first_plan, runs, initial>>
    BY DEF Next, Worker, vars, Submit, ReadClock, CollectRun, CollectSubmit,
           Collected, FinishedRun, FinishedSubmit, CollectOther, CollectNothing,
           CollectWaitFault, LaunchRun, LaunchSubmit, Take, GiveUpRun,
           GiveUpSubmit, LaunchNothing, SpawnFailed, Poll, Exit, Tick
  <1> QED
    BY <1>1, <1>2, <1>3, <1>4

(* The first plan goes to the first run process there is, and to no other. *)
THEOREM FirstPlanGivenOnce == Spec => []FirstPlanOnce
  <1>1. Init => PlanInv
    BY InitSlotInv DEF Init, PlanInv, PlanKept, FirstPlanOnce
  <1>2. PlanInv => FirstPlanOnce
    BY DEF PlanInv
  <1> QED
    BY <1>1, <1>2, NextPlanInv, PTL DEF Spec


-----------------------------------------------------------------------------
(***************************************************************************)
(* The shared retry budget and the memory of what is owed.  AttemptsPaid   *)
(* becomes inductive once an attempt that is still owed (a fresh           *)
(* requirement, the first run) is counted as if it were made.              *)
(***************************************************************************)
Wanted == fresh_run \/ phase[RUN] = "NORMAL"
Tried == Len(accepted) - count + (IF phase[SUBMIT] = "IDLE" THEN 0 ELSE 1)
Starting == IF pc = "spawn" THEN 1 ELSE 0
Owed == IF Wanted THEN 1 ELSE 0

Paid == attempts + Starting + Owed <= 1 + needs + Tried + retries_used

AllPaid ==
    /\ retries_used <= RetryLimit
    /\ count <= Len(accepted)
    /\ Paid
    /\ phase[SUBMIT] # "NORMAL"

NoneBeforeInit == ~instance => attempts = 0

BudgetInv == SlotInv /\ NoneBeforeInit /\ AllPaid /\ NeedRemembered

LEMMA Numbers ==
  ASSUME TypeOK
  PROVE  /\ retries_used \in Nat /\ RetryLimit \in Nat /\ count \in Nat
         /\ Len(accepted) \in Nat /\ attempts \in Nat /\ needs \in Nat
         /\ Tried \in Int /\ Starting \in Int /\ Owed \in Int
         /\ Starting \in {0, 1} /\ Owed \in {0, 1}
  BY CapacityAssumption, RetryAssumption DEF TypeOK, Tried, Starting, Owed

LEMMA OwedIs == /\ (Wanted => Owed = 1) /\ (~Wanted => Owed = 0)
               /\ (Wanted' => Owed' = 1) /\ (~Wanted' => Owed' = 0)
  BY Zenon DEF Owed

LEMMA SameOwed == (Wanted' <=> Wanted) => Owed' = Owed
  BY OwedIs, Zenon

LEMMA OwedOnce == (Wanted' => Wanted) => \E d \in {0, 1} : Owed' = Owed - d
  <1>1. CASE Wanted <=> Wanted'
    <2>1. Owed' = Owed /\ Owed \in {0, 1}
      BY <1>1, SameOwed DEF Owed
    <2> QED
      BY <2>1
  <1>2. CASE Wanted /\ ~Wanted'
    <2>1. Owed = 1 /\ Owed' = 0
      BY <1>2, OwedIs, Zenon
    <2> QED
      BY <2>1
  <1> QED
    BY <1>1, <1>2, Zenon

LEMMA SameTried ==
  ASSUME UNCHANGED <<accepted, count>>,
         phase'[SUBMIT] = "IDLE" <=> phase[SUBMIT] = "IDLE"
  PROVE  Tried' = Tried
  BY DEF Tried

LEMMA SameStarting ==
  ((pc # "spawn" /\ pc' # "spawn") \/ pc' = pc) => Starting' = Starting
  BY DEF Starting

LEMMA NextAllPaid ==
  SlotInv /\ SlotInv' /\ NoneBeforeInit /\ AllPaid /\ [Next]_vars => AllPaid'
  <1> SUFFICES ASSUME SlotInv, SlotInv', NoneBeforeInit, AllPaid, [Next]_vars
               PROVE  AllPaid'
    OBVIOUS
  <1>0. TypeOK /\ TypeOK'
    BY DEF SlotInv
  <1>n. /\ retries_used \in Nat /\ RetryLimit \in Nat /\ count \in Nat
        /\ Len(accepted) \in Nat /\ attempts \in Nat /\ needs \in Nat
        /\ Tried \in Int /\ Starting \in Int /\ Owed \in Int
        /\ Starting \in {0, 1} /\ Owed \in {0, 1}
    BY <1>0, Numbers
  <1>p. Paid /\ retries_used <= RetryLimit /\ count <= Len(accepted)
        /\ phase[SUBMIT] # "NORMAL"
    BY DEF AllPaid
  <1> USE CommandFacts DEF inputs, schedule, history
  <1>1. ASSUME NEW p \in Paths \cup {NoPath}, HostInit(p) PROVE AllPaid'
    <2>1. /\ ~instance /\ pc' = "top" /\ pc = "off"
          /\ phase'[SUBMIT] = "IDLE" /\ phase[SUBMIT] = "IDLE"
          /\ UNCHANGED <<retries_used, count, accepted, attempts, needs>>
      BY <1>0, <1>1 DEF HostInit, SlotInv, OffBeforeInit, TypeOK
    <2>2. attempts' = 0
      BY <2>1, Zenon DEF NoneBeforeInit
    <2>3. Starting' = 0 /\ (Owed' = 0 \/ Owed' = 1)
      BY <2>1 DEF Starting, Owed
    <2>4. Tried' = Tried /\ Tried >= 0
      BY <1>n, <1>p, <2>1 DEF Tried
    <2>5. Paid'
      BY <1>n, <2>1, <2>2, <2>3, <2>4 DEF Paid
    <2> QED
      BY <1>p, <2>1, <2>5 DEF AllPaid
  <1>2. ASSUME NEW p \in Paths, Submit(p) PROVE AllPaid'
    <2>1. /\ Len(accepted') = Len(accepted) + 1 /\ count' = count + 1
          /\ UNCHANGED <<retries_used, attempts, needs, phase, fresh_run, pc>>
      BY <1>0, <1>2 DEF Submit, host_inputs_push, TypeOK
    <2>2. Tried' = Tried /\ Starting' = Starting
      BY <1>n, <2>1 DEF Tried, Starting
    <2>3. Wanted' <=> Wanted
      BY <2>1, Zenon DEF Wanted
    <2>4. Paid'
      BY <1>0, <1>n, <1>p, <2>1, <2>2, <2>3, SameOwed DEF Paid
    <2> QED
      BY <1>n, <1>p, <2>1, <2>4 DEF AllPaid
  <1>4. ASSUME NEW r \in Results, CollectRun(r) PROVE AllPaid'
    <2>1. /\ phase'[RUN] # "NORMAL" /\ phase'[SUBMIT] = phase[SUBMIT] /\ pc # "spawn"
          /\ pc' # "spawn" /\ UNCHANGED <<retries_used, count, accepted, attempts,
                                        needs, fresh_run>>
      BY <1>0, <1>4 DEF CollectRun, Collected, FinishedRun, AfterCollect, TypeOK
    <2>2. Wanted' => Wanted
      BY <2>1, Zenon DEF Wanted
    <2>3. \E d \in {0, 1} : Owed' = Owed - d
      BY <2>2, OwedOnce
    <2>4. Paid'
      BY <1>0, <1>n, <1>p, <2>1, <2>3, SameTried, SameStarting DEF Paid
    <2> QED
      BY <1>p, <2>1, <2>4 DEF AllPaid
  <1>5. ASSUME NEW r \in Results, CollectSubmit(r) PROVE AllPaid'
    <2>1. phase[SUBMIT] = "ACTIVE"
      BY <1>5 DEF CollectSubmit, Collected, SlotInv, ActiveIsTaken
    <2>2. /\ phase'[SUBMIT] = "IDLE" /\ phase'[RUN] = phase[RUN] /\ pc # "spawn"
          /\ pc' # "spawn" /\ count' = count - 1 /\ count > 0
          /\ UNCHANGED <<retries_used, accepted, attempts>>
      BY <1>0, <1>5 DEF CollectSubmit, Collected, FinishedSubmit, AfterCollect,
                        host_inputs_pop, TypeOK
    <2>3. Tried' = Tried /\ Starting' = Starting
      BY <1>n, <2>1, <2>2, SameStarting DEF Tried
    <2>4. \/ needs' = needs + 1 /\ \E d \in {-1, 0, 1} : Owed' = Owed + d
          \/ needs' = needs /\ Owed' = Owed
      <3>1. CASE r = "needs_run"
        <4>1. needs' = needs + 1
          BY <1>5, <3>1 DEF CollectSubmit, FinishedSubmit
        <4>2. Owed' \in {0, 1}
          BY DEF Owed
        <4> QED
          BY <1>n, <4>1, <4>2
      <3>2. CASE r # "needs_run"
        <4>1. needs' = needs /\ (fresh_run' <=> fresh_run)
          BY <1>5, <3>2, Zenon DEF CollectSubmit, FinishedSubmit
        <4>2. Wanted' <=> Wanted
          BY <2>2, <4>1, Zenon DEF Wanted
        <4> QED
          BY <1>n, <4>1, <4>2, SameOwed
      <3> QED
        BY <3>1, <3>2
    <2>5. Paid'
      BY <1>0, <1>n, <1>p, <2>2, <2>3, <2>4 DEF Paid
    <2> QED
      BY <1>n, <1>p, <2>2, <2>5 DEF AllPaid
  <1>7. CASE LaunchRun
    <2>1. /\ pc # "spawn" /\ pc' = "spawn" /\ ~fresh_run'
          /\ phase'[RUN] = "STARTING" /\ phase'[SUBMIT] = phase[SUBMIT]
          /\ UNCHANGED <<count, accepted, attempts, needs>>
      BY <1>0, <1>7 DEF LaunchRun, Take, TypeOK
    <2>2. ~Wanted'
      BY <2>1 DEF Wanted
    <2>3. Owed' = 0
      BY <2>2, OwedIs, Zenon
    <2>6. Starting' = 1 /\ Starting = 0 /\ Tried' = Tried
      BY <2>1, SameTried DEF Starting
    <2>4. /\ retries_used' <= RetryLimit
          /\ (retries_used' = retries_used /\ Owed = 1) \/ retries_used' = retries_used + 1
      <3>1. CASE Effective(RUN) = "NORMAL"
        <4>1. Wanted
          BY <3>1 DEF Effective, Wanted
        <4>2. Owed = 1
          BY <4>1, OwedIs, Zenon
        <4>3. retries_used' = retries_used
          BY <1>7, <3>1 DEF LaunchRun, Take
        <4> QED
          BY <1>n, <1>p, <4>2, <4>3
      <3>2. CASE RetryDue(RUN, Effective(RUN))
        <4>1. retries_used' = retries_used + 1 /\ retries_used < RetryLimit
          BY <1>7, <3>2 DEF LaunchRun, Take, RetryDue
        <4> QED
          BY <1>n, <4>1
      <3> QED
        BY <1>7, <3>1, <3>2 DEF LaunchRun, Take
    <2>5. Paid'
      BY <1>0, <1>n, <1>p, <2>1, <2>3, <2>4, <2>6 DEF Paid
    <2> QED
      BY <1>p, <2>1, <2>4, <2>5 DEF AllPaid
  <1>8. CASE LaunchSubmit
    <2>1. /\ pc # "spawn" /\ pc' = "spawn" /\ UNCHANGED fresh_run
          /\ phase'[SUBMIT] = "STARTING" /\ phase'[RUN] = phase[RUN]
          /\ UNCHANGED <<count, accepted, attempts, needs>>
      BY <1>0, <1>8 DEF LaunchSubmit, Take, TypeOK
    <2>2. Owed' = Owed
      <3>1. Wanted' <=> Wanted
        BY <2>1, Zenon DEF Wanted
      <3> QED
        BY <3>1, SameOwed
    <2>3. Starting' = 1 /\ Starting = 0
      BY <2>1 DEF Starting
    <2>4. /\ retries_used' <= RetryLimit
          /\ \/ Tried' = Tried + 1 /\ retries_used' = retries_used
             \/ Tried' = Tried /\ retries_used' = retries_used + 1
      <3>1. CASE JudgedSubmit = "NORMAL"
        <4>1. phase[SUBMIT] = "IDLE" /\ retries_used' = retries_used
          BY <1>8, <1>p, <3>1 DEF JudgedSubmit, LaunchSubmit, Take
        <4> QED
          BY <1>n, <1>p, <2>1, <4>1 DEF Tried
      <3>2. CASE RetryDue(SUBMIT, JudgedSubmit)
        <4>1. /\ retries_used' = retries_used + 1 /\ retries_used < RetryLimit
              /\ phase[SUBMIT] = "WAIT"
          BY <1>8, <3>2 DEF JudgedSubmit, LaunchSubmit, Take, RetryDue
        <4> QED
          BY <1>n, <2>1, <4>1 DEF Tried
      <3> QED
        BY <1>8, <3>1, <3>2 DEF LaunchSubmit, Take
    <2>5. Paid'
      BY <1>0, <1>n, <1>p, <2>1, <2>2, <2>3, <2>4 DEF Paid
    <2> QED
      BY <1>p, <2>1, <2>4, <2>5 DEF AllPaid
  <1>9. CASE GiveUpRun
    <2>1. /\ phase'[RUN] = "IDLE" /\ phase'[SUBMIT] = phase[SUBMIT]
          /\ pc # "spawn" /\ pc' # "spawn"
          /\ UNCHANGED <<retries_used, count, accepted, attempts, needs, fresh_run>>
      BY <1>0, <1>9 DEF GiveUpRun, TypeOK
    <2>2. Wanted' => Wanted
      BY <2>1, Zenon DEF Wanted
    <2>3. \E d \in {0, 1} : Owed' = Owed - d
      BY <2>2, OwedOnce
    <2>4. Paid'
      BY <1>0, <1>n, <1>p, <2>1, <2>3, SameTried, SameStarting DEF Paid
    <2> QED
      BY <1>p, <2>1, <2>4 DEF AllPaid
  <1>10. CASE GiveUpSubmit
    <2>1. /\ phase[SUBMIT] = "WAIT" /\ phase'[SUBMIT] = "IDLE" /\ phase'[RUN] = phase[RUN]
          /\ pc # "spawn" /\ pc' # "spawn" /\ count > 0 /\ count' = count - 1
          /\ UNCHANGED <<retries_used, accepted, attempts, needs, fresh_run>>
      BY <1>0, <1>10 DEF GiveUpSubmit, Exhausted, host_inputs_pop, TypeOK
    <2>2. Wanted' <=> Wanted
      BY <2>1, Zenon DEF Wanted
    <2>3. Tried' = Tried
      BY <1>n, <2>1 DEF Tried
    <2>4. Paid'
      BY <1>0, <1>n, <1>p, <2>1, <2>2, <2>3, SameOwed, SameStarting DEF Paid
    <2> QED
      BY <1>n, <1>p, <2>1, <2>4 DEF AllPaid
  <1>12. CASE Spawned \/ SpawnFailed
    <2>1. call.command \in Commands
      BY <1>0 DEF TypeOK, Call
    <2>2. phase[call.command] = "STARTING" /\ pc = "spawn" /\ pc' # "spawn"
      BY <1>12, <2>1 DEF Spawned, SpawnFailed, NextLaunch, SlotInv, StartingIsSpawning
    <2>3. \E ph \in {"ACTIVE", "WAIT"} : phase' = [phase EXCEPT ![call.command] = ph]
      BY <1>12 DEF Spawned, SpawnFailed
    <2>4. /\ phase'[RUN] = "NORMAL" <=> phase[RUN] = "NORMAL"
          /\ phase'[SUBMIT] = "IDLE" <=> phase[SUBMIT] = "IDLE"
          /\ phase'[SUBMIT] # "NORMAL"
      BY <1>0, <1>p, <2>1, <2>2, <2>3 DEF TypeOK
    <2>5. attempts' = attempts + 1
          /\ UNCHANGED <<retries_used, count, accepted, needs, fresh_run>>
      BY <1>12 DEF Spawned, SpawnFailed
    <2>6. Wanted' <=> Wanted
      BY <2>4, <2>5, Zenon DEF Wanted
    <2>7. Starting' = 0 /\ Starting = 1 /\ Tried' = Tried
      BY <2>2, <2>4, <2>5, SameTried DEF Starting
    <2>8. Paid'
      BY <1>0, <1>n, <1>p, <2>5, <2>6, <2>7, SameOwed DEF Paid
    <2> QED
      BY <1>p, <2>4, <2>5, <2>8 DEF AllPaid
  <1>13. ASSUME UNCHANGED <<retries_used, count, accepted, attempts, needs, phase,
                            fresh_run>>,
                (pc # "spawn" /\ pc' # "spawn") \/ pc' = pc
         PROVE  AllPaid'
    <2>1. Wanted' <=> Wanted
      BY <1>13, Zenon DEF Wanted
    <2>2. Paid'
      BY <1>0, <1>n, <1>p, <1>13, <2>1, SameOwed, SameTried, SameStarting DEF Paid
    <2> QED
      BY <1>p, <1>13, <2>2 DEF AllPaid
  <1>14. \/ \E p \in Paths \cup {NoPath} : HostInit(p)
         \/ \E p \in Paths : Submit(p)
         \/ \E r \in Results : CollectRun(r) \/ CollectSubmit(r)
         \/ LaunchRun \/ LaunchSubmit \/ GiveUpRun \/ GiveUpSubmit
         \/ Spawned \/ SpawnFailed
         \/ /\ UNCHANGED <<retries_used, count, accepted, attempts, needs, phase,
                           fresh_run>>
            /\ (pc # "spawn" /\ pc' # "spawn") \/ pc' = pc
    BY DEF Next, Worker, vars, ReadClock, CollectOther, CollectNothing,
           CollectWaitFault, AfterCollect, LaunchNothing, NextLaunch, Poll, Exit, Tick
  <1> QED
    BY <1>1, <1>2, <1>4, <1>5, <1>7, <1>8, <1>9, <1>10, <1>12, <1>13, <1>14, Zenon

LEMMA InitBudgetInv == Init => BudgetInv
  <1> SUFFICES ASSUME Init PROVE BudgetInv
    OBVIOUS
  <1>1. SlotInv
    BY InitSlotInv
  <1>2. NoneBeforeInit /\ NeedRemembered
    BY DEF Init, NoneBeforeInit, NeedRemembered
  <1>3. ~Wanted
    BY DEF Init, Wanted, Commands, RUN
  <1>4. Owed = 0
    BY <1>3, OwedIs, Zenon
  <1>5. AllPaid
    BY <1>4, RetryAssumption DEF Init, AllPaid, Paid, Starting, Tried, Commands, SUBMIT
  <1> QED
    BY <1>1, <1>2, <1>5 DEF BudgetInv

LEMMA NextNeedRemembered ==
  SlotInv /\ NoneBeforeInit /\ NeedRemembered /\ [Next]_vars
    => NoneBeforeInit' /\ NeedRemembered'
  <1> SUFFICES ASSUME SlotInv, NoneBeforeInit, NeedRemembered, [Next]_vars
               PROVE  NoneBeforeInit' /\ NeedRemembered'
    OBVIOUS
  <1> USE DEF history, schedule
  <1>1. NeedRemembered'
    <2>1. CASE \E r \in Results : CollectSubmit(r)
      BY <2>1, Zenon DEF NeedRemembered, CollectSubmit, FinishedSubmit
    <2>2. CASE LaunchRun
      BY <2>2 DEF NeedRemembered, LaunchRun, Take
    <2>3. CASE LaunchSubmit
      BY <2>3, CommandFacts DEF NeedRemembered, LaunchSubmit, Take
    <2>4. CASE Spawned
      <3>1. UNCHANGED <<pending_run, call>> /\ pc = "spawn"
        BY <2>4 DEF Spawned
      <3>2. CASE SpawnRun
        BY <3>2, Zenon DEF SpawnRun, NeedRemembered
      <3>3. CASE SpawnSubmit
        <4>1. UNCHANGED unserved /\ call.command = SUBMIT
          BY <3>3 DEF SpawnSubmit
        <4>2. unserved => pending_run
          BY <4>1, CommandFacts, Zenon DEF NeedRemembered
        <4> QED
          BY <3>1, <4>1, <4>2, Zenon DEF NeedRemembered
      <3> QED
        BY <2>4, <3>2, <3>3 DEF Spawned
    <2>5. CASE SpawnFailed
      BY <2>5 DEF NeedRemembered, SpawnFailed, StillPending
    <2>6. CASE /\ UNCHANGED <<unserved, pending_run, call>>
               /\ pc # "spawn" \/ pc' = pc
      BY <2>6 DEF NeedRemembered
    <2>7. \/ \E r \in Results : CollectSubmit(r)
          \/ LaunchRun \/ LaunchSubmit \/ Spawned \/ SpawnFailed
          \/ /\ UNCHANGED <<unserved, pending_run, call>>
             /\ pc # "spawn" \/ pc' = pc
      BY DEF Next, Worker, vars, HostInit, Submit, ReadClock, CollectRun, FinishedRun,
             Collected, CollectOther, CollectNothing, CollectWaitFault, GiveUpRun,
             GiveUpSubmit, LaunchNothing, Poll, Exit, Tick, SlotInv, OffBeforeInit
    <2> QED
      BY <2>1, <2>2, <2>3, <2>4, <2>5, <2>6, <2>7, Zenon
  <1>2. NoneBeforeInit'
    <2>1. CASE Spawned \/ SpawnFailed
      <3>1. instance
        BY <2>1 DEF Spawned, SpawnFailed, SlotInv, OffBeforeInit
      <3>2. instance' = instance
        BY <2>1 DEF Spawned, SpawnFailed
      <3> QED
        BY <3>1, <3>2, Zenon DEF NoneBeforeInit
    <2>2. CASE attempts' = attempts /\ (instance' = instance \/ instance')
      <3>1. ~instance' => ~instance
        BY <2>2, Zenon
      <3> QED
        BY <2>2, <3>1, Zenon DEF NoneBeforeInit
    <2>3. \/ Spawned \/ SpawnFailed
          \/ attempts' = attempts /\ (instance' = instance \/ instance')
      BY DEF Next, Worker, vars, HostInit, Submit, ReadClock, CollectRun, CollectSubmit,
             FinishedRun, FinishedSubmit, Collected, CollectOther, CollectNothing,
             CollectWaitFault, LaunchRun, LaunchSubmit, Take, GiveUpRun, GiveUpSubmit,
             LaunchNothing, Poll, Exit, Tick
    <2> QED
      BY <2>1, <2>2, <2>3, Zenon
  <1> QED
    BY <1>1, <1>2

LEMMA NextBudgetInv == BudgetInv /\ [Next]_vars => BudgetInv'
  BY NextSlotInv, NextAllPaid, NextNeedRemembered, Zenon DEF BudgetInv

(* Every attempt beyond those that are due once is taken from the one      *)
(* budget, whatever fails or succeeds in between.                          *)
THEOREM RetriesAreBudgeted == Spec => []AttemptsPaid
  <1>1. ASSUME BudgetInv PROVE AttemptsPaid
    <2>1. /\ attempts \in Nat /\ needs \in Nat /\ retries_used \in Nat
          /\ Tried \in Int /\ Starting \in {0, 1} /\ Owed \in {0, 1}
      BY <1>1, Numbers DEF BudgetInv, SlotInv
    <2>2. retries_used <= RetryLimit
      BY <1>1 DEF BudgetInv, AllPaid
    <2>3. attempts + Starting <= 1 + needs + Tried + retries_used
      BY <1>1, <2>1 DEF BudgetInv, AllPaid, Paid
    <2> QED
      BY <2>2, <2>3 DEF AttemptsPaid, Tried, Starting
  <1> QED
    BY <1>1, InitBudgetInv, NextBudgetInv, PTL DEF Spec

(* A requirement stays recorded until a run process that began after it.   *)
THEOREM NeedStaysRecorded == Spec => []NeedRemembered
  <1>1. BudgetInv => NeedRemembered
    BY DEF BudgetInv
  <1> QED
    BY <1>1, InitBudgetInv, NextBudgetInv, PTL DEF Spec

-----------------------------------------------------------------------------
(***************************************************************************)
(* Action properties.                                                      *)
(***************************************************************************)
FaultShared == clock_failed \/ pc = "stopped" => runtime_error

DeadInv == SlotInv /\ FaultShared

LEMMA NextFaultShared == SlotInv /\ FaultShared /\ [Next]_vars => FaultShared'
  <1> SUFFICES ASSUME SlotInv, FaultShared, [Next]_vars PROVE FaultShared'
    OBVIOUS
  <1>1. CASE UNCHANGED <<clock_failed, runtime_error>> /\ (pc' # "stopped" \/ pc' = pc)
    <2>1. clock_failed' \/ pc' = "stopped" => clock_failed \/ pc = "stopped"
      BY <1>1, Zenon
    <2> QED
      BY <1>1, <2>1, Zenon DEF FaultShared
  <1>2. CASE runtime_error'
    BY <1>2, Zenon DEF FaultShared
  <1>3. \/ UNCHANGED <<clock_failed, runtime_error>> /\ (pc' # "stopped" \/ pc' = pc)
        \/ runtime_error'
    BY DEF Next, Worker, vars, HostInit, Submit, ReadClock, ClockFails, ClockWorks,
           CollectRun, CollectSubmit, Collected, CollectOther, CollectNothing,
           CollectWaitFault, AfterCollect, LaunchRun, LaunchSubmit, Take, GiveUpRun,
           GiveUpSubmit, LaunchNothing, NextLaunch, Spawned, SpawnFailed, Poll, Exit, Tick
  <1> QED
    BY <1>1, <1>2, <1>3, Zenon

(* A host whose clock or poll failed accepts nothing more.                 *)
THEOREM DeadHostRefuses == Spec => DeadWorkerRefuses
  <1>1. Init => DeadInv
    <2> SUFFICES ASSUME Init PROVE DeadInv
      OBVIOUS
    <2>1. ~clock_failed /\ pc # "stopped"
      BY DEF Init
    <2> QED
      BY <2>1, InitSlotInv, Zenon DEF DeadInv, FaultShared
  <1>2. DeadInv /\ [Next]_vars => DeadInv'
    BY NextSlotInv, NextFaultShared, Zenon DEF DeadInv
  <1>3. ASSUME DeadInv, [Next]_vars
        PROVE  [clock_failed \/ pc = "stopped" => accepted' = accepted]_vars
    <2>1. CASE \E p \in Paths : Submit(p)
      <3>1. ~runtime_error
        BY <2>1 DEF Submit
      <3> QED
        BY <3>1, <1>3, Zenon DEF DeadInv, FaultShared
    <2>2. CASE accepted' = accepted
      BY <2>2, Zenon
    <2>3. (\E p \in Paths : Submit(p)) \/ accepted' = accepted
      BY <1>3 DEF Next, Worker, vars, history, HostInit, ReadClock, CollectRun,
             CollectSubmit, Collected, CollectOther, CollectNothing, CollectWaitFault,
             LaunchRun, LaunchSubmit, Take, GiveUpRun, GiveUpSubmit, LaunchNothing,
             Spawned, SpawnFailed, Poll, Exit, Tick
    <2> QED
      BY <2>1, <2>2, <2>3, Zenon
  <1> QED
    BY <1>1, <1>2, <1>3, PTL DEF Spec, DeadWorkerRefuses

SampleIsPast == now <= clock

LEMMA NextSampleIsPast == TypeOK /\ SampleIsPast /\ [Next]_vars => SampleIsPast'
  <1> SUFFICES ASSUME TypeOK, SampleIsPast, [Next]_vars PROVE SampleIsPast'
    OBVIOUS
  <1>0. now \in Nat /\ clock \in Nat
    BY DEF TypeOK
  <1>1. CASE now' \in {now, clock, 0} /\ clock' \in {clock, clock + 1}
    BY <1>0, <1>1 DEF SampleIsPast
  <1>2. now' \in {now, clock, 0} /\ clock' \in {clock, clock + 1}
    BY DEF Next, Worker, vars, HostInit, Submit, ReadClock, CollectRun, CollectSubmit,
           Collected, CollectOther, CollectNothing, CollectWaitFault, LaunchRun,
           LaunchSubmit, Take, GiveUpRun, GiveUpSubmit, LaunchNothing, Spawned,
           SpawnFailed, Poll, Exit, Tick
  <1> QED
    BY <1>1, <1>2

(* No retry begins before its wait is over, although the decision uses an  *)
(* old sample of the clock: the sample is never ahead of the clock.        *)
THEOREM RetriesWait == Spec => RetryWaits
  <1>1. Init => TypeOK /\ SampleIsPast
    BY InitTypeOK DEF Init, SampleIsPast
  <1>2. TypeOK /\ SampleIsPast /\ [Next]_vars => (TypeOK /\ SampleIsPast)'
    BY NextTypeOK, NextSampleIsPast, Zenon
  <1>3. ASSUME TypeOK, SampleIsPast, [Next]_vars
        PROVE  [retries_used' # retries_used => clock >= due[call'.command]]_vars
    <2>1. ASSUME NEW c \in Commands, NEW judged, NEW id, Take(c, judged, id),
                 retries_used' # retries_used
          PROVE  clock >= due[call'.command]
      <3>1. now \in Nat /\ clock \in Nat /\ due[c] \in Nat
        BY <1>3 DEF TypeOK
      <3>2. call'.command = c
        BY <2>1 DEF Take
      <3>3. judged = "WAIT" /\ now >= due[c]
        BY <2>1 DEF Take, RetryDue, Elapsed
      <3> QED
        BY <1>3, <3>1, <3>2, <3>3 DEF SampleIsPast
    <2>2. LaunchRun \/ LaunchSubmit \/ retries_used' = retries_used
      BY <1>3 DEF Next, Worker, vars, schedule, HostInit, Submit, ReadClock, CollectRun,
             CollectSubmit, FinishedRun, FinishedSubmit, CollectOther, CollectNothing,
             CollectWaitFault, GiveUpRun, GiveUpSubmit, LaunchNothing, Spawned,
             SpawnFailed, Poll, Exit, Tick
    <2> QED
      BY <2>1, <2>2, CommandFacts DEF LaunchRun, LaunchSubmit
  <1> QED
    BY <1>1, <1>2, <1>3, PTL DEF Spec, RetryWaits

-----------------------------------------------------------------------------
(* Host implements HostPromise: every step of the library is a step the    *)
(* promise allows, or none at all to a caller who knows only the promise.  *)

-----------------------------------------------------------------------------
(* The ring.                                                               *)

(* Wherever the ring is looked at, its index wraps at most once.           *)
LEMMA WrapsOnce ==
  ASSUME NEW h \in Slot, NEW n \in 0 .. Capacity
  PROVE  At(h, n) = IF h + n < Capacity THEN h + n ELSE h + n - Capacity
  <1> USE CapacityAssumption DEF Slot
  <1>1. CASE h + n < Capacity
    <2>1. (h + n) % Capacity = h + n
      BY <1>1
    <2> QED
      BY <1>1, <2>1 DEF At
  <1>2. CASE ~(h + n < Capacity)
    <2> DEFINE m == h + n - Capacity
    <2>1. m \in Nat /\ m < Capacity
      BY <1>2
    <2>2. (m + Capacity) % Capacity = m
      BY <2>1
    <2> QED
      BY <1>2, <2>2 DEF At
  <1> QED
    BY <1>1, <1>2

(* After a pop every submission is one place nearer to the front.          *)
LEMMA OnePlaceNearer ==
  ASSUME NEW h \in Slot, NEW g \in Slot, NEW j \in 0 .. Capacity, NEW i \in 0 .. Capacity,
         i = j + 1, g = At(h, 1)
  PROVE  At(g, j) = At(h, i)
  <1> USE CapacityAssumption DEF Slot
  <1>1. g = IF h + 1 < Capacity THEN h + 1 ELSE h + 1 - Capacity
    <2>1. 1 \in 0 .. Capacity
      OBVIOUS
    <2> QED
      BY <2>1, WrapsOnce
  <1>2. At(h, i) = IF h + i < Capacity THEN h + i ELSE h + i - Capacity
    BY WrapsOnce
  <1>3. At(g, j) = IF g + j < Capacity THEN g + j ELSE g + j - Capacity
    BY WrapsOnce
  <1>4. CASE h + 1 < Capacity
    <2>1. g + j = h + i
      BY <1>1, <1>4
    <2> QED
      BY <1>2, <1>3, <2>1
  <1>5. CASE ~(h + 1 < Capacity)
    <2>1. h + 1 = Capacity /\ g = 0
      BY <1>1, <1>5
    <2>2. h + i >= Capacity /\ h + i - Capacity = j
      BY <2>1
    <2>3. CASE j < Capacity
      <3>1. At(h, i) = j
        BY <1>2, <2>2
      <3>2. At(g, j) = j
        BY <1>3, <2>1, <2>3
      <3> QED
        BY <3>1, <3>2
    <2>4. CASE ~(j < Capacity)
      BY <2>4
    <2> QED
      BY <2>3, <2>4
  <1> QED
    BY <1>4, <1>5

LEMMA BacklogIs ==
  ASSUME TypeOK
  PROVE  /\ Backlog \in Seq(Item) /\ Len(Backlog) = count /\ DOMAIN Backlog = 1 .. count
         /\ \A i \in 1 .. count : Backlog[i] = items[At(head, i - 1)]
  <1>1. count \in Nat /\ \A i \in 1 .. count : i - 1 \in Int /\ head \in Nat
    BY CapacityAssumption DEF TypeOK, Slot
  <1>2. \A i \in 1 .. count : items[At(head, i - 1)] \in Item
    BY <1>1, AtIsSlot DEF TypeOK
  <1> QED
    BY <1>1, <1>2 DEF Backlog

(* A push writes a slot no waiting submission is in: the backlog grows at  *)
(* its end.                                                                *)
LEMMA PushAppends ==
  ASSUME TypeOK, TypeOK', count < Capacity, NEW x \in Item, head' = head,
         count' = count + 1, items' = [items EXCEPT ![At(head, count)] = x]
  PROVE  Backlog' = Append(Backlog, x)
  <1>1. /\ Len(Backlog) = count /\ Backlog \in Seq(Item)
        /\ \A i \in 1 .. count : Backlog[i] = items[At(head, i - 1)]
    BY BacklogIs
  <1>2. Backlog' = [i \in 1 .. count + 1 |-> items'[At(head, i - 1)]]
    BY DEF Backlog
  <1>3. head \in Slot /\ count \in 0 .. Capacity /\ head \in Nat /\ Capacity \in Nat
    BY CapacityAssumption DEF TypeOK, Slot
  <1>4. At(head, count) \in DOMAIN items
    BY <1>3, AtIsSlot DEF TypeOK
  <1>5. items'[At(head, count)] = x
    BY <1>4
  <1>6. ASSUME NEW i \in 1 .. count PROVE items'[At(head, i - 1)] = Backlog[i]
    <2>1. i - 1 \in 0 .. Capacity /\ i - 1 < count
      BY <1>3
    <2>2. At(head, i - 1) # At(head, count)
      BY <1>3, <2>1, WrapsOnce
    <2>3. At(head, i - 1) \in DOMAIN items
      BY <1>3, <2>1, AtIsSlot DEF TypeOK
    <2>4. \A a \in DOMAIN items : a # At(head, count) => items'[a] = items[a]
      OBVIOUS
    <2> QED
      BY <1>1, <2>2, <2>3, <2>4
  <1>7. Append(Backlog, x) \in Seq(Item) /\ Len(Append(Backlog, x)) = count + 1
    BY <1>1
  <1>8. \A i \in 1 .. count + 1 : Append(Backlog, x)[i] = IF i = count + 1 THEN x ELSE Backlog[i]
    BY <1>1, <1>3
  <1>9. \A i \in 1 .. count + 1 : items'[At(head, i - 1)] = Append(Backlog, x)[i]
    <2> SUFFICES ASSUME NEW i \in 1 .. count + 1
                 PROVE  items'[At(head, i - 1)] = Append(Backlog, x)[i]
      OBVIOUS
    <2>1. CASE i = count + 1
      <3>1. i - 1 = count
        BY <1>3, <2>1
      <3> QED
        BY <1>5, <1>8, <2>1, <3>1
    <2>2. CASE i # count + 1
      <3>1. i \in 1 .. count
        BY <1>3, <2>2
      <3> QED
        BY <1>6, <1>8, <2>2, <3>1
    <2> QED
      BY <2>1, <2>2
  <1>10. \A i \in 1 .. count + 1 : items'[At(head, i - 1)] \in Item
    BY <1>7, <1>9
  <1>11. Backlog' \in Seq(Item) /\ Len(Backlog') = count + 1
    BY <1>2, <1>3, <1>10
  <1>12. \A i \in 1 .. count + 1 : Backlog'[i] = Append(Backlog, x)[i]
    BY <1>2, <1>9
  <1> QED
    BY <1>7, <1>11, <1>12, SeqEqual

(* A pop takes the front and leaves the order of the others.               *)
LEMMA PopTakesFront ==
  ASSUME TypeOK, TypeOK', host_inputs_pop
  PROVE  Backlog # <<>> /\ Backlog' = Tail(Backlog)
  <1>1. /\ Len(Backlog) = count /\ Backlog \in Seq(Item)
        /\ \A i \in 1 .. count : Backlog[i] = items[At(head, i - 1)]
    BY BacklogIs
  <1>2. count > 0 /\ head' = At(head, 1) /\ count' = count - 1 /\ items' = items
    BY DEF host_inputs_pop
  <1>3. head \in Slot /\ count \in 0 .. Capacity /\ head \in Nat /\ Capacity \in Nat \ {0}
    BY CapacityAssumption DEF TypeOK, Slot
  <1>4. head' \in Slot
    BY DEF TypeOK
  <1>5. ASSUME NEW i \in 1 .. count - 1 PROVE At(head', i - 1) = At(head, i)
    <2>1. i - 1 \in 0 .. Capacity /\ i \in 0 .. Capacity /\ i = (i - 1) + 1
      BY <1>3
    <2> QED
      BY <1>2, <1>3, <1>4, <2>1, OnePlaceNearer
  <1>6. Backlog' = [i \in 1 .. count - 1 |-> items[At(head', i - 1)]]
    BY <1>2 DEF Backlog
  <1>7. Tail(Backlog) \in Seq(Item) /\ Len(Tail(Backlog)) = count - 1 /\ Backlog # <<>>
    BY <1>1, <1>2
  <1>8. \A i \in 1 .. count - 1 : Tail(Backlog)[i] = Backlog[i + 1]
    BY <1>1, <1>2, <1>3
  <1>9. \A i \in 1 .. count - 1 : items[At(head', i - 1)] = Tail(Backlog)[i]
    <2> SUFFICES ASSUME NEW i \in 1 .. count - 1
                 PROVE  items[At(head', i - 1)] = Tail(Backlog)[i]
      OBVIOUS
    <2>1. i + 1 \in 1 .. count /\ (i + 1) - 1 = i
      BY <1>3
    <2>2. Backlog[i + 1] = items[At(head, i)]
      BY <1>1, <2>1
    <2> QED
      BY <1>5, <1>8, <2>2
  <1>10. \A i \in 1 .. count - 1 : items[At(head', i - 1)] \in Item
    BY <1>7, <1>9
  <1>11. Backlog' \in Seq(Item) /\ Len(Backlog') = count - 1
    BY <1>2, <1>3, <1>6, <1>10
  <1>12. \A i \in 1 .. count - 1 : Backlog'[i] = Tail(Backlog)[i]
    BY <1>6, <1>9
  <1> QED
    BY <1>7, <1>11, <1>12, SeqEqual

(* The front of the backlog is the front slot of the ring.                 *)
LEMMA FrontIsFirst ==
  ASSUME TypeOK, count > 0
  PROVE  Head(Backlog) = Front
  <1>1. Len(Backlog) = count /\ Backlog \in Seq(Item) /\ Backlog[1] = items[At(head, 0)]
    BY BacklogIs DEF TypeOK
  <1>2. head \in Slot /\ 0 \in 0 .. Capacity /\ head < Capacity /\ head \in Nat
    BY CapacityAssumption DEF TypeOK, Slot
  <1>3. At(head, 0) = head
    BY <1>2, WrapsOnce
  <1> QED
    BY <1>1, <1>3 DEF Front

-----------------------------------------------------------------------------
(* A submission that is being dealt with is in the ring, and the submit    *)
(* job goes from idle to its start in one step, so it is never NORMAL.     *)
FrontInv ==
    /\ phase[SUBMIT] # "NORMAL"
    /\ phase[SUBMIT] # "IDLE" => count > 0
    /\ retries_used <= RetryLimit

PromiseInv == PlanInv /\ FrontInv

LEMMA NextFrontInv == SlotInv /\ FrontInv /\ [Next]_vars => FrontInv'
  <1> SUFFICES ASSUME SlotInv, FrontInv, [Next]_vars PROVE FrontInv'
    OBVIOUS
  <1>0. TypeOK /\ TypeOK'
    BY NextTypeOK DEF SlotInv
  <1>1. RetryLimit \in Nat /\ retries_used \in Nat /\ count \in Nat /\ phase \in [Commands -> Phases]
    BY <1>0, RetryAssumption DEF TypeOK
  <1> USE CommandFacts DEF inputs, schedule, history, FrontInv
  <1>2. ASSUME NEW c \in Commands, NEW judged, NEW id, Take(c, judged, id), UNCHANGED inputs,
               c = SUBMIT => count > 0
        PROVE  FrontInv'
    <2>1. phase' = [phase EXCEPT ![c] = "STARTING"] /\ count' = count
      BY <1>2 DEF Take
    <2>2. retries_used' <= RetryLimit
      BY <1>1, <1>2 DEF Take, RetryDue
    <2>3. phase'[SUBMIT] = "STARTING" \/ (c = RUN /\ phase'[SUBMIT] = phase[SUBMIT])
      BY <1>1, <2>1
    <2> QED
      BY <1>2, <2>1, <2>2, <2>3
  <1>3. CASE LaunchRun
    <2>1. Take(RUN, Effective(RUN), next_id) /\ UNCHANGED inputs
      BY <1>3 DEF LaunchRun, Take
    <2> QED
      BY <1>2, <2>1
  <1>4. CASE LaunchSubmit
    <2>1. Take(SUBMIT, JudgedSubmit, Front.id) /\ UNCHANGED inputs /\ count > 0
      BY <1>4 DEF LaunchSubmit, Take
    <2> QED
      BY <1>2, <2>1
  <1>5. CASE \E r \in Results : CollectSubmit(r)
    BY <1>1, <1>5 DEF CollectSubmit, FinishedSubmit
  <1>6. CASE GiveUpSubmit
    BY <1>1, <1>6 DEF GiveUpSubmit
  <1>7. CASE \E p \in Paths : Submit(p)
    BY <1>1, <1>7 DEF Submit, host_inputs_push
  <1>8. CASE \E p \in Paths \cup {NoPath} : HostInit(p)
    BY <1>1, <1>8 DEF HostInit
  <1>9. CASE \E r \in Results : CollectRun(r)
    BY <1>1, <1>9 DEF CollectRun, FinishedRun, Collected
  <1>10. CASE GiveUpRun
    BY <1>1, <1>10 DEF GiveUpRun
  <1>11. CASE Spawned \/ SpawnFailed
    <2>1. phase[call.command] = "STARTING" /\ call.command \in Commands
      BY <1>0, <1>11 DEF Spawned, SpawnFailed, SlotInv, StartingIsSpawning, TypeOK, Call
    <2>2. \E ph \in {"ACTIVE", "WAIT"} : phase' = [phase EXCEPT ![call.command] = ph]
      BY <1>11 DEF Spawned, SpawnFailed
    <2>3. UNCHANGED <<count, retries_used>>
      BY <1>11 DEF Spawned, SpawnFailed
    <2> QED
      BY <1>1, <2>1, <2>2, <2>3
  <1>12. CASE UNCHANGED <<phase, count, retries_used>>
    BY <1>12
  <1> QED
    BY <1>3, <1>4, <1>5, <1>6, <1>7, <1>8, <1>9, <1>10, <1>11, <1>12
       DEF Next, Worker, vars, ReadClock, CollectOther, CollectNothing, CollectWaitFault,
           LaunchNothing, Poll, Exit, Tick

LEMMA InitPromiseInv == Init => PromiseInv
  <1> SUFFICES ASSUME Init PROVE PromiseInv
    OBVIOUS
  <1>1. PlanInv
    BY InitSlotInv DEF Init, PlanInv, PlanKept, FirstPlanOnce
  <1>2. FrontInv
    BY CommandFacts, RetryAssumption DEF Init, FrontInv
  <1> QED
    BY <1>1, <1>2 DEF PromiseInv

LEMMA NextPromiseInv == PromiseInv /\ [Next]_vars => PromiseInv'
  BY NextPlanInv, NextFrontInv DEF PromiseInv, PlanInv

-----------------------------------------------------------------------------
(* What a caller who knows only the promise sees of a state.               *)
Turn == IF pc = "spawn" THEN call.command ELSE "none"

Seen == <<instance, Backlog, FrontState, Turn, child[RUN].pid, Wanted, paths5,
          RetryLimit - retries_used, handed, runs>>

LEMMA SameBacklog == UNCHANGED inputs => Backlog' = Backlog
  BY DEF inputs, Backlog

LEMMA SameFront == phase'[SUBMIT] = phase[SUBMIT] => FrontState' = FrontState
  BY DEF FrontState

LEMMA SeenIsPromise == UNCHANGED Seen => UNCHANGED Promise!vars
  BY DEF Seen, Promise!vars, Turn, Wanted

(* host_inputs_push accepts a submission at the end of the backlog.        *)
LEMMA SubmitAccepts ==
  ASSUME TypeOK, TypeOK', NEW p \in Paths, Submit(p)
  PROVE  Promise!Accept
  <1> USE DEF Submit, host_inputs_push, QueueFull, schedule
  <1>1. count < Capacity /\ count \in Nat
    BY CapacityAssumption DEF TypeOK
  <1>2. [path |-> p, id |-> next_id] \in Item
    BY DEF TypeOK, Item
  <1>3. Backlog' = Append(Backlog, [path |-> p, id |-> next_id])
    BY <1>1, <1>2, PushAppends
  <1>4. Backlog \in Seq(Item) /\ Len(Backlog) = count
    BY BacklogIs
  <1>5. /\ Len(Backlog') = Len(Backlog) + 1
        /\ Backlog'[Len(Backlog')] = [path |-> p, id |-> next_id]
    BY <1>1, <1>2, <1>3, <1>4
  <1>6. [path |-> p, id |-> next_id] \in [path : Paths, id : Nat]
    BY DEF TypeOK
  <1>7. /\ instance /\ instance' = instance /\ paths5' = paths5 /\ handed' = handed
        /\ runs' = runs /\ child' = child /\ pc' = pc /\ call' = call
        /\ phase' = phase /\ fresh_run' = fresh_run /\ retries_used' = retries_used
    OBVIOUS
  <1>8. FrontState' = FrontState
    BY <1>7, SameFront
  <1> QED
    BY <1>1, <1>3, <1>4, <1>5, <1>6, <1>7, <1>8 DEF Promise!Accept

(* camctl_host_init keeps the first plan and owes one run.                 *)
LEMMA InitStarts ==
  ASSUME PromiseInv, NEW p \in Paths \cup {NoPath}, HostInit(p)
  PROVE  Promise!Start(p)
  <1> USE CommandFacts DEF HostInit
  <1>1. TypeOK /\ pc # "spawn"
    BY DEF PromiseInv, PlanInv, SlotInv, OffBeforeInit
  <1>2. Backlog' = Backlog /\ FrontState' = FrontState
    <2>1. phase'[SUBMIT] = phase[SUBMIT]
      BY <1>1 DEF TypeOK
    <2> QED
      BY <2>1, SameBacklog, SameFront
  <1>3. phase'[RUN] = "NORMAL"
    BY <1>1 DEF TypeOK
  <1> QED
    BY <1>1, <1>2, <1>3 DEF Promise!Start

(* A run begins because one is owed, or is paid from the budget.           *)
LEMMA LaunchRunBegins ==
  ASSUME PromiseInv, LaunchRun
  PROVE  Promise!BeginRun
  <1> USE CommandFacts
  <1>1. TypeOK /\ SlotInv /\ retries_used \in Nat /\ RetryLimit \in Nat
    BY RetryAssumption DEF PromiseInv, PlanInv, SlotInv, TypeOK
  <1>2. /\ pc = "launchRun" /\ pc' = "spawn" /\ call'.command = RUN
        /\ fresh_run' = FALSE /\ phase' = [phase EXCEPT ![RUN] = "STARTING"]
        /\ UNCHANGED <<inputs, instance, child, paths5, handed, runs>>
    BY DEF LaunchRun, Take, history
  <1>3. Backlog' = Backlog /\ FrontState' = FrontState
    <2>1. phase'[SUBMIT] = phase[SUBMIT]
      BY <1>1, <1>2 DEF TypeOK
    <2> QED
      BY <1>2, <2>1, SameBacklog, SameFront
  <1>4. phase[RUN] \notin {"ACTIVE", "STARTING"}
    BY <1>1, JudgedIsFree DEF LaunchRun, Take, RetryDue
  <1>5. ~child[RUN].pid
    BY <1>1, <1>4 DEF SlotInv, ActiveIsTaken
  <1>6. ~Wanted'
    BY <1>1, <1>2 DEF Wanted, TypeOK
  <1>7. \/ Wanted /\ retries_used' = retries_used
        \/ ~Wanted /\ retries_used < RetryLimit /\ retries_used' = retries_used + 1
    <2>1. CASE Effective(RUN) = "NORMAL"
      <3>1. retries_used' = retries_used
        BY <2>1 DEF LaunchRun, Take
      <3>2. Wanted
        BY <2>1 DEF Effective, Wanted
      <3> QED
        BY <3>1, <3>2
    <2>2. CASE Effective(RUN) = "WAIT"
      <3>1. retries_used < RetryLimit /\ retries_used' = retries_used + 1
        BY <2>2 DEF LaunchRun, Take, RetryDue
      <3>2. ~fresh_run /\ phase[RUN] = "WAIT"
        BY <1>4, <2>2 DEF Effective, Busy
      <3>3. ~Wanted
        BY <3>2 DEF Wanted
      <3> QED
        BY <3>1, <3>3
    <2> QED
      BY <2>1, <2>2 DEF LaunchRun, Take, RetryDue
  <1>8. \/ RetryLimit - retries_used' = RetryLimit - retries_used /\ Wanted
        \/ /\ ~Wanted /\ RetryLimit - retries_used > 0
           /\ RetryLimit - retries_used' = RetryLimit - retries_used - 1
    BY <1>1, <1>7
  <1> QED
    BY <1>2, <1>3, <1>5, <1>6, <1>8 DEF Promise!BeginRun, Promise!Pay, Wanted, RUN

(* The front is tried: for the first time, or paid from the budget.        *)
LEMMA LaunchSubmitBegins ==
  ASSUME PromiseInv, LaunchSubmit
  PROVE  Promise!BeginSubmit
  <1> USE CommandFacts
  <1>1. TypeOK /\ SlotInv /\ retries_used \in Nat /\ RetryLimit \in Nat
    BY RetryAssumption DEF PromiseInv, PlanInv, SlotInv, TypeOK
  <1>2. /\ pc = "launchSubmit" /\ pc' = "spawn" /\ call'.command = SUBMIT /\ count > 0
        /\ phase' = [phase EXCEPT ![SUBMIT] = "STARTING"]
        /\ UNCHANGED <<inputs, instance, child, paths5, handed, runs, fresh_run>>
    BY DEF LaunchSubmit, Take, history
  <1>3. Backlog' = Backlog /\ Backlog # <<>>
    BY <1>1, <1>2, SameBacklog, BacklogIs
  <1>4. phase'[RUN] = phase[RUN] /\ phase'[SUBMIT] = "STARTING"
    BY <1>1, <1>2 DEF TypeOK
  <1>5. FrontState' = "tried"
    BY <1>4 DEF FrontState
  <1>6. phase[SUBMIT] # "NORMAL"
    BY DEF PromiseInv, FrontInv
  <1>7. \/ FrontState = "untried" /\ retries_used' = retries_used
        \/ FrontState = "tried" /\ retries_used < RetryLimit /\ retries_used' = retries_used + 1
    <2>1. CASE phase[SUBMIT] = "IDLE"
      BY <2>1 DEF FrontState, LaunchSubmit, Take, JudgedSubmit
    <2>2. CASE phase[SUBMIT] # "IDLE"
      <3>1. JudgedSubmit = phase[SUBMIT]
        BY <2>2 DEF JudgedSubmit
      <3>2. phase[SUBMIT] = "WAIT" /\ retries_used < RetryLimit /\ retries_used' = retries_used + 1
        BY <1>6, <3>1 DEF LaunchSubmit, Take, RetryDue
      <3> QED
        BY <3>2 DEF FrontState
    <2> QED
      BY <2>1, <2>2
  <1>8. \/ RetryLimit - retries_used' = RetryLimit - retries_used /\ FrontState = "untried"
        \/ /\ FrontState = "tried" /\ RetryLimit - retries_used > 0
           /\ RetryLimit - retries_used' = RetryLimit - retries_used - 1
    BY <1>1, <1>7
  <1> QED
    BY <1>2, <1>3, <1>4, <1>5, <1>8 DEF Promise!BeginSubmit, Promise!Pay, SUBMIT

(* A process comes to be and gets the first plan, or the front.            *)
LEMMA SpawnCreates ==
  ASSUME PromiseInv, Spawned
  PROVE  Promise!CreateRun \/ Promise!CreateSubmit
  <1> USE CommandFacts DEF history
  <1>1. TypeOK /\ SlotInv /\ call.command \in Commands
    BY DEF PromiseInv, PlanInv, SlotInv, TypeOK, Call
  <1>2. /\ pc = "spawn" /\ pc' # "spawn"
        /\ phase' = [phase EXCEPT ![call.command] = "ACTIVE"]
        /\ child' = [child EXCEPT ![call.command] =
                       [pid |-> TRUE, id |-> call.id, wait_fault |-> FALSE]]
        /\ UNCHANGED <<inputs, instance, fresh_run, retries_used, call>>
    BY DEF Spawned, NextLaunch
  <1>3. phase[call.command] = "STARTING"
    BY <1>1, <1>2 DEF SlotInv, StartingIsSpawning
  <1>4. Backlog' = Backlog
    BY <1>2, SameBacklog
  <1>5. CASE SpawnRun
    <2>1. call.command = RUN /\ handed' = handed /\ paths5' = NoPath
      BY <1>5 DEF SpawnRun
    <2>2. runs' = Append(runs, paths5)
      BY <1>5, Zenon DEF SpawnRun, PromiseInv, PlanInv, PlanKept
    <2>3. phase'[SUBMIT] = phase[SUBMIT] /\ phase'[RUN] = "ACTIVE" /\ child'[RUN].pid = TRUE
      BY <1>1, <1>2, <2>1 DEF TypeOK
    <2>4. FrontState' = FrontState
      BY <2>3, SameFront
    <2>5. phase[RUN] = "STARTING"
      BY <1>3, <2>1
    <2>6. Promise!CreateRun
      BY <1>2, <1>4, <2>1, <2>2, <2>3, <2>4, <2>5 DEF Promise!CreateRun, RUN
    <2> QED
      BY <2>6
  <1>6. CASE SpawnSubmit
    <2>1. call.command = SUBMIT /\ handed' = Append(handed, Front) /\ UNCHANGED <<runs, paths5>>
      BY <1>6 DEF SpawnSubmit
    <2>2. count > 0
      BY <1>3, <2>1 DEF PromiseInv, FrontInv
    <2>3. handed' = Append(handed, Head(Backlog))
      BY <1>1, <2>1, <2>2, FrontIsFirst
    <2>4. phase'[RUN] = phase[RUN] /\ phase'[SUBMIT] = "ACTIVE" /\ child'[RUN] = child[RUN]
      BY <1>1, <1>2, <2>1 DEF TypeOK
    <2>5. FrontState' = "inHand"
      BY <2>4 DEF FrontState
    <2>6. Promise!CreateSubmit
      BY <1>2, <1>4, <2>1, <2>3, <2>4, <2>5 DEF Promise!CreateSubmit, SUBMIT
    <2> QED
      BY <2>6
  <1> QED
    BY <1>5, <1>6 DEF Spawned

(* No process: the front stays tried, what was paid stays paid.            *)
LEMMA SpawnFailureIsSeen ==
  ASSUME PromiseInv, SpawnFailed
  PROVE  Promise!FailToCreate
  <1> USE CommandFacts DEF history
  <1>1. TypeOK /\ SlotInv /\ call.command \in Commands
    BY DEF PromiseInv, PlanInv, SlotInv, TypeOK, Call
  <1>2. /\ pc = "spawn" /\ pc' # "spawn"
        /\ phase' = [phase EXCEPT ![call.command] = "WAIT"]
        /\ child' = [child EXCEPT ![call.command].id = call.id]
        /\ UNCHANGED <<inputs, instance, fresh_run, retries_used, paths5, handed, runs, call>>
    BY DEF SpawnFailed, NextLaunch
  <1>3. phase[call.command] = "STARTING"
    BY <1>1, <1>2 DEF SlotInv, StartingIsSpawning
  <1>4. Backlog' = Backlog
    BY <1>2, SameBacklog
  <1>5. FrontState' = FrontState
    <2>1. CASE call.command = SUBMIT
      <3>1. phase'[SUBMIT] = "WAIT" /\ phase[SUBMIT] = "STARTING"
        BY <1>1, <1>2, <1>3, <2>1 DEF TypeOK
      <3> QED
        BY <3>1 DEF FrontState
    <2>2. CASE call.command = RUN
      <3>1. phase'[SUBMIT] = phase[SUBMIT]
        BY <1>1, <1>2, <2>2 DEF TypeOK
      <3> QED
        BY <3>1, SameFront
    <2> QED
      BY <1>1, <2>1, <2>2
  <1>6. phase'[RUN] = "NORMAL" <=> phase[RUN] = "NORMAL"
    BY <1>1, <1>2, <1>3 DEF TypeOK
  <1>7. child'[RUN].pid = child[RUN].pid
    BY <1>1, <1>2 DEF TypeOK, Child
  <1>8. call.command # "none"
    BY <1>1 DEF RUN, SUBMIT
  <1> QED
    BY <1>2, <1>4, <1>5, <1>6, <1>7, <1>8 DEF Promise!FailToCreate

(* A collected run has ended, whatever it answered.                        *)
LEMMA CollectedRunEnds ==
  ASSUME PromiseInv, NEW r, CollectRun(r)
  PROVE  Promise!EndRun
  <1> USE CommandFacts
  <1>1. TypeOK /\ SlotInv
    BY DEF PromiseInv, PlanInv, SlotInv
  <1>2. /\ pc # "spawn" /\ pc' # "spawn" /\ child[RUN].pid
        /\ child' = [child EXCEPT ![RUN].pid = FALSE]
        /\ phase' = [phase EXCEPT ![RUN] = IF r = "abnormal" THEN "WAIT" ELSE "IDLE"]
        /\ UNCHANGED <<inputs, instance, fresh_run, retries_used, paths5, handed, runs>>
    BY DEF CollectRun, Collected, FinishedRun, AfterCollect
  <1>3. phase[RUN] = "ACTIVE"
    BY <1>1, <1>2 DEF SlotInv, ActiveIsTaken
  <1>4. phase'[SUBMIT] = phase[SUBMIT] /\ phase'[RUN] # "NORMAL" /\ child'[RUN].pid = FALSE
    BY <1>1, <1>2 DEF TypeOK, Child
  <1>5. Backlog' = Backlog /\ FrontState' = FrontState
    BY <1>2, <1>4, SameBacklog, SameFront
  <1> QED
    BY <1>2, <1>3, <1>4, <1>5 DEF Promise!EndRun

(* The front leaves with its answer.                                       *)
LEMMA CollectedSubmitSettles ==
  ASSUME PromiseInv, TypeOK', NEW r \in Results, CollectSubmit(r)
  PROVE  \E needed \in BOOLEAN : Promise!Settle(needed)
  <1> USE CommandFacts DEF history
  <1>1. TypeOK /\ SlotInv
    BY DEF PromiseInv, PlanInv, SlotInv
  <1>2. /\ pc # "spawn" /\ pc' # "spawn" /\ child[SUBMIT].pid
        /\ child' = [child EXCEPT ![SUBMIT].pid = FALSE]
        /\ phase' = [phase EXCEPT ![SUBMIT] = "IDLE"]
        /\ host_inputs_pop
        /\ UNCHANGED <<instance, retries_used, paths5, handed, runs>>
    BY DEF CollectSubmit, Collected, FinishedSubmit, AfterCollect
  <1>3. fresh_run' = (fresh_run \/ r = "needs_run")
    BY DEF CollectSubmit, FinishedSubmit
  <1>4. phase[SUBMIT] = "ACTIVE"
    BY <1>1, <1>2 DEF SlotInv, ActiveIsTaken
  <1>5. FrontState = "inHand"
    BY <1>4 DEF FrontState
  <1>6. phase'[RUN] = phase[RUN] /\ phase'[SUBMIT] = "IDLE" /\ child'[RUN].pid = child[RUN].pid
    BY <1>1, <1>2 DEF TypeOK, Child
  <1>7. FrontState' = "untried"
    BY <1>6 DEF FrontState
  <1>8. Backlog # <<>> /\ Backlog' = Tail(Backlog)
    BY <1>1, <1>2, PopTakesFront
  <1> DEFINE needed == r = "needs_run"
  <1>9. needed \in BOOLEAN
    OBVIOUS
  <1>10. (fresh_run' \/ phase'[RUN] = "NORMAL") = ((fresh_run \/ phase[RUN] = "NORMAL") \/ needed)
    BY <1>3, <1>6
  <1>11. Promise!Settle(needed)
    BY <1>2, <1>5, <1>6, <1>7, <1>8, <1>10 DEF Promise!Settle
  <1> QED
    BY <1>9, <1>11

(* The front leaves without a process only when the budget is spent.       *)
LEMMA GivenUpSettles ==
  ASSUME PromiseInv, TypeOK', GiveUpSubmit
  PROVE  Promise!Settle(FALSE)
  <1> USE CommandFacts
  <1>1. TypeOK /\ retries_used <= RetryLimit /\ retries_used \in Nat /\ RetryLimit \in Nat
    BY RetryAssumption DEF PromiseInv, FrontInv, PlanInv, SlotInv, TypeOK
  <1>2. /\ pc # "spawn" /\ pc' # "spawn" /\ phase[SUBMIT] = "WAIT" /\ retries_used >= RetryLimit
        /\ phase' = [phase EXCEPT ![SUBMIT] = "IDLE"] /\ host_inputs_pop
        /\ UNCHANGED <<instance, fresh_run, retries_used, paths5, handed, runs, child>>
    BY DEF GiveUpSubmit, Exhausted
  <1>3. phase'[RUN] = phase[RUN] /\ phase'[SUBMIT] = "IDLE"
    BY <1>1, <1>2 DEF TypeOK
  <1>4. FrontState = "tried" /\ FrontState' = "untried"
    BY <1>2, <1>3 DEF FrontState
  <1>5. RetryLimit - retries_used = 0
    BY <1>1, <1>2
  <1>6. Backlog # <<>> /\ Backlog' = Tail(Backlog)
    BY <1>1, <1>2, PopTakesFront
  <1> QED
    BY <1>2, <1>3, <1>4, <1>5, <1>6 DEF Promise!Settle

(* Looking at clock and slots, waiting, an exit nobody has collected and a *)
(* run that is given up show a caller nothing.                             *)
LEMMA HiddenSteps ==
  ASSUME PromiseInv, ReadClock \/ CollectOther \/ GiveUpRun \/ LaunchNothing \/ Poll
                     \/ (\E c \in Commands : Exit(c)) \/ Tick \/ UNCHANGED vars
  PROVE  UNCHANGED Seen
  <1> USE CommandFacts DEF schedule, history, vars
  <1>1. TypeOK
    BY DEF PromiseInv, PlanInv, SlotInv
  <1>2. UNCHANGED <<inputs, instance, fresh_run, retries_used, paths5, handed, runs, call>>
    BY DEF ReadClock, CollectOther, CollectNothing, CollectWaitFault, GiveUpRun, LaunchNothing,
           Poll, Exit, Tick
  <1>3. Turn' = Turn
    <2>1. pc' = pc \/ (pc # "spawn" /\ pc' # "spawn")
      BY DEF ReadClock, CollectOther, CollectNothing, CollectWaitFault, AfterCollect, GiveUpRun,
             LaunchNothing, NextLaunch, Poll, Exit, Tick
    <2> QED
      BY <1>2, <2>1 DEF Turn
  <1>4. child'[RUN].pid = child[RUN].pid
    <2>1. CASE CollectOther
      <3>1. child' = child \/ \E c \in Commands : child' = [child EXCEPT ![c].wait_fault = TRUE]
        BY <2>1 DEF CollectOther, CollectNothing, CollectWaitFault
      <3>2. ASSUME NEW c \in Commands, child' = [child EXCEPT ![c].wait_fault = TRUE]
            PROVE  child'[RUN].pid = child[RUN].pid
        <4>1. child \in [Commands -> Child] /\ child[RUN] \in Child
          BY <1>1 DEF TypeOK
        <4>2. child'[RUN] = IF c = RUN THEN [child[RUN] EXCEPT !.wait_fault = TRUE] ELSE child[RUN]
          BY <3>2, <4>1
        <4> QED
          BY <4>1, <4>2 DEF Child
      <3> QED
        BY <3>1, <3>2
    <2>2. CASE child' = child
      BY <2>2
    <2> QED
      BY <2>1, <2>2 DEF ReadClock, GiveUpRun, LaunchNothing, Poll, Exit, Tick
  <1>5. phase'[SUBMIT] = phase[SUBMIT] /\ (Wanted' <=> Wanted)
    <2>1. CASE GiveUpRun
      <3>1. phase' = [phase EXCEPT ![RUN] = "IDLE"] /\ Effective(RUN) = "WAIT"
        BY <2>1 DEF GiveUpRun, Exhausted
      <3>2. phase[RUN] = "WAIT"
        BY <3>1 DEF Effective
      <3>3. phase'[SUBMIT] = phase[SUBMIT] /\ phase'[RUN] = "IDLE"
        BY <1>1, <3>1 DEF TypeOK
      <3> QED
        BY <1>2, <3>2, <3>3 DEF Wanted
    <2>2. CASE phase' = phase
      BY <1>2, <2>2 DEF Wanted
    <2> QED
      BY <2>1, <2>2 DEF ReadClock, CollectOther, CollectNothing, CollectWaitFault, LaunchNothing,
                        Poll, Exit, Tick
  <1>6. Wanted' = Wanted
    <2>1. Wanted \in BOOLEAN /\ Wanted' \in BOOLEAN
      BY DEF Wanted
    <2> QED
      BY <1>5, <2>1
  <1> QED
    BY <1>2, <1>3, <1>4, <1>5, <1>6, SameBacklog, SameFront DEF Seen

LEMMA InitImplements == Init => Promise!Init
  <1> SUFFICES ASSUME Init PROVE Promise!Init
    OBVIOUS
  <1>1. TypeOK /\ count = 0
    BY InitTypeOK DEF Init
  <1>2. Backlog = <<>>
    <2>1. Backlog \in Seq(Item) /\ Len(Backlog) = 0
      BY <1>1, BacklogIs
    <2> QED
      BY <2>1
  <1>3. FrontState = "untried"
    BY CommandFacts DEF Init, FrontState
  <1>4. /\ instance = FALSE /\ pc = "off" /\ child[RUN].pid = FALSE /\ paths5 = NoPath
        /\ handed = <<>> /\ runs = <<>> /\ retries_used = 0
    BY CommandFacts DEF Init
  <1>5. (fresh_run \/ phase[RUN] = "NORMAL") = FALSE
    BY CommandFacts DEF Init
  <1>6. RetryLimit - retries_used = RetryLimit
    BY <1>4, RetryAssumption
  <1> QED
    BY <1>2, <1>3, <1>4, <1>5, <1>6 DEF Promise!Init

LEMMA StepImplements == PromiseInv /\ PromiseInv' /\ [Next]_vars => [Promise!Next]_(Promise!vars)
  <1> SUFFICES ASSUME PromiseInv, PromiseInv', [Next]_vars
               PROVE  [Promise!Next]_(Promise!vars)
    OBVIOUS
  <1>0. TypeOK /\ TypeOK'
    BY DEF PromiseInv, PlanInv, SlotInv
  <1>1. ASSUME NEW p \in Paths \cup {NoPath}, HostInit(p) PROVE Promise!Next
    BY <1>1, InitStarts DEF Promise!Next
  <1>2. ASSUME NEW p \in Paths, Submit(p) PROVE Promise!Next
    BY <1>0, <1>2, SubmitAccepts DEF Promise!Next
  <1>3. CASE LaunchRun
    BY <1>3, LaunchRunBegins DEF Promise!Next
  <1>4. CASE LaunchSubmit
    BY <1>4, LaunchSubmitBegins DEF Promise!Next
  <1>5. CASE Spawned
    BY <1>5, SpawnCreates DEF Promise!Next
  <1>6. CASE SpawnFailed
    BY <1>6, SpawnFailureIsSeen DEF Promise!Next
  <1>7. ASSUME NEW r \in Results \ {"needs_run"}, CollectRun(r) PROVE Promise!Next
    BY <1>7, CollectedRunEnds DEF Promise!Next
  <1>8. ASSUME NEW r \in Results, CollectSubmit(r) PROVE Promise!Next
    BY <1>0, <1>8, CollectedSubmitSettles DEF Promise!Next
  <1>9. CASE GiveUpSubmit
    BY <1>0, <1>9, GivenUpSettles DEF Promise!Next
  <1>10. CASE ReadClock \/ CollectOther \/ GiveUpRun \/ LaunchNothing \/ Poll
              \/ (\E c \in Commands : Exit(c)) \/ Tick \/ UNCHANGED vars
    BY <1>10, HiddenSteps, SeenIsPromise
  <1> QED
    BY <1>1, <1>2, <1>3, <1>4, <1>5, <1>6, <1>7, <1>8, <1>9, <1>10 DEF Next, Worker

(* The library implements its promise: submissions are handed over in the  *)
(* order they were accepted, each at most once, none is lost or given up   *)
(* before the budget is spent, at most one run is under way, and the first *)
(* plan goes to the first of them (host.c, scheduler.c, input.c).          *)
THEOREM LibraryKeepsPromise == Spec => KeepsPromise
  <1>1. Spec => []PromiseInv
    BY InitPromiseInv, NextPromiseInv, PTL DEF Spec
  <1> QED
    BY <1>1, InitImplements, StepImplements, PTL DEF Spec, KeepsPromise, Promise!Spec
=============================================================================
