---------------------------- MODULE HostPromise ----------------------------
(***************************************************************************)
(* What the host library promises its main program, without ring, slots,   *)
(* clock or process table: accepted submissions form one first-in-first-   *)
(* out backlog; its front is tried, given to at most one `camctl submit`   *)
(* process and then leaves; at most one `camctl run` is under way; the     *)
(* first plan goes to the first run process that comes to be and to no     *)
(* other; every attempt that nothing new asked for is paid from one        *)
(* budget, and a submission is only given up when the budget is spent.     *)
(***************************************************************************)
EXTENDS Integers, Sequences

CONSTANTS Items, Plans, NoPlan, Capacity, Budget

VARIABLES
    started,   \* the library is initialised
    backlog,   \* accepted submissions that are not settled
    front,     \* "untried", "tried" or "inHand": the first of the backlog
    turn,      \* the command being started: "none", "run" or "submit"
    running,   \* a run process is under way
    wanted,    \* a run is owed that costs no budget
    held,      \* the first plan, until a run process gets it
    budget,    \* automatic attempts left
    given,     \* submissions handed to processes, in order
    plans      \* what each run process was given, in order

vars == <<started, backlog, front, turn, running, wanted, held, budget, given,
          plans>>

Init ==
    /\ started = FALSE
    /\ backlog = <<>> /\ front = "untried" /\ turn = "none"
    /\ running = FALSE /\ wanted = FALSE /\ held = NoPlan
    /\ budget = Budget /\ given = <<>> /\ plans = <<>>

(* The library starts, with or without a first plan, and owes one run.     *)
Start(plan) ==
    /\ ~started /\ started' = TRUE
    /\ wanted' = TRUE /\ held' = plan
    /\ UNCHANGED <<backlog, front, turn, running, budget, given, plans>>

Accept ==
    /\ started
    /\ Len(backlog) < Capacity
    /\ Len(backlog') = Len(backlog) + 1
    /\ backlog' = Append(backlog, backlog'[Len(backlog')])
    /\ backlog'[Len(backlog')] \in Items
    /\ UNCHANGED <<started, front, turn, running, wanted, held, budget, given, plans>>

Pay == budget > 0 /\ budget' = budget - 1

BeginRun ==
    /\ turn = "none" /\ ~running
    /\ turn' = "run"
    /\ \/ wanted /\ wanted' = FALSE /\ UNCHANGED budget
       \/ ~wanted /\ Pay /\ UNCHANGED wanted
    /\ UNCHANGED <<started, backlog, front, running, held, given, plans>>

CreateRun ==
    /\ turn = "run"
    /\ turn' = "none" /\ running' = TRUE
    /\ plans' = Append(plans, held) /\ held' = NoPlan
    /\ UNCHANGED <<started, backlog, front, wanted, budget, given>>

EndRun == running /\ running' = FALSE
          /\ UNCHANGED <<started, backlog, front, turn, wanted, held, budget, given, plans>>

BeginSubmit ==
    /\ turn = "none" /\ backlog # <<>>
    /\ turn' = "submit"
    /\ \/ front = "untried" /\ UNCHANGED budget
       \/ front = "tried" /\ Pay
    /\ front' = "tried"
    /\ UNCHANGED <<started, backlog, running, wanted, held, given, plans>>

CreateSubmit ==
    /\ turn = "submit"
    /\ turn' = "none" /\ front' = "inHand"
    /\ given' = Append(given, Head(backlog))
    /\ UNCHANGED <<started, backlog, running, wanted, held, budget, plans>>

FailToCreate ==
    /\ turn # "none"
    /\ turn' = "none"
    /\ UNCHANGED <<started, backlog, front, running, wanted, held, budget, given, plans>>

(* The front leaves: its process ended, perhaps asking for a run, or it    *)
(* never got one and the budget is spent.                                  *)
Settle(needs) ==
    /\ turn = "none" /\ backlog # <<>>
    /\ \/ front = "inHand" /\ wanted' = (wanted \/ needs)
       \/ front = "tried" /\ budget = 0 /\ UNCHANGED wanted
    /\ front' = "untried"
    /\ backlog' = Tail(backlog)
    /\ UNCHANGED <<started, turn, running, held, budget, given, plans>>

Next ==
    \/ \E plan \in Plans \cup {NoPlan} : Start(plan)
    \/ Accept
    \/ BeginRun \/ CreateRun \/ EndRun
    \/ BeginSubmit \/ CreateSubmit \/ FailToCreate
    \/ \E needs \in BOOLEAN : Settle(needs)

Spec == Init /\ [][Next]_vars

=============================================================================
