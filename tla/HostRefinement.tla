--------------------------- MODULE HostRefinement ---------------------------
(* Host implements HostPromise: the ring is the backlog, the phases are    *)
(* the progress of the front and of the run, the retry counter is what is  *)
(* missing from the budget.                                                *)
EXTENDS Host

Backlog == [i \in 1 .. count |-> items[At(head, i - 1)]]

FrontState ==
    CASE phase[SUBMIT] = "IDLE" -> "untried"
      [] phase[SUBMIT] = "ACTIVE" -> "inHand"
      [] OTHER -> "tried"

Promise == INSTANCE HostPromise WITH
    Items <- [path : Paths, id : Nat],
    Plans <- Paths,
    NoPlan <- NoPath,
    Budget <- RetryLimit,
    started <- instance,
    backlog <- Backlog,
    front <- FrontState,
    turn <- IF pc = "spawn" THEN call.command ELSE "none",
    running <- child[RUN].pid,
    wanted <- fresh_run \/ phase[RUN] = "NORMAL",
    held <- paths5,
    budget <- RetryLimit - retries_used,
    given <- handed,
    plans <- runs

(* Every behaviour of the library is one the promise allows.               *)
KeepsPromise == Promise!Spec

=============================================================================
