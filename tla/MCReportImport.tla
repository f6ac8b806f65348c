---------------------------- MODULE MCReportImport ----------------------------
(* Small reports of one plan for TLC: two steps of its history, the wide     *)
(* report of both, a restored device's report under a used number, one that  *)
(* contradicts the plan's progress, and one that is damaged.                 *)
EXTENDS ReportImport

Rep(id, bytes, from, to, status) ==
  [id |-> id, bytes |-> bytes, sound |-> TRUE, from |-> from, to |-> to,
   plans |-> "p" :> [request |-> 1, seq |-> 1, head |-> 1, status |-> status],
   actions |-> <<>>, outputs |-> <<>>, deliveries |-> <<>>, diags |-> <<>>]
Step1 == Rep(1, "a", 0, 1, "running")
Step2 == Rep(2, "a", 1, 2, "completed")
Wide == Rep(3, "a", 0, 2, "completed")
Other == Rep(1, "b", 0, 1, "running")
Back == Rep(4, "a", 1, 2, "pending")
Damaged == [Step1 EXCEPT !.sound = FALSE, !.bytes = "c"]

Selections == {<<Step2, Wide>>, <<Step2, Step1>>, <<Damaged, Step2>>,
               <<Step1>>, <<Other>>, <<Back>>}
==============================================================================
