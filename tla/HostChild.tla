----------------------------- MODULE HostChild -----------------------------
(***************************************************************************)
(* One process slot of the host library (process.c, result.c): how the     *)
(* worker learns that a camctl process ended and what it answered.  A      *)
(* process writes its one-line answer to stdout in pieces while the worker *)
(* polls: waitpid first, then the two non-blocking pipes, a quota of reads *)
(* each, again and again until process and pipes are finished.  The        *)
(* process may leave a helper behind (adb, ffmpeg) that inherited its      *)
(* pipes and holds them, or keeps writing to them, after it is gone.       *)
(*                                                                         *)
(* A piece is what one read returns: "part" of the answer, its "last"      *)
(* piece (with the newline), or "noise" of the helper.                     *)
(***************************************************************************)
EXTENDS Integers, Sequences

CONSTANTS
    Command,      \* "run" or "submit"
    Capacity,     \* pieces the output buffer keeps (config->stdout_capacity)
    PipeSize,     \* pieces a pipe holds before a writer blocks
    Quota,        \* reads per pipe and pass
    MaxPieces,    \* bound: the longest answer, in pieces
    Faults        \* subset of {"wait", "read"}: system calls that may fail

ASSUME SizeAssumption ==
    /\ Capacity \in Nat \ {0} /\ PipeSize \in Nat \ {0}
    /\ Quota \in Nat \ {0} /\ MaxPieces \in Nat \ {0}

Streams == {"out", "err"}
Silent == "none"
Pieces == {"part", "last", "noise"}

VARIABLES
    \* environment
    answer,                 \* the answer, once its last piece is written
    proc,                   \* "running" or "exited"
    status,                 \* how it ended: [kind, code]
    wrote,                  \* pieces of the answer written so far
    helper,                 \* "none", "writing", "holding" or "gone"
    pipe,                   \* unread pieces of each stream
    \* host_child
    pid, fd_open, ended, wait_fault, overflow, io_error, output,
    result,                 \* what the worker made of it, once collected
    \* the worker
    pc, reads,
    \* history
    read_failed             \* a read of stdout failed

process == <<answer, proc, status, wrote, helper>>
slot == <<pid, fd_open, ended, wait_fault, overflow, io_error, output, result>>
vars == <<process, pipe, slot, pc, reads, read_failed>>

Statuses == [kind : {"NORMAL"}, code : 0 .. 2] \cup [kind : {"SIGNAL"}, code : {1}]
Outcomes == {"success", "needs_run", "error", "abnormal"}

TypeOK ==
    /\ answer \in Outcomes \cup {"unusable", Silent} /\ proc \in {"running", "exited"}
    /\ status \in Statuses /\ wrote \in 0 .. MaxPieces
    /\ helper \in {"none", "writing", "holding", "gone"}
    /\ pipe \in [Streams -> Seq(Pieces)]
    /\ \A s \in Streams : Len(pipe[s]) <= PipeSize
    /\ pid \in BOOLEAN /\ fd_open \in [Streams -> BOOLEAN]
    /\ ended \in BOOLEAN /\ wait_fault \in BOOLEAN
    /\ overflow \in BOOLEAN /\ io_error \in BOOLEAN
    /\ output \in Seq(Pieces) /\ Len(output) <= Capacity
    /\ result \in Outcomes \cup {"none"}
    /\ pc \in {"idle", "wait", "out", "err", "check"} /\ reads \in 0 .. Quota
    /\ read_failed \in BOOLEAN

-----------------------------------------------------------------------------
(* The lines a process may print, by what they mean for the command: a     *)
(* submit must say whether it needs a run, a run need not.                 *)
Lines == [kind : {"succeeded", "error", "other"},
          needs_run : {"true", "false", "missing"}]

Meaning(line) ==
    CASE line.kind = "error" -> "error"
      [] line.kind = "succeeded" /\ Command = "run" -> "success"
      [] line.kind = "succeeded" /\ line.needs_run = "true" -> "needs_run"
      [] line.kind = "succeeded" /\ line.needs_run = "false" -> "success"
      [] OTHER -> "unusable"

(* host_result_parse.  The output must be one whole line, the exit normal, *)
(* and the line must agree with the exit code.                             *)

OneLine(data) ==
    /\ data # <<>>
    /\ data[Len(data)] = "last"
    /\ \A i \in 1 .. Len(data) : data[i] # "noise"

SlipSignalForgotten(line, st) ==
    CASE line = "error" /\ st.code = 1 -> "error"
      [] line \in {"success", "needs_run"} /\ st.code = 0 -> line
      [] OTHER -> "abnormal"

Understood(line, st) ==
    CASE st.kind = "NORMAL" /\ line = "error" /\ st.code = 1 -> "error"
      [] st.kind = "NORMAL" /\ line \in {"success", "needs_run"} /\ st.code = 0 -> line
      [] OTHER -> "abnormal"

host_result_parse(data, st) ==
    IF OneLine(data) THEN Understood(answer, st) ELSE "abnormal"

(* What collect() of host.c passes to the scheduler.                       *)
Collected ==
    IF overflow \/ io_error THEN "abnormal"
                            ELSE host_result_parse(output, status)

-----------------------------------------------------------------------------
Init ==
    /\ answer = Silent
    /\ proc = "running" /\ status = [kind |-> "NORMAL", code |-> 0]
    /\ wrote = 0 /\ helper = "none"
    /\ pipe = [s \in Streams |-> <<>>]
    /\ pid = TRUE /\ fd_open = [s \in Streams |-> TRUE]
    /\ ended = FALSE /\ wait_fault = FALSE
    /\ overflow = FALSE /\ io_error = FALSE
    /\ output = <<>> /\ result = "none"
    /\ pc = "idle" /\ reads = 0 /\ read_failed = FALSE

(* The processes.  A write blocks while the pipe is full and fails once    *)
(* the worker closed its end.                                              *)
CanWrite(s) == fd_open[s] /\ Len(pipe[s]) < PipeSize
Put(s, piece) == pipe' = [pipe EXCEPT ![s] = Append(@, piece)]

WriteAnswer ==
    /\ proc = "running" /\ answer = Silent /\ CanWrite("out")
    /\ \/ /\ wrote + 1 < MaxPieces
          /\ Put("out", "part") /\ UNCHANGED answer
       \/ Put("out", "last") /\ answer' \in {Meaning(line) : line \in Lines}
    /\ wrote' = wrote + 1
    /\ UNCHANGED <<proc, status, helper, slot, pc, reads,
                   read_failed>>

WriteDiagnostics ==
    /\ proc = "running" /\ CanWrite("err")
    /\ Put("err", "noise")
    /\ UNCHANGED <<process, slot, pc, reads, read_failed>>

StartHelper ==
    /\ proc = "running" /\ helper = "none"
    /\ helper' = "writing"
    /\ UNCHANGED <<answer, proc, status, wrote, pipe, slot, pc,
                   reads, read_failed>>

HelperWrites(s) ==
    /\ helper = "writing" /\ CanWrite(s)
    /\ Put(s, "noise")
    /\ UNCHANGED <<process, slot, pc, reads, read_failed>>

HelperQuiet ==
    /\ \/ helper = "writing" /\ helper' \in {"holding", "gone"}
       \/ helper = "holding" /\ helper' = "gone"
    /\ UNCHANGED <<answer, proc, status, wrote, pipe, slot, pc,
                   reads, read_failed>>

Exit ==
    /\ proc = "running"
    /\ proc' = "exited"
    /\ status' \in Statuses
    /\ UNCHANGED <<answer, wrote, helper, pipe, slot, pc, reads,
                   read_failed>>

-----------------------------------------------------------------------------
(* host_child_collect, one system call at a time.                          *)

BeginPass ==
    /\ pc = "idle" /\ pid
    /\ pc' = "wait"
    /\ UNCHANGED <<process, pipe, slot, reads, read_failed>>

StartDrain(s) == pc' = s /\ reads' = 0

Waitpid ==
    /\ pc = "wait"
    /\ \/ ~ended /\ ~wait_fault /\ proc = "exited" /\ ended' = TRUE
          /\ UNCHANGED wait_fault
       \/ ~ended /\ ~wait_fault /\ "wait" \in Faults /\ wait_fault' = TRUE
          /\ UNCHANGED ended
       \/ (ended \/ wait_fault \/ proc = "running")
          /\ UNCHANGED <<ended, wait_fault>>
    /\ StartDrain("out")
    /\ UNCHANGED <<process, pipe, pid, fd_open, overflow, io_error, output,
                   result, read_failed>>

HoldsPipe == proc = "running" \/ helper \in {"writing", "holding"}
AfterDrain(s) ==
    IF s = "out" THEN StartDrain("err") ELSE pc' = "check" /\ UNCHANGED reads
Closed(s) == fd_open' = [fd_open EXCEPT ![s] = FALSE]

SlipUncounted == reads

Fits == Len(output) < Capacity
Counted == reads + 1

(* One successful read; what does not fit into the buffer is dropped.      *)
Read(s) ==
    /\ pc = s /\ fd_open[s] /\ reads < Quota
    /\ pipe[s] # <<>>
    /\ pipe' = [pipe EXCEPT ![s] = Tail(@)]
    /\ reads' = Counted
    /\ IF s = "err" THEN UNCHANGED <<output, overflow>>
       ELSE IF Fits
            THEN output' = Append(output, Head(pipe[s])) /\ UNCHANGED overflow
            ELSE overflow' = TRUE /\ UNCHANGED output
    /\ UNCHANGED <<process, pid, fd_open, ended, wait_fault, io_error, result,
                   pc, read_failed>>

ReadEOF(s) ==
    /\ pc = s /\ fd_open[s] /\ reads < Quota
    /\ pipe[s] = <<>> /\ ~HoldsPipe
    /\ Closed(s)
    /\ AfterDrain(s)
    /\ UNCHANGED <<process, pipe, pid, ended, wait_fault, overflow, io_error,
                   output, result, read_failed>>

(* EAGAIN.  After the end of the process the pipe can only be held by      *)
(* others, who are not waited for: the stream is closed as incomplete.     *)
SlipAgainIsTheEnd == TRUE
SlipAlwaysWait == FALSE

GivesUp == ended

ReadEmpty(s) ==
    /\ pc = s /\ fd_open[s] /\ reads < Quota
    /\ pipe[s] = <<>> /\ HoldsPipe
    /\ IF GivesUp
       THEN Closed(s) /\ io_error' = (io_error \/ s = "out")
       ELSE UNCHANGED <<fd_open, io_error>>
    /\ AfterDrain(s)
    /\ UNCHANGED <<process, pipe, pid, ended, wait_fault, overflow, output,
                   result, read_failed>>

ReadFails(s) ==
    /\ "read" \in Faults
    /\ pc = s /\ fd_open[s] /\ reads < Quota
    /\ Closed(s) /\ io_error' = (io_error \/ s = "out")
    /\ read_failed' = (read_failed \/ s = "out")
    /\ AfterDrain(s)
    /\ UNCHANGED <<process, pipe, pid, ended, wait_fault, overflow, output,
                   result>>

(* The stream is closed already, or the quota is used up.                  *)
LeaveDrain(s) ==
    /\ pc = s /\ (~fd_open[s] \/ reads = Quota)
    /\ AfterDrain(s)
    /\ UNCHANGED <<process, pipe, slot, read_failed>>

(* host_child_done, and the collection of the result.                      *)
SlipDoneOnPipes == pid /\ \A s \in Streams : ~fd_open[s]
Done == pid /\ ended /\ \A s \in Streams : ~fd_open[s]

Check ==
    /\ pc = "check"
    /\ IF Done THEN pid' = FALSE /\ result' = Collected
               ELSE UNCHANGED <<pid, result>>
    /\ pc' = "idle"
    /\ UNCHANGED <<process, pipe, fd_open, ended, wait_fault, overflow,
                   io_error, output, reads, read_failed>>

Worker ==
    \/ BeginPass \/ Waitpid \/ Check
    \/ \E s \in Streams :
          Read(s) \/ ReadEOF(s) \/ ReadEmpty(s) \/ ReadFails(s) \/ LeaveDrain(s)

Next ==
    \/ WriteAnswer \/ WriteDiagnostics \/ StartHelper \/ Exit \/ HelperQuiet
    \/ \E s \in Streams : HelperWrites(s)
    \/ Worker

(* The worker's loop goes on; nothing is assumed of the processes.         *)
Spec == Init /\ [][Next]_vars /\ WF_vars(Worker)

-----------------------------------------------------------------------------
(* Properties.                                                             *)

(* What the process really answered, had everything been read.             *)
Truth ==
    CASE answer = "error" /\ status = [kind |-> "NORMAL", code |-> 1] -> "error"
      [] answer \in {"success", "needs_run"}
         /\ status = [kind |-> "NORMAL", code |-> 0] -> answer
      [] OTHER -> "abnormal"

(* The scheduler is told a success, a needs_run or an error only if the    *)
(* process said exactly that in a complete line and ended accordingly; an  *)
(* answer cut by the buffer, a signal or a helper never passes for one.    *)
NoAnswerInvented == result \in {"none", "abnormal", Truth}

(* Conversely a complete answer that fits the buffer is never taken for an *)
(* abnormal end by the order of exit and reads: only a helper that shares  *)
(* the pipe, or a read that failed, can spoil it.                          *)
NoAnswerLost ==
    result = "abnormal" /\ Truth # "abnormal" =>
        helper # "none" \/ read_failed \/ wrote > Capacity

(* The scheduler is told what camctl said, no more (NoAnswerInvented) and   *)
(* no less (NoAnswerLost), in whatever order exit and reads are noticed.   *)
AnswerIsTruth == NoAnswerInvented /\ NoAnswerLost

(* The slot is not released while its process runs, whatever the pipes and *)
(* waitpid do.                                                             *)
SlotOutlivesProcess == ~pid => proc = "exited"

(* No writer stays blocked: a full pipe is read or closed, even when the   *)
(* other stream never runs dry and when waitpid has failed.                *)
PipesKeepMoving ==
    \A s \in Streams :
        Len(pipe[s]) = PipeSize ~> Len(pipe[s]) < PipeSize \/ ~fd_open[s]

(* An ended process is collected although a silent helper holds its pipes. *)
ExitedIsCollected ==
    proc = "exited" /\ helper # "writing" ~> ~pid \/ wait_fault

(* process.c line 110: others who hold the pipe are not waited for without *)
(* end.                                                                    *)
OthersNotAwaited == proc = "exited" ~> ~pid \/ wait_fault

(* docs/host-demo/design.md line 160: a call keeps its place until its     *)
(* local helpers have ended too.                                           *)
DoneMeansSettled == ~pid => helper \in {"none", "gone"}

=============================================================================
