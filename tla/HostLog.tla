------------------------------ MODULE HostLog ------------------------------
(***************************************************************************)
(* The log of the host library (log_queue.c, logger.c): threads that must  *)
(* never wait for a disk put records into a bounded queue, one writer      *)
(* thread takes them out, appends them to a file and rotates its archives. *)
(* What does not fit is dropped and counted, and the count itself is put   *)
(* into the queue as a record when there is room again.  The first failure *)
(* of the file ends logging for good.                                      *)
(*                                                                         *)
(* host_log is one step, because all it does to shared state happens under *)
(* the mutex; the writer holds the mutex between "check" and "write" and   *)
(* is on its own while it writes and rotates.  A record is what is left of *)
(* a message: its number and its length.                                   *)
(***************************************************************************)
EXTENDS Integers, SequencesExt

CONSTANTS
    QueueCapacity, RecordLimit,  \* log_queue_capacity, log_record_capacity
    FileLimit, FileCount,        \* log_file_size, log_file_count
    Header,                      \* sizeof(host_log_record)
    Marker,                      \* length of the text "log_queue dropped=..."
    CounterMax,                  \* UINT64_MAX
    Lengths,                     \* lengths of the messages that are logged
    MaxCalls,                    \* bound: calls of host_log
    MaxFaults                    \* bound: failing allocations

ASSUME LogAssumption ==          \* host_config_validate
    /\ {QueueCapacity, RecordLimit, FileLimit, FileCount, Header, Marker, CounterMax} \subseteq Nat
    /\ RecordLimit + Header + 1 <= QueueCapacity /\ RecordLimit <= FileLimit
    /\ FileCount >= 1 /\ Marker < RecordLimit /\ CounterMax >= 1
    /\ Lengths \subseteq Nat /\ MaxCalls \in Nat /\ MaxFaults \in Nat

Names == 0 .. FileCount - 1      \* 0 is log_path, k is log_path.k

VARIABLES
    \* host_log_queue
    queue, used, dropped, file_error,
    \* host_logger
    stop, open, file_size,
    \* the writer thread
    pc, hand, next, signalled,
    files,      \* the directory: its names and the records behind them
    \* history
    calls,      \* calls of host_log so far
    accepted,   \* numbers of the messages put into the queue
    missed,     \* messages dropped
    uncounted,  \* of those, dropped while the counter was at its maximum
    out,        \* every record ever written, as if there were one endless file
    faults

queueVars == <<queue, used, dropped, file_error>>
writer == <<pc, hand, next>>
history == <<calls, accepted, missed, uncounted, faults>>
vars == <<queueVars, stop, open, file_size, writer, signalled, files, out, history>>

None == [kind |-> "none", n |-> 0, length |-> 0]
Message(n, length) == [kind |-> "message", n |-> n, length |-> length]
Drops(n, length) == [kind |-> "drops", n |-> n, length |-> length]
Old(length) == [kind |-> "old", n |-> 0, length |-> length]

Sum(s) ==
    LET sum[i \in 0 .. Len(s)] == IF i = 0 THEN 0 ELSE sum[i - 1] + s[i]
    IN sum[Len(s)]

Size(file) == Sum([i \in DOMAIN file |-> file[i].length])

-----------------------------------------------------------------------------
(* log_queue.c.  A queue value is the record of its four fields.           *)

RecordLength(length) == IF length < RecordLimit THEN length + 1 ELSE RecordLimit
Cost(recordLength) == Header + recordLength + 1

Fits(q, length) == ~q.file_error /\ Cost(RecordLength(length)) <= QueueCapacity - q.used

Appended(q, record) ==
    [q EXCEPT !.queue = Append(@, record), !.used = @ + Cost(record.length)]

SlipRecovered(q, malloc) ==
    LET appended == IF q.dropped # 0 /\ malloc /\ Fits(q, Marker)
                    THEN Appended(q, Drops(q.dropped, RecordLength(Marker))) ELSE q
    IN [appended EXCEPT !.dropped = 0]
(* recover: the pending count becomes a record, if that can be appended.   *)
Recovered(q, malloc) ==
    IF q.dropped # 0 /\ malloc /\ Fits(q, Marker)
    THEN [Appended(q, Drops(q.dropped, RecordLength(Marker))) EXCEPT !.dropped = 0]
    ELSE q

Counted(n) == IF n # CounterMax THEN n + 1 ELSE n

SlipPopped(q, malloc) ==
    [q EXCEPT !.queue = Tail(@), !.used = @ - Cost(Head(q.queue).length)]
Popped(q, malloc) ==
    Recovered([q EXCEPT !.queue = Tail(@), !.used = @ - Cost(Head(q.queue).length)], malloc)

Disabled(q) == [q EXCEPT !.file_error = TRUE, !.queue = <<>>, !.used = 0]

Queue == [queue |-> queue, used |-> used, dropped |-> dropped, file_error |-> file_error]

SetQueue(q) ==
    /\ queue' = q.queue /\ used' = q.used
    /\ dropped' = q.dropped /\ file_error' = q.file_error

-----------------------------------------------------------------------------
Init ==
    /\ queue = <<>> /\ used = 0 /\ dropped = 0 /\ file_error = FALSE
    /\ stop = FALSE /\ open = FALSE /\ file_size = 0
    /\ pc = "check" /\ hand = None /\ next = 0 /\ signalled = FALSE
    /\ \E found \in {<<>>, <<Old(FileLimit)>>, <<Old(FileLimit + 1)>>} :
         /\ files = [k \in IF found = <<>> THEN {} ELSE {0} |-> found]
         /\ out = found
    /\ calls = 0 /\ accepted = <<>> /\ missed = 0 /\ uncounted = 0 /\ faults = 0

SlipSignal == UNCHANGED signalled
Signal == signalled' = TRUE

Miss ==
    /\ missed' = missed + 1
    /\ uncounted' = uncounted + (IF dropped = CounterMax THEN 1 ELSE 0)

(* host_log with room for the text: push under the mutex, then a signal.   *)
(* Either allocation inside push, the marker's or the record's, may fail.  *)
Log ==
    \E length \in Lengths, mallocMarker, mallocRecord \in BOOLEAN :
      LET n == calls + 1
          broken == (IF mallocMarker THEN 0 ELSE 1) + (IF mallocRecord THEN 0 ELSE 1)
          q == Recovered(Queue, mallocMarker)
      IN /\ ~stop /\ calls < MaxCalls
         /\ faults + broken <= MaxFaults /\ faults' = faults + broken
         /\ calls' = n /\ Signal
         /\ \/ file_error /\ UNCHANGED <<queueVars, accepted, missed, uncounted>>
            \/ /\ mallocRecord /\ Fits(q, length)
               /\ SetQueue(Appended(q, Message(n, RecordLength(length))))
               /\ accepted' = Append(accepted, n) /\ UNCHANGED <<missed, uncounted>>
            \/ /\ ~file_error /\ ~(mallocRecord /\ Fits(q, length))
               /\ SetQueue([q EXCEPT !.dropped = Counted(@)])
               /\ missed' = missed + 1
               /\ uncounted' = uncounted + (IF q.dropped = CounterMax THEN 1 ELSE 0)
               /\ UNCHANGED accepted
         /\ UNCHANGED <<stop, open, file_size, writer, files, out>>

(* host_log without memory for the text: only the counter.                 *)
LogNoMemory ==
    /\ ~stop /\ calls < MaxCalls /\ calls' = calls + 1
    /\ faults < MaxFaults /\ faults' = faults + 1
    /\ IF file_error
       THEN UNCHANGED <<dropped, missed, uncounted>>
       ELSE dropped' = Counted(dropped) /\ Miss
    /\ UNCHANGED <<queue, used, file_error, stop, open, file_size, writer, signalled,
                   files, out, accepted>>

(* host_logger_abort sets stop and signals; nobody logs after it.          *)
Abort ==
    /\ ~stop /\ stop' = TRUE /\ Signal
    /\ UNCHANGED <<queueVars, open, file_size, writer, files, out, history>>

-----------------------------------------------------------------------------
(* logger_main: it holds the mutex from here until it waits or writes.     *)
Check ==
    /\ pc = "check"
    /\ \/ /\ stop /\ pc' = "stopped" /\ hand' = None
          /\ SetQueue(Disabled(Queue)) /\ open' = FALSE
          /\ UNCHANGED <<signalled, faults>>
       \/ /\ ~stop /\ queue = <<>>
          /\ pc' = "wait" /\ signalled' = FALSE
          /\ UNCHANGED <<queueVars, hand, open, faults>>
       \/ /\ ~stop /\ queue # <<>>
          /\ \E malloc \in BOOLEAN :
               LET broken == IF malloc THEN 0 ELSE 1
               IN /\ faults + broken <= MaxFaults /\ faults' = faults + broken
                  /\ SetQueue(Popped(Queue, malloc))
          /\ hand' = Head(queue) /\ pc' = "write"
          /\ UNCHANGED <<signalled, open>>
    /\ UNCHANGED <<stop, file_size, next, files, out, calls, accepted, missed, uncounted>>

(* pthread_cond_wait returns after a signal, or for no reason.             *)
Wake ==
    /\ pc = "wait" /\ signalled /\ pc' = "check"
    /\ UNCHANGED <<queueVars, stop, open, file_size, hand, next, signalled, files, out, history>>

SpuriousWake ==
    /\ pc = "wait" /\ ~signalled /\ pc' = "check"
    /\ UNCHANGED <<queueVars, stop, open, file_size, hand, next, signalled, files, out, history>>

(* open_log, first in write_record when nothing is open, and at the end of *)
(* a rotation: an existing file is continued at its size.                  *)
FileAt(k) == IF k \in DOMAIN files THEN files[k] ELSE <<>>

SlipOpened ==
    /\ open' = TRUE
    /\ files' = [k \in DOMAIN files \union {0} |-> FileAt(k)]
    /\ file_size' = 0
Opened ==
    /\ open' = TRUE
    /\ files' = [k \in DOMAIN files \union {0} |-> FileAt(k)]
    /\ file_size' = Size(FileAt(0))

OpenLog ==
    /\ \/ pc = "write" /\ ~open
       \/ pc = "reopen"
    /\ Opened /\ pc' = "write"
    /\ UNCHANGED <<queueVars, stop, hand, next, signalled, out, history>>

Overfull == file_size > FileLimit - hand.length

(* rotate closes the file, unlinks the oldest name (with a single file,    *)
(* the file itself) and renames one file per step.  A name that does not   *)
(* exist is passed over.                                                   *)
Without(k) == Restrict(files, DOMAIN files \ {k})

StartRotation ==
    /\ pc = "write" /\ open /\ Overfull
    /\ open' = FALSE /\ next' = FileCount /\ pc' = "unlink"
    /\ UNCHANGED <<queueVars, stop, file_size, hand, signalled, files, out, history>>

Unlink ==
    /\ pc = "unlink" /\ files' = Without(FileCount - 1)
    /\ pc' = IF next > 1 THEN "rotate" ELSE "reopen"
    /\ UNCHANGED <<queueVars, stop, open, file_size, hand, next, signalled, out, history>>

Rotate ==
    /\ pc = "rotate"
    /\ files' = IF next - 2 \in DOMAIN files
                THEN [k \in (DOMAIN files \union {next - 1}) \ {next - 2} |->
                        IF k = next - 1 THEN files[next - 2] ELSE files[k]]
                ELSE files
    /\ next' = next - 1 /\ pc' = IF next - 1 > 1 THEN "rotate" ELSE "reopen"
    /\ UNCHANGED <<queueVars, stop, open, file_size, hand, signalled, out, history>>

Write ==
    /\ pc = "write" /\ open /\ ~Overfull
    /\ files' = [files EXCEPT ![0] = Append(@, hand)] /\ out' = Append(out, hand)
    /\ file_size' = file_size + hand.length
    /\ pc' = "check" /\ hand' = None
    /\ UNCHANGED <<queueVars, stop, open, next, signalled, history>>

(* Opening, closing, renaming, unlinking or writing fails; a write may     *)
(* have put part of the record into the file.                              *)
FileFails ==
    /\ pc \in {"write", "rotate", "unlink", "reopen"} /\ pc' = "failed"
    /\ UNCHANGED <<queueVars, stop, open, file_size, hand, next, signalled, files, out, history>>

WriteTears ==
    /\ pc = "write" /\ open /\ ~Overfull /\ pc' = "failed"
    /\ \E k \in 1 .. hand.length - 1 :
         LET torn == [hand EXCEPT !.kind = "torn", !.length = k]
         IN files' = [files EXCEPT ![0] = Append(@, torn)] /\ out' = Append(out, torn)
    /\ UNCHANGED <<queueVars, stop, open, file_size, hand, next, signalled, history>>

(* The mutex is taken again before the queue is disabled; until then other *)
(* threads go on logging.                                                  *)
Disable ==
    /\ pc = "failed" /\ pc' = "check"
    /\ SetQueue(Disabled(Queue)) /\ open' = FALSE /\ hand' = None
    /\ UNCHANGED <<stop, file_size, next, signalled, files, out, history>>

Next ==
    \/ Log \/ LogNoMemory \/ Abort
    \/ Check \/ Wake \/ SpuriousWake
    \/ OpenLog \/ StartRotation \/ Unlink \/ Rotate \/ Write
    \/ FileFails \/ WriteTears \/ Disable

(* The writer thread is scheduled when it can run, a waiting one only when *)
(* it was signalled; its file operations return, with or without success.  *)
Writer == Check \/ Wake \/ OpenLog \/ StartRotation \/ Unlink \/ Rotate \/ Write \/ Disable

Spec == Init /\ [][Next]_vars
FairSpec == Spec /\ WF_vars(Writer)

-----------------------------------------------------------------------------
Records == [kind : {"none", "message", "drops", "old", "torn"}, n : Nat, length : Nat]

TypeOK ==
    /\ queue \in Seq(Records) /\ used \in 0 .. QueueCapacity /\ dropped \in 0 .. CounterMax
    /\ {file_error, stop, open, signalled} \subseteq BOOLEAN /\ file_size \in Nat
    /\ pc \in {"check", "wait", "write", "rotate", "unlink", "reopen", "failed", "stopped"}
    /\ hand \in Records /\ next \in 0 .. FileCount
    /\ DOMAIN files \subseteq Names /\ \A k \in DOMAIN files : files[k] \in Seq(Records)
    /\ calls \in 0 .. MaxCalls /\ accepted \in Seq(1 .. MaxCalls)
    /\ missed \in Nat /\ uncounted \in Nat /\ out \in Seq(Records) /\ faults \in 0 .. MaxFaults

(* What was taken from the queue is written before anything behind it.     *)
InHand == IF hand = None THEN <<>> ELSE <<hand>>
Pipeline == out \o InHand \o queue

Healthy == ~file_error /\ pc # "failed"

NumbersOf(kind, records) ==
    LET numbers[i \in 0 .. Len(records)] ==
          IF i = 0 THEN <<>>
          ELSE IF records[i].kind = kind THEN Append(numbers[i - 1], records[i].n)
          ELSE numbers[i - 1]
    IN numbers[Len(records)]

(* As long as the file works nothing is unaccounted for: the messages      *)
(* written, in hand and queued are exactly the accepted ones, in the order *)
(* of acceptance; every dropped message is in the counter or in exactly    *)
(* one record, except those dropped while the counter was full; and the    *)
(* bytes charged to the queue (log_queue.c:36, 64) are those of its        *)
(* records, so that an empty queue has room for any record.                *)
AcceptedInOrder == NumbersOf("message", Pipeline) = accepted
DropsCounted == Sum(NumbersOf("drops", Pipeline)) + dropped + uncounted = missed
UsedIsCharged == used = Sum([i \in DOMAIN queue |-> Cost(queue[i].length)])

NothingUnaccounted == Healthy => AcceptedInOrder /\ DropsCounted /\ UsedIsCharged

(* Oldest first, the archives and the current file hold the end of what    *)
(* was ever written, without gap, repetition or change of order, also in   *)
(* the middle of a rotation and after one that failed half way.  No file   *)
(* grows beyond its limit, except one found that large, and a file is only *)
(* rotated away when the record that follows it would not have fitted      *)
(* (rotate and write_record).                                              *)
Archives ==
    FlattenSeq([i \in 1 .. FileCount |-> FileAt(FileCount - i)])

Bounded(file) == Size(file) <= FileLimit \/ (Len(file) = 1 /\ file[1].kind = "old")

FullBefore(file, follower) ==
    (follower # <<>> /\ follower[1].kind # "torn") => Size(file) + follower[1].length > FileLimit

LatestKept ==
    /\ IsSuffix(Archives, out)
    /\ \A k \in DOMAIN files :
         Bounded(files[k]) /\ (k - 1 \in DOMAIN files => FullBefore(files[k], files[k - 1]))

(* An accepted message is written or the log is given up: the writer never *)
(* sleeps through a signal while there is something to do (logger_main     *)
(* tests the queue and waits under one mutex).                             *)
AcceptedSettles ==
    \A n \in 1 .. MaxCalls :
      (Len(accepted) >= n) ~>
        (Len(NumbersOf("message", out)) >= n \/ file_error \/ pc = "failed")

(* Drops for want of room are reported even if nobody logs again, because  *)
(* every pop tries (log_queue.c:65); only a failing allocation can leave   *)
(* the count waiting for the next call.                                    *)
DropsReported ==
    (dropped > 0 /\ faults = 0) ~> (dropped = 0 \/ faults > 0 \/ file_error)

(* Every call settles: what was accepted reaches the file, what was        *)
(* dropped reaches it as a count.                                          *)
LogSettles == AcceptedSettles /\ DropsReported
=============================================================================
