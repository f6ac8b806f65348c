--------------------------- MODULE HostPartsProofs ---------------------------
(***************************************************************************)
(* What is proved of two parts of the host library.  Of collecting a       *)
(* process, for every buffer, pipe and quota: the slot outlives the        *)
(* process, and its answer is believed exactly when it was given.  Of a    *)
(* claim, for every set of names, every list limit and any number of       *)
(* changes and failed calls: the diagnoses are true, at most one file goes *)
(* astray, a partial list moves nothing, and what was moved is flushed or  *)
(* said not to be.                                                         *)
(***************************************************************************)
EXTENDS HostChild, HostClaim, SequenceTheorems, FiniteSetTheorems, TLAPS

-----------------------------------------------------------------------------
(* Sequences.                                                              *)

(* A read moves a piece from the pipe to the buffer; together they hold    *)
(* what they held.                                                         *)
LEMMA ReadMovesPiece ==
  ASSUME NEW S, NEW s \in Seq(S), NEW p \in Seq(S), p # <<>>
  PROVE  Append(s, Head(p)) \o Tail(p) = s \o p
  <1>1. /\ Len(p) \in Nat \ {0} /\ Head(p) = p[1] /\ Head(p) \in S
        /\ Tail(p) \in Seq(S) /\ Len(Tail(p)) = Len(p) - 1
        /\ \A i \in 1 .. Len(p) - 1 : Tail(p)[i] = p[i + 1]
    BY HeadTailProperties, EmptySeq
  <1> DEFINE a == Append(s, Head(p))
  <1>2. /\ a \in Seq(S) /\ Len(s) \in Nat /\ Len(a) = Len(s) + 1 /\ a[Len(s) + 1] = p[1]
        /\ \A i \in 1 .. Len(s) : a[i] = s[i]
    BY <1>1
  <1>3. /\ s \o p \in Seq(S) /\ Len(s \o p) = Len(s) + Len(p)
        /\ \A i \in 1 .. Len(s) + Len(p) : (s \o p)[i] = IF i <= Len(s) THEN s[i] ELSE p[i - Len(s)]
    BY ConcatProperties
  <1> HIDE DEF a
  <1>4. /\ a \o Tail(p) \in Seq(S) /\ Len(a \o Tail(p)) = Len(a) + Len(Tail(p))
        /\ \A i \in 1 .. Len(a) + Len(Tail(p)) :
             (a \o Tail(p))[i] = IF i <= Len(a) THEN a[i] ELSE Tail(p)[i - Len(a)]
    BY <1>1, <1>2, ConcatProperties
  <1>5. Len(a) + Len(Tail(p)) = Len(s) + Len(p)
    BY <1>1, <1>2
  <1>6. ASSUME NEW i \in 1 .. Len(s) + Len(p)
        PROVE  (a \o Tail(p))[i] = (s \o p)[i]
    <2>1. CASE i <= Len(s)
      BY <1>2, <1>3, <1>4, <1>5, <2>1
    <2>2. CASE i = Len(s) + 1
      BY <1>1, <1>2, <1>3, <1>4, <1>5, <2>2
    <2>3. CASE i > Len(s) + 1
      <3>1. (a \o Tail(p))[i] = Tail(p)[i - (Len(s) + 1)] /\ (s \o p)[i] = p[i - Len(s)]
        BY <1>1, <1>2, <1>3, <1>4, <1>5, <2>3
      <3>2. i - (Len(s) + 1) \in 1 .. Len(p) - 1 /\ (i - (Len(s) + 1)) + 1 = i - Len(s)
        BY <1>1, <1>2, <2>3
      <3>3. Tail(p)[i - (Len(s) + 1)] = p[(i - (Len(s) + 1)) + 1]
        BY <1>1, <3>2
      <3> QED
        BY <3>1, <3>2, <3>3
    <2> QED
      BY <1>1, <1>2, <2>1, <2>2, <2>3
  <1>7. a \o Tail(p) = s \o p
    BY <1>3, <1>4, <1>5, <1>6, SeqEqual
  <1> QED
    BY <1>7 DEF a

(* A write appends to what buffer and pipe hold together.                  *)
LEMMA WriteExtends ==
  ASSUME NEW S, NEW s \in Seq(S), NEW p \in Seq(S), NEW x \in S
  PROVE  /\ s \o p \in Seq(S) /\ s \o Append(p, x) \in Seq(S)
         /\ Len(s \o p) = Len(s) + Len(p)
         /\ Len(s \o Append(p, x)) = Len(s \o p) + 1
         /\ (s \o Append(p, x))[Len(s \o p) + 1] = x
         /\ \A i \in 1 .. Len(s \o p) : (s \o Append(p, x))[i] = (s \o p)[i]
  <1> DEFINE a == Append(p, x)
  <1>1. /\ a \in Seq(S) /\ Len(p) \in Nat /\ Len(s) \in Nat /\ Len(a) = Len(p) + 1
        /\ a[Len(p) + 1] = x /\ \A i \in 1 .. Len(p) : a[i] = p[i]
    OBVIOUS
  <1> HIDE DEF a
  <1>2. /\ s \o p \in Seq(S) /\ Len(s \o p) = Len(s) + Len(p)
        /\ \A i \in 1 .. Len(s) + Len(p) : (s \o p)[i] = IF i <= Len(s) THEN s[i] ELSE p[i - Len(s)]
    BY ConcatProperties
  <1>3. /\ s \o a \in Seq(S) /\ Len(s \o a) = Len(s) + Len(a)
        /\ \A i \in 1 .. Len(s) + Len(a) : (s \o a)[i] = IF i <= Len(s) THEN s[i] ELSE a[i - Len(s)]
    BY <1>1, ConcatProperties
  <1>4. (s \o a)[Len(s \o p) + 1] = x
    <2>1. Len(s \o p) + 1 \in 1 .. Len(s) + Len(a) /\ Len(s \o p) + 1 - Len(s) = Len(p) + 1
      BY <1>1, <1>2
    <2>2. ~(Len(s \o p) + 1 <= Len(s))
      BY <1>1, <1>2
    <2> QED
      BY <1>1, <1>3, <2>1, <2>2
  <1>5. ASSUME NEW i \in 1 .. Len(s \o p) PROVE (s \o a)[i] = (s \o p)[i]
    <2>1. CASE i <= Len(s)
      BY <1>1, <1>2, <1>3, <2>1
    <2>2. CASE i > Len(s)
      <3>1. i - Len(s) \in 1 .. Len(p)
        BY <1>1, <1>2, <2>2
      <3>2. (s \o a)[i] = a[i - Len(s)] /\ (s \o p)[i] = p[i - Len(s)]
        BY <1>1, <1>2, <1>3, <2>2
      <3> QED
        BY <1>1, <3>1, <3>2
    <2> QED
      BY <1>1, <1>2, <2>1, <2>2
  <1> QED
    BY <1>1, <1>2, <1>3, <1>4, <1>5 DEF a

-----------------------------------------------------------------------------
(* The invariant.                                                          *)

Shape ==
    /\ output \in Seq(Pieces) /\ pipe \in [Streams -> Seq(Pieces)]
    /\ fd_open \in [Streams -> BOOLEAN] /\ wrote \in Nat /\ status \in Statuses
    /\ answer \in Outcomes \cup {"unusable", Silent} /\ proc \in {"running", "exited"}

(* An end is noticed only after it came, and the slot is freed after that. *)
EndIsReal == (ended => proc = "exited") /\ (~pid => ended) /\ (pid => result = "none")

(* Nobody else wrote, no read failed and the answer fits.                  *)
Undisturbed == helper = "none" /\ ~read_failed /\ wrote <= Capacity

(* All that was written to stdout is in the buffer or still in the pipe.   *)
Whole == output \o pipe["out"]

WholeIsAnswer ==
    /\ Len(Whole) = wrote
    /\ answer = Silent => \A i \in 1 .. wrote : Whole[i] = "part"
    /\ answer # Silent => OneLine(Whole)

AnswerArrives ==
    Undisturbed =>
        /\ ~overflow /\ ~io_error
        /\ ~fd_open["out"] => proc = "exited" /\ pipe["out"] = <<>>
        /\ WholeIsAnswer

ChildInv == Shape /\ EndIsReal /\ AnswerArrives /\ AnswerIsTruth

LEMMA StreamFacts == "out" \in Streams /\ "err" \in Streams /\ "out" # "err"
                     /\ \A s \in Streams : s = "out" \/ s = "err"
  BY DEF Streams

LEMMA InitChildInv == Init => ChildInv
  <1> SUFFICES ASSUME Init PROVE ChildInv
    OBVIOUS
  <1>1. Shape
    BY StreamFacts DEF Init, Shape, Pieces, Statuses, Silent
  <1>2. EndIsReal
    BY DEF Init, EndIsReal
  <1>3. Whole = <<>> /\ Len(Whole) = 0
    BY StreamFacts DEF Init, Whole
  <1>4. AnswerArrives
    BY <1>3, StreamFacts DEF Init, AnswerArrives, WholeIsAnswer
  <1>5. AnswerIsTruth
    BY DEF Init, AnswerIsTruth, NoAnswerInvented, NoAnswerLost
  <1> QED
    BY <1>1, <1>2, <1>4, <1>5 DEF ChildInv

(* A process that writes is not collected yet; there is nothing to judge.  *)
LEMMA NothingTold ==
  ASSUME ChildInv, result' = result, pid
  PROVE  AnswerIsTruth'
  BY DEF ChildInv, EndIsReal, AnswerIsTruth, NoAnswerInvented, NoAnswerLost

LEMMA MeaningIsSaid ==
  ASSUME NEW line \in Lines
  PROVE  Meaning(line) \in Outcomes \cup {"unusable"} /\ Meaning(line) # Silent
  BY DEF Meaning, Outcomes, Silent

LEMMA WriteAnswerStep == ChildInv /\ WriteAnswer => ChildInv'
  <1> SUFFICES ASSUME ChildInv, WriteAnswer PROVE ChildInv'
    OBVIOUS
  <1> USE StreamFacts DEF process, slot, CanWrite
  <1>1. /\ proc = "running" /\ answer = Silent /\ fd_open["out"] /\ wrote' = wrote + 1
        /\ UNCHANGED <<proc, status, helper, slot, pc, reads, read_failed>>
    BY DEF WriteAnswer
  <1>2. Shape /\ EndIsReal /\ pid
    BY <1>1 DEF ChildInv, EndIsReal
  <1>3. PICK x \in {"part", "last"} :
          /\ pipe' = [pipe EXCEPT !["out"] = Append(@, x)]
          /\ x = "part" => answer' = Silent
          /\ x = "last" => answer' \in Outcomes \cup {"unusable"} /\ answer' # Silent
    <2>1. \/ pipe' = [pipe EXCEPT !["out"] = Append(@, "part")] /\ answer' = Silent
          \/ /\ pipe' = [pipe EXCEPT !["out"] = Append(@, "last")]
             /\ answer' \in {Meaning(line) : line \in Lines}
      BY <1>1 DEF WriteAnswer, Put
    <2> QED
      BY <2>1, MeaningIsSaid
  <1>4. x \in Pieces /\ pipe["out"] \in Seq(Pieces) /\ output \in Seq(Pieces)
    BY <1>2 DEF Shape, Pieces
  <1>5. pipe'["out"] = Append(pipe["out"], x) /\ output' = output
    BY <1>1, <1>2, <1>3 DEF Shape
  <1>6. Shape'
    <2>1. pipe' \in [Streams -> Seq(Pieces)]
      BY <1>2, <1>3, <1>4 DEF Shape
    <2>2. answer' \in Outcomes \cup {"unusable", Silent}
      BY <1>3
    <2> QED
      BY <1>1, <1>2, <2>1, <2>2 DEF Shape
  <1>7. EndIsReal'
    BY <1>1, <1>2 DEF EndIsReal
  <1>8. AnswerArrives'
    <2> SUFFICES ASSUME Undisturbed'
                 PROVE  /\ ~overflow' /\ ~io_error'
                        /\ ~fd_open'["out"] => proc' = "exited" /\ pipe'["out"] = <<>>
                        /\ WholeIsAnswer'
      BY DEF AnswerArrives
    <2>1. Undisturbed
      BY <1>1, <1>2, SizeAssumption DEF Undisturbed, Shape
    <2>2. ~overflow /\ ~io_error /\ WholeIsAnswer
      BY <2>1 DEF ChildInv, AnswerArrives
    <2>3. /\ Len(Whole) = wrote /\ \A i \in 1 .. wrote : Whole[i] = "part"
      BY <1>1, <2>2 DEF WholeIsAnswer
    <2>4. /\ Whole \in Seq(Pieces) /\ Whole' \in Seq(Pieces) /\ Len(Whole') = wrote + 1
          /\ Whole'[wrote + 1] = x
          /\ \A i \in 1 .. wrote : Whole'[i] = Whole[i]
      BY <1>4, <1>5, <2>3, WriteExtends DEF Whole
    <2>5. WholeIsAnswer'
      <3>1. wrote \in Nat /\ wrote' = wrote + 1
        BY <1>1, <1>2 DEF Shape
      <3>2. \A i \in 1 .. wrote' : i = wrote + 1 \/ i \in 1 .. wrote
        BY <3>1
      <3>3. \A i \in 1 .. wrote' : Whole'[i] = IF i = wrote + 1 THEN x ELSE "part"
        BY <2>3, <2>4, <3>1, <3>2
      <3>4. CASE x = "part"
        BY <1>3, <2>4, <3>1, <3>3, <3>4 DEF WholeIsAnswer
      <3>5. CASE x = "last"
        <4>1. Whole' # <<>> /\ Whole'[Len(Whole')] = "last"
          BY <2>4, <3>1, <3>5
        <4>2. \A i \in 1 .. Len(Whole') : Whole'[i] # "noise"
          BY <2>4, <3>1, <3>3, <3>5
        <4>3. OneLine(Whole')
          BY <4>1, <4>2 DEF OneLine
        <4> QED
          BY <1>3, <2>4, <3>1, <3>5, <4>3 DEF WholeIsAnswer
      <3> QED
        BY <3>4, <3>5
    <2> QED
      BY <1>1, <2>2, <2>5
  <1>9. AnswerIsTruth'
    BY <1>1, <1>2, NothingTold
  <1> QED
    BY <1>6, <1>7, <1>8, <1>9 DEF ChildInv

(* What was told stays true while answer and end stay as they are.         *)
LEMMA TruthStays ==
  ASSUME ChildInv, UNCHANGED <<result, answer, status, wrote>>,
         helper' = helper \/ helper' # "none", read_failed => read_failed'
  PROVE  AnswerIsTruth'
  BY DEF ChildInv, AnswerIsTruth, NoAnswerInvented, NoAnswerLost, Truth

(* The other steps of the processes write nothing to stdout or disturb.    *)
LEMMA OthersStep ==
  ASSUME ChildInv,
         WriteDiagnostics \/ StartHelper \/ HelperQuiet \/ (\E s \in Streams : HelperWrites(s))
  PROVE  ChildInv'
  <1> USE StreamFacts DEF process, slot
  <1>1. Shape /\ EndIsReal
    BY DEF ChildInv
  <1>2. UNCHANGED <<answer, proc, status, wrote, pid, fd_open, ended, overflow, io_error,
                    output, result, read_failed>>
    BY DEF WriteDiagnostics, StartHelper, HelperQuiet, HelperWrites
  <1>3. /\ helper' = helper \/ helper' # "none"
        /\ pipe'["out"] = pipe["out"] \/ (helper' # "none" /\ helper # "none")
    BY <1>1 DEF WriteDiagnostics, StartHelper, HelperQuiet, HelperWrites, Put, Shape
  <1>4. pipe' \in [Streams -> Seq(Pieces)]
    <2>1. CASE pipe' = pipe
      BY <1>1, <2>1 DEF Shape
    <2>2. ASSUME NEW s \in Streams, Put(s, "noise") PROVE pipe' \in [Streams -> Seq(Pieces)]
      <3>1. Append(pipe[s], "noise") \in Seq(Pieces)
        BY <1>1 DEF Shape, Pieces
      <3> QED
        BY <1>1, <2>2, <3>1 DEF Shape, Put
    <2> QED
      BY <2>1, <2>2 DEF WriteDiagnostics, StartHelper, HelperQuiet, HelperWrites
  <1>5. Shape' /\ EndIsReal'
    BY <1>1, <1>2, <1>4 DEF Shape, EndIsReal
  <1>6. AnswerArrives'
    <2> SUFFICES ASSUME Undisturbed' PROVE AnswerArrives'
      BY DEF AnswerArrives
    <2>1. Undisturbed /\ pipe'["out"] = pipe["out"]
      BY <1>2, <1>3 DEF Undisturbed
    <2>2. Whole' = Whole
      BY <1>2, <2>1 DEF Whole
    <2> QED
      BY <1>2, <2>1, <2>2 DEF ChildInv, AnswerArrives, WholeIsAnswer
  <1>7. AnswerIsTruth'
    BY <1>2, <1>3, TruthStays
  <1> QED
    BY <1>5, <1>6, <1>7 DEF ChildInv

LEMMA ExitStep == ChildInv /\ Exit => ChildInv'
  <1> SUFFICES ASSUME ChildInv, Exit PROVE ChildInv'
    OBVIOUS
  <1>1. /\ proc = "running" /\ proc' = "exited" /\ status' \in Statuses
        /\ UNCHANGED <<answer, wrote, helper, pipe, pid, fd_open, ended, overflow, io_error,
                       output, result, read_failed>>
    BY DEF Exit, slot
  <1>2. Shape' /\ EndIsReal' /\ pid
    BY <1>1 DEF ChildInv, Shape, EndIsReal
  <1>3. Whole' = Whole
    BY <1>1 DEF Whole
  <1>4. AnswerArrives'
    BY <1>1, <1>3 DEF ChildInv, AnswerArrives, Undisturbed, WholeIsAnswer
  <1>5. AnswerIsTruth'
    BY <1>1, <1>2, NothingTold
  <1> QED
    BY <1>2, <1>4, <1>5 DEF ChildInv

(* waitpid, the end of a pass and the start of one leave the data alone.   *)
LEMMA WaitStep ==
  ASSUME ChildInv, BeginPass \/ Waitpid \/ \E s \in Streams : LeaveDrain(s)
  PROVE  ChildInv'
  <1>1. /\ UNCHANGED <<answer, proc, status, wrote, helper, pipe, pid, fd_open, overflow,
                       io_error, output, result, read_failed>>
        /\ ended' = ended \/ (ended' /\ proc = "exited")
    BY DEF BeginPass, Waitpid, LeaveDrain, process, slot
  <1>2. Shape' /\ EndIsReal'
    BY <1>1 DEF ChildInv, Shape, EndIsReal
  <1>3. Whole' = Whole
    BY <1>1 DEF Whole
  <1>4. AnswerArrives'
    BY <1>1, <1>3 DEF ChildInv, AnswerArrives, Undisturbed, WholeIsAnswer
  <1>5. AnswerIsTruth'
    BY <1>1, TruthStays
  <1> QED
    BY <1>2, <1>4, <1>5 DEF ChildInv

LEMMA ReadStep == ASSUME ChildInv, NEW s \in Streams, Read(s) PROVE ChildInv'
  <1> USE StreamFacts DEF process
  <1>1. /\ pipe[s] # <<>> /\ pipe' = [pipe EXCEPT ![s] = Tail(@)]
        /\ UNCHANGED <<answer, proc, status, wrote, helper, pid, fd_open, ended, io_error,
                       result, read_failed>>
    BY DEF Read
  <1>2. Shape /\ EndIsReal /\ pipe[s] \in Seq(Pieces) /\ output \in Seq(Pieces)
    BY DEF ChildInv, Shape
  <1>3. Head(pipe[s]) \in Pieces /\ Tail(pipe[s]) \in Seq(Pieces)
    BY <1>1, <1>2, HeadTailProperties
  <1>4. \/ s = "err" /\ UNCHANGED <<output, overflow>>
        \/ s = "out" /\ output' = Append(output, Head(pipe["out"])) /\ UNCHANGED overflow
        \/ s = "out" /\ Len(output) >= Capacity /\ UNCHANGED output /\ overflow'
    <2>1. Len(output) \in Nat /\ Capacity \in Nat
      BY <1>2, SizeAssumption
    <2> QED
      BY <2>1 DEF Read, Fits
  <1>5. Shape'
    <2>1. output' \in Seq(Pieces)
      BY <1>2, <1>3, <1>4
    <2>2. pipe' \in [Streams -> Seq(Pieces)]
      BY <1>1, <1>2, <1>3 DEF Shape
    <2> QED
      BY <1>1, <1>2, <2>1, <2>2 DEF Shape
  <1>6. EndIsReal'
    BY <1>1, <1>2 DEF EndIsReal
  <1>7. AnswerArrives'
    <2> SUFFICES ASSUME Undisturbed' PROVE AnswerArrives'
      BY DEF AnswerArrives
    <2>1. Undisturbed
      BY <1>1 DEF Undisturbed
    <2>2. /\ ~overflow /\ ~io_error /\ WholeIsAnswer
          /\ ~fd_open["out"] => proc = "exited" /\ pipe["out"] = <<>>
      BY <2>1 DEF ChildInv, AnswerArrives
    <2>3. CASE s = "err"
      <3>1. pipe'["out"] = pipe["out"] /\ UNCHANGED <<output, overflow>>
        BY <1>1, <1>2, <1>4, <2>3 DEF Shape
      <3>2. Whole' = Whole
        BY <3>1 DEF Whole
      <3> QED
        BY <1>1, <2>2, <3>1, <3>2 DEF AnswerArrives, WholeIsAnswer
    <2>4. CASE s = "out"
      <3>1. Len(output) < Capacity
        <4>1. Len(Whole) = Len(output) + Len(pipe["out"]) /\ Len(pipe["out"]) > 0
          BY <1>1, <1>2, <2>4, ConcatProperties, EmptySeq DEF Whole
        <4>2. Len(Whole) = wrote /\ wrote <= Capacity
          BY <2>1, <2>2 DEF WholeIsAnswer, Undisturbed
        <4>3. Len(output) \in Nat /\ Len(pipe["out"]) \in Nat /\ wrote \in Nat /\ Capacity \in Nat
          BY <1>2, <2>4, SizeAssumption DEF Shape
        <4> QED
          BY <4>1, <4>2, <4>3
      <3>2. output' = Append(output, Head(pipe["out"])) /\ UNCHANGED overflow
        BY <1>2, <1>4, <2>4, <3>1, SizeAssumption
      <3>3. pipe'["out"] = Tail(pipe["out"])
        BY <1>1, <1>2, <2>4 DEF Shape
      <3>4. Whole' = Whole
        BY <1>1, <1>2, <2>4, <3>2, <3>3, ReadMovesPiece DEF Whole
      <3>5. fd_open["out"]
        BY <1>1, <2>2, <2>4
      <3> QED
        BY <1>1, <2>2, <3>2, <3>4, <3>5 DEF AnswerArrives, WholeIsAnswer
    <2> QED
      BY <2>3, <2>4
  <1>8. AnswerIsTruth'
    BY <1>1, TruthStays
  <1> QED
    BY <1>5, <1>6, <1>7, <1>8 DEF ChildInv

(* A stream is closed: at its end, after a failure, or given up because    *)
(* others still hold it.  Undisturbed, only the first happens to stdout,   *)
(* and then everything was read.                                           *)
LEMMA CloseStep ==
  ASSUME ChildInv, NEW s \in Streams, ReadEOF(s) \/ ReadEmpty(s) \/ ReadFails(s)
  PROVE  ChildInv'
  <1> USE StreamFacts DEF process
  <1>1. UNCHANGED <<answer, proc, status, wrote, helper, pipe, pid, ended, overflow, output, result>>
    BY DEF ReadEOF, ReadEmpty, ReadFails
  <1>2. Shape /\ EndIsReal
    BY DEF ChildInv
  <1>3. /\ fd_open' = fd_open \/ fd_open' = [fd_open EXCEPT ![s] = FALSE]
        /\ read_failed => read_failed'
    <2>1. CASE ReadEOF(s)
      BY <2>1 DEF ReadEOF, Closed
    <2>2. CASE ReadEmpty(s)
      BY <2>2 DEF ReadEmpty, Closed
    <2>3. CASE ReadFails(s)
      BY <2>3 DEF ReadFails, Closed
    <2> QED
      BY <2>1, <2>2, <2>3
  <1>4. Shape' /\ EndIsReal'
    <2>1. fd_open' \in [Streams -> BOOLEAN]
      BY <1>2, <1>3 DEF Shape
    <2>2. Shape'
      BY <1>1, <1>2, <2>1 DEF Shape
    <2>3. EndIsReal'
      BY <1>1, <1>2 DEF EndIsReal
    <2> QED
      BY <2>2, <2>3
  <1>5. AnswerArrives'
    <2> SUFFICES ASSUME Undisturbed' PROVE AnswerArrives'
      BY DEF AnswerArrives
    <2>1. Undisturbed
      BY <1>1, <1>3 DEF Undisturbed
    <2>2. /\ ~overflow /\ ~io_error /\ WholeIsAnswer
          /\ ~fd_open["out"] => proc = "exited" /\ pipe["out"] = <<>>
      BY <2>1 DEF ChildInv, AnswerArrives
    <2>3. Whole' = Whole
      BY <1>1 DEF Whole
    <2>4. ~io_error' /\ (fd_open'["out"] = fd_open["out"] \/ (proc = "exited" /\ pipe["out"] = <<>>))
      <3>1. CASE s = "err"
        <4>1. fd_open'["out"] = fd_open["out"]
          BY <1>2, <1>3, <3>1 DEF Shape
        <4>2. ~io_error'
          BY <2>2, <3>1 DEF ReadEOF, ReadEmpty, ReadFails
        <4> QED
          BY <4>1, <4>2
      <3>2. CASE s = "out"
        <4>1. CASE ReadEOF(s)
          <5>1. proc # "running" /\ pipe["out"] = <<>> /\ io_error' = io_error
            BY <3>2, <4>1 DEF ReadEOF, HoldsPipe
          <5>2. proc = "exited"
            BY <1>2, <5>1 DEF Shape
          <5> QED
            BY <2>2, <5>1, <5>2
        <4>2. CASE ReadEmpty(s)
          <5>1. proc = "running"
            BY <2>1, <4>2 DEF ReadEmpty, HoldsPipe, Undisturbed
          <5>2. ~ended
            BY <1>2, <5>1 DEF EndIsReal
          <5> QED
            BY <2>2, <4>2, <5>2 DEF ReadEmpty, GivesUp
        <4>3. CASE ReadFails(s)
          BY <3>2, <4>3 DEF ReadFails, Undisturbed
        <4> QED
          BY <4>1, <4>2, <4>3
      <3> QED
        BY <3>1, <3>2
    <2> QED
      BY <1>1, <2>2, <2>3, <2>4 DEF AnswerArrives, WholeIsAnswer
  <1>6. AnswerIsTruth'
    BY <1>1, <1>3, TruthStays
  <1> QED
    BY <1>4, <1>5, <1>6 DEF ChildInv

(* The end of a process is judged.  Undisturbed, the buffer is the answer. *)
LEMMA JudgedRightly ==
  ASSUME ChildInv, Done
  PROVE  /\ Collected \in {"abnormal", Truth}
         /\ Undisturbed => Collected = Truth
  <1>1. /\ status \in Statuses /\ answer \in Outcomes \cup {"unusable", Silent}
        /\ output \in Seq(Pieces)
    BY DEF ChildInv, Shape
  <1>2. Understood(answer, status) = Truth
    BY <1>1 DEF Understood, Truth, Statuses
  <1>3. Collected \in {"abnormal", Truth}
    BY <1>2 DEF Collected, host_result_parse
  <1>4. ASSUME Undisturbed PROVE Collected = Truth
    <2>1. /\ ~overflow /\ ~io_error /\ pipe["out"] = <<>> /\ WholeIsAnswer
      BY <1>4, StreamFacts DEF ChildInv, AnswerArrives, Done
    <2>2. Whole = output
      BY <1>1, <2>1, ConcatEmptySeq DEF Whole
    <2>3. CASE answer = Silent
      BY <1>2, <1>3, <2>3 DEF Truth, Silent
    <2>4. CASE answer # Silent
      <3>1. OneLine(output)
        BY <2>1, <2>2, <2>4 DEF WholeIsAnswer
      <3> QED
        BY <1>2, <2>1, <3>1 DEF Collected, host_result_parse
    <2> QED
      BY <2>3, <2>4
  <1> QED
    BY <1>3, <1>4

LEMMA CheckStep == ChildInv /\ Check => ChildInv'
  <1> SUFFICES ASSUME ChildInv, Check PROVE ChildInv'
    OBVIOUS
  <1>1. /\ UNCHANGED <<answer, proc, status, wrote, helper, pipe, fd_open, ended, overflow,
                       io_error, output, read_failed>>
        /\ \/ Done /\ ~pid' /\ result' = Collected
           \/ UNCHANGED <<pid, result>>
    BY DEF Check, process
  <1>2. Shape' /\ EndIsReal'
    BY <1>1 DEF ChildInv, Shape, EndIsReal, Done
  <1>3. Whole' = Whole
    BY <1>1 DEF Whole
  <1>4. AnswerArrives'
    BY <1>1, <1>3 DEF ChildInv, AnswerArrives, Undisturbed, WholeIsAnswer
  <1>5. AnswerIsTruth'
    <2>1. CASE Done /\ result' = Collected
      <3>1. Truth' = Truth /\ Undisturbed' = Undisturbed
        BY <1>1 DEF Truth, Undisturbed
      <3>2. NoAnswerInvented'
        BY <2>1, <3>1, JudgedRightly DEF NoAnswerInvented
      <3>3. NoAnswerLost'
        <4> SUFFICES ASSUME result' = "abnormal", Truth # "abnormal"
                     PROVE  helper # "none" \/ read_failed \/ wrote > Capacity
          BY <1>1, <3>1 DEF NoAnswerLost
        <4>1. ~Undisturbed
          BY <2>1, JudgedRightly
        <4>2. wrote \in Nat /\ Capacity \in Nat
          BY SizeAssumption DEF ChildInv, Shape
        <4> QED
          BY <4>1, <4>2 DEF Undisturbed
      <3> QED
        BY <3>2, <3>3 DEF AnswerIsTruth
    <2>2. CASE UNCHANGED result
      BY <1>1, <2>2, TruthStays
    <2> QED
      BY <1>1, <2>1, <2>2
  <1> QED
    BY <1>2, <1>4, <1>5 DEF ChildInv

LEMMA NextChildInv == ChildInv /\ [Next]_vars => ChildInv'
  <1> SUFFICES ASSUME ChildInv, [Next]_vars PROVE ChildInv'
    OBVIOUS
  <1>1. CASE WriteAnswer
    BY <1>1, WriteAnswerStep
  <1>2. CASE WriteDiagnostics \/ StartHelper \/ HelperQuiet \/ \E s \in Streams : HelperWrites(s)
    BY <1>2, OthersStep
  <1>3. CASE Exit
    BY <1>3, ExitStep
  <1>4. CASE BeginPass \/ Waitpid \/ \E s \in Streams : LeaveDrain(s)
    BY <1>4, WaitStep
  <1>5. CASE \E s \in Streams : Read(s)
    BY <1>5, ReadStep
  <1>6. CASE \E s \in Streams : ReadEOF(s) \/ ReadEmpty(s) \/ ReadFails(s)
    BY <1>6, CloseStep
  <1>7. CASE Check
    BY <1>7, CheckStep
  <1>8. CASE UNCHANGED vars
    <2>1. UNCHANGED <<answer, proc, status, wrote, helper, pipe, pid, fd_open, ended, overflow,
                      io_error, output, result, read_failed>>
      BY <1>8 DEF vars, process, slot
    <2>2. Shape' /\ EndIsReal'
      BY <2>1 DEF ChildInv, Shape, EndIsReal
    <2>3. AnswerArrives'
      BY <2>1 DEF ChildInv, AnswerArrives, Undisturbed, WholeIsAnswer, Whole
    <2>4. AnswerIsTruth'
      BY <2>1, TruthStays
    <2> QED
      BY <2>2, <2>3, <2>4 DEF ChildInv
  <1> QED
    BY <1>1, <1>2, <1>3, <1>4, <1>5, <1>6, <1>7, <1>8 DEF Next, Worker

(* Whatever the process writes, however the pipes fill and whenever        *)
(* waitpid notices the end, the invariant holds.                           *)
THEOREM ChildAlwaysInv == Spec => []ChildInv
  <1> QED
    BY InitChildInv, NextChildInv, PTL DEF Spec

(* process.c and result.c tell the scheduler what camctl said, no more and *)
(* no less, for every buffer size, pipe size and quota of reads.           *)
THEOREM AnswersAreBelieved == Spec => []AnswerIsTruth
  <1>1. ChildInv => AnswerIsTruth
    BY DEF ChildInv
  <1> QED
    BY <1>1, ChildAlwaysInv, PTL

(* host_child_done frees the slot only of a process that has ended.        *)
THEOREM SlotIsKept == Spec => []SlotOutlivesProcess
  <1>1. ChildInv => SlotOutlivesProcess
    BY DEF ChildInv, EndIsReal, SlotOutlivesProcess
  <1> QED
    BY <1>1, ChildAlwaysInv, PTL

-----------------------------------------------------------------------------
(* The claim.                                                              *)

Places == {"idle", "list", "finish", "check", "stat", "rename", "recheck", "sync"}
Verdicts == {"moved", "move_failed", "move_unknown"}
Distinct(s) == \A i, j \in 1 .. Len(s) : s[i] = s[j] => i = j

\* The names that have not been tried; the first one has, when its failure is
\* being looked into.
Left == IF at = "recheck" THEN Range(Tail(names)) ELSE Range(names)

Listing ==
  /\ names \in Seq(Names) /\ Distinct(names) /\ may \subseteq Names /\ at \in Places
  /\ at \in {"stat", "rename", "recheck"} => names # <<>>
  /\ at \in {"list", "finish"} => taken = {} /\ told = {}

\* Each listed name is tried once, so what is said of it is said once.
Untried ==
  at \notin {"idle", "sync"} =>
    \A n \in Left : n \notin taken /\ \A v \in Verdicts : <<v, n>> \notin told

TruthInv == Listing /\ Untried /\ ToldTruly

\* What the code takes from the front of its list.
LEMMA FrontOfList ==
  ASSUME NEW S, NEW s \in Seq(S), Distinct(s), s # <<>>
  PROVE  /\ Head(s) \in S /\ Tail(s) \in Seq(S) /\ Distinct(Tail(s))
         /\ Range(s) = {Head(s)} \union Range(Tail(s))
         /\ Head(s) \notin Range(Tail(s))
<1>1. Len(s) \in Nat /\ Len(s) > 0 /\ s = [i \in 1 .. Len(s) |-> s[i]] /\ Head(s) = s[1]
  OBVIOUS
<1>2. Tail(s) \in Seq(S) /\ Len(Tail(s)) = Len(s) - 1 /\ DOMAIN Tail(s) = 1 .. Len(s) - 1
  OBVIOUS
<1>3. \A i \in 1 .. Len(s) - 1 : Tail(s)[i] = s[i + 1]
  OBVIOUS
<1>4. Distinct(Tail(s))
  BY <1>1, <1>2, <1>3 DEF Distinct
<1>5. Range(s) = {Head(s)} \union Range(Tail(s))
  <2>1. ASSUME NEW i \in 1 .. Len(s)
        PROVE  s[i] \in {Head(s)} \union Range(Tail(s))
    <3>1. CASE i = 1
      BY <3>1, <1>1
    <3>2. CASE i # 1
      <4>1. i - 1 \in DOMAIN Tail(s) /\ Tail(s)[i - 1] = s[i]
        BY <3>2, <1>1, <1>2, <1>3
      <4>2. QED
        BY <4>1 DEF Range
    <3>3. QED
      BY <3>1, <3>2
  <2>2. ASSUME NEW i \in DOMAIN Tail(s)
        PROVE  Tail(s)[i] \in Range(s)
    <3>1. i + 1 \in DOMAIN s /\ Tail(s)[i] = s[i + 1]
      BY <1>1, <1>2, <1>3
    <3>2. QED
      BY <3>1 DEF Range
  <2>3. Head(s) \in Range(s) /\ DOMAIN s = 1 .. Len(s)
    BY <1>1 DEF Range
  <2>4. QED
    BY <2>1, <2>2, <2>3 DEF Range
<1>6. Head(s) \notin Range(Tail(s))
  <2>1. ASSUME NEW i \in DOMAIN Tail(s), Tail(s)[i] = Head(s)
        PROVE  FALSE
    BY <2>1, <1>1, <1>2, <1>3 DEF Distinct
  <2>2. QED
    BY <2>1 DEF Range
<1>7. QED
  BY <1>1, <1>2, <1>4, <1>5, <1>6

\* What reading one more name does to the list.
LEMMA EndOfList ==
  ASSUME NEW S, NEW s \in Seq(S), Distinct(s), NEW n \in S, n \notin Range(s)
  PROVE  /\ Append(s, n) \in Seq(S) /\ Distinct(Append(s, n))
         /\ Range(Append(s, n)) = Range(s) \union {n}
<1>1. /\ Append(s, n) \in Seq(S) /\ Len(Append(s, n)) = Len(s) + 1 /\ Len(s) \in Nat
      /\ DOMAIN s = 1 .. Len(s) /\ DOMAIN Append(s, n) = 1 .. Len(s) + 1
      /\ Append(s, n)[Len(s) + 1] = n
      /\ \A i \in 1 .. Len(s) : Append(s, n)[i] = s[i]
  OBVIOUS
<1>2. \A i \in 1 .. Len(s) : s[i] # n
  BY <1>1 DEF Range
<1>3. Distinct(Append(s, n))
  <2> SUFFICES ASSUME NEW i \in 1 .. Len(s) + 1, NEW j \in 1 .. Len(s) + 1,
                      Append(s, n)[i] = Append(s, n)[j]
               PROVE  i = j
    BY <1>1 DEF Distinct
  <2>1. (i = Len(s) + 1 \/ i \in 1 .. Len(s)) /\ (j = Len(s) + 1 \/ j \in 1 .. Len(s))
    BY <1>1
  <2>2. QED
    BY <1>1, <1>2, <2>1 DEF Distinct
<1>4. Range(Append(s, n)) = Range(s) \union {n}
  <2>1. 1 .. Len(s) + 1 = (1 .. Len(s)) \union {Len(s) + 1}
    BY <1>1
  <2>2. QED
    BY <1>1, <2>1 DEF Range
<1>5. QED
  BY <1>1, <1>3, <1>4

LEMMA EmptyList == <<>> \in Seq(Names) /\ Distinct(<<>>) /\ Range(<<>>) = {}
BY DEF Distinct, Range

------------------------------------------------------------------------------
LEMMA TruthInit == ClaimInit => TruthInv
<1> SUFFICES ASSUME ClaimInit PROVE TruthInv
  OBVIOUS
<1>1. Listing
  BY EmptyList DEF ClaimInit, Listing, Places
<1>2. Untried /\ ToldTruly
  BY DEF ClaimInit, Untried, ToldTruly
<1>3. QED
  BY <1>1, <1>2 DEF TruthInv

LEMMA TruthBegin == TruthInv /\ begin => TruthInv'
<1> SUFFICES ASSUME TruthInv, begin PROVE TruthInv'
  OBVIOUS
<1>1. /\ names' = <<>> /\ taken' = {} /\ ((at' = "list" /\ told' = {}) \/ at' = "idle")
      /\ told' \subseteq {<<"directories", "">>}
  BY DEF begin
<1>2. may' \subseteq Names
  BY DEF begin, Present
<1>3. Listing'
  BY <1>1, <1>2, EmptyList DEF Listing, Places
<1>4. (Untried /\ ToldTruly)'
  BY <1>1, EmptyList DEF Untried, Left, Verdicts, ToldTruly
<1>5. QED
  BY <1>3, <1>4 DEF TruthInv

LEMMA TruthNext == TruthInv /\ next => TruthInv'
<1> SUFFICES ASSUME TruthInv, next PROVE TruthInv'
  OBVIOUS
<1>1. at = "list" /\ taken = {} /\ told = {} /\ taken' = {} /\ may' = may
  BY DEF next, TruthInv, Listing, listing
<1>2. CASE \E n \in may \ Range(names) : names' = Append(names, n) /\ UNCHANGED <<at, told>>
  <2>1. PICK n \in may \ Range(names) : names' = Append(names, n) /\ UNCHANGED <<at, told>>
    BY <1>2
  <2>2. names' \in Seq(Names) /\ Distinct(names)'
    BY <2>1, EndOfList DEF TruthInv, Listing, Distinct
  <2>3. Listing'
    BY <1>1, <2>1, <2>2 DEF TruthInv, Listing
  <2>4. (Untried /\ ToldTruly)'
    BY <1>1, <2>1 DEF Untried, ToldTruly
  <2>5. QED
    BY <2>3, <2>4 DEF TruthInv
<1>3. CASE \/ \E n \in Names \union {""}, e \in {"list_limit", "list_allocate", "enumerate"} :
                at' = "idle" /\ told' = {<<e, n>>} /\ names' = names
           \/ at' = "finish" /\ UNCHANGED <<names, told>>
  <2>1. Listing'
    BY <1>1, <1>3 DEF TruthInv, Listing, Places, Distinct
  <2>2. (Untried /\ ToldTruly)'
    BY <1>1, <1>3 DEF Untried, Verdicts, ToldTruly
  <2>3. QED
    BY <2>1, <2>2 DEF TruthInv
<1>4. may \subseteq Names
  BY DEF TruthInv, Listing
<1>5. QED
  BY <1>1, <1>2, <1>3, <1>4 DEF next, AddToList, GiveUp, diagnose

LEMMA TruthFinish == TruthInv /\ finish_listing => TruthInv'
<1> SUFFICES ASSUME TruthInv, finish_listing PROVE TruthInv'
  OBVIOUS
<1>1. taken = {} /\ told = {} /\ taken' = {} /\ may' = may /\ names' = names
  BY DEF finish_listing, TruthInv, Listing, listing, GiveUp
<1>2. \/ at' = "check" /\ told' = {}
      \/ at' = "idle" /\ told' = {<<"enumerate_close", "">>}
  BY <1>1 DEF finish_listing, GiveUp, diagnose
<1>3. Listing'
  BY <1>1, <1>2 DEF TruthInv, Listing, Places, Distinct
<1>4. (Untried /\ ToldTruly)'
  BY <1>1, <1>2 DEF Untried, ToldTruly
<1>5. QED
  BY <1>3, <1>4 DEF TruthInv

LEMMA TruthHealthy == TruthInv /\ healthy => TruthInv'
<1> SUFFICES ASSUME TruthInv, healthy PROVE TruthInv'
  OBVIOUS
<1>1. /\ at = "check" /\ names' = names /\ taken' = taken /\ may' = may
      /\ \/ at' = "sync" /\ told' = told
         \/ at' = "stat" /\ told' = told /\ names # <<>>
         \/ at' = "sync" /\ told' = told \union {<<"directories", Name>>}
  BY DEF healthy, diagnose, listing
<1>2. Listing'
  BY <1>1 DEF TruthInv, Listing, Places, Distinct
<1>3. (Untried /\ ToldTruly)'
  BY <1>1 DEF TruthInv, Untried, Left, Verdicts, ToldTruly
<1>4. QED
  BY <1>2, <1>3 DEF TruthInv

\* The file at the front has its one verdict, which agrees with its fate.
LEMMA TruthVerdict ==
  ASSUME TruthInv, at \in {"stat", "rename"}, may' = may,
         NEW v \in Verdicts, told' = told \union {<<v, Name>>},
         taken' = taken \/ taken' = taken \union {Name},
         v = "moved" => Name \in taken', v = "move_failed" => taken' = taken,
         \/ names' = Tail(names) /\ at' = "check"
         \/ names' = names /\ at' = "recheck"
  PROVE  TruthInv'
<1>1. /\ Tail(names) \in Seq(Names) /\ Distinct(Tail(names))
      /\ Range(names) = {Name} \union Range(Tail(names)) /\ Name \notin Range(Tail(names))
  BY FrontOfList DEF TruthInv, Listing, Name
<1>2. Listing'
  BY <1>1 DEF TruthInv, Listing, Places, Distinct
<1>3. Left' = Range(Tail(names)) /\ Left = Range(names)
  BY DEF Left
<1>4. \A n \in Range(names) : n \notin taken /\ \A u \in Verdicts : <<u, n>> \notin told
  BY <1>3 DEF TruthInv, Untried
<1>5. Untried'
  BY <1>1, <1>3, <1>4 DEF Untried, Verdicts
<1>6. ToldTruly'
  BY <1>1, <1>4 DEF TruthInv, ToldTruly, Verdicts
<1>7. QED
  BY <1>2, <1>5, <1>6 DEF TruthInv

LEMMA TruthFstatat == TruthInv /\ fstatat => TruthInv'
<1> SUFFICES ASSUME TruthInv, fstatat PROVE TruthInv'
  OBVIOUS
<1>1. at = "stat" /\ taken' = taken /\ may' = may /\ names' = names
  BY DEF fstatat, listing, NotMoved
<1>2. CASE at' = "rename" /\ told' = told
  BY <1>1, <1>2 DEF TruthInv, Listing, Untried, Left, ToldTruly, Places, Distinct
<1>3. CASE \E v \in {"move_failed", "move_unknown"} :
             at' = "recheck" /\ told' = told \union {<<v, Name>>}
  BY <1>1, <1>3, TruthVerdict DEF Verdicts
<1>4. QED
  BY <1>2, <1>3 DEF fstatat, NotMoved, diagnose

LEMMA TruthRenameat == TruthInv /\ renameat => TruthInv'
<1> SUFFICES ASSUME TruthInv, renameat PROVE TruthInv'
  OBVIOUS
<1>1. at = "rename" /\ may' = may
  BY DEF renameat, listing
<1>2. CASE taken' = taken \union {Name} /\ told' = told \union {<<"moved", Name>>}
           /\ names' = Tail(names) /\ at' = "check"
  BY <1>1, <1>2, TruthVerdict DEF Verdicts
<1>3. CASE taken' = taken /\ told' = told \union {<<"move_failed", Name>>}
           /\ names' = names /\ at' = "recheck"
  BY <1>1, <1>3, TruthVerdict DEF Verdicts
<1>4. CASE (taken' = taken \/ taken' = taken \union {Name})
           /\ told' = told \union {<<"move_unknown", Name>>} /\ names' = names /\ at' = "recheck"
  BY <1>1, <1>4, TruthVerdict DEF Verdicts
<1>5. QED
  BY <1>2, <1>3, <1>4 DEF renameat, MovesTo, NotMoved, Unclear, diagnose

LEMMA TruthRecheck == TruthInv /\ recheck => TruthInv'
<1> SUFFICES ASSUME TruthInv, recheck PROVE TruthInv'
  OBVIOUS
<1>1. /\ at = "recheck" /\ taken' = taken /\ may' = may
      /\ \/ at' = "check" /\ names' = Tail(names) /\ told' = told
         \/ at' = "sync" /\ names' = names /\ told' = told \union {<<"directories", Name>>}
  BY DEF recheck, listing, diagnose
<1>2. Tail(names) \in Seq(Names) /\ Distinct(Tail(names))
  BY <1>1, FrontOfList DEF TruthInv, Listing
<1>3. Listing'
  BY <1>1, <1>2 DEF TruthInv, Listing, Places, Distinct
<1>4. (Untried /\ ToldTruly)'
  BY <1>1 DEF TruthInv, Untried, Left, Verdicts, ToldTruly
<1>5. QED
  BY <1>3, <1>4 DEF TruthInv

LEMMA TruthSync == TruthInv /\ sync => TruthInv'
<1> SUFFICES ASSUME TruthInv, sync PROVE TruthInv'
  OBVIOUS
<1>1. /\ at' = "idle" /\ taken' = taken /\ may' = may /\ names' = names
      /\ (told' = told \/ told' = told \union {<<"directory_sync_unknown", "">>})
  BY DEF sync, listing, diagnose
<1>2. Listing'
  BY <1>1 DEF TruthInv, Listing, Places, Distinct
<1>3. (Untried /\ ToldTruly)'
  BY <1>1 DEF TruthInv, Untried, ToldTruly
<1>4. QED
  BY <1>2, <1>3 DEF TruthInv

\* Others change files and directories, not what the call knows.
LEMMA TruthOthers ==
  ASSUME TruthInv, UNCHANGED <<at, call>>, may' \subseteq Names
  PROVE  TruthInv'
BY DEF TruthInv, Listing, Untried, Left, ToldTruly, Distinct, call

LEMMA OthersChangeNoCall ==
  ASSUME may \subseteq Names,
         \/ \E n \in Names, what \in {"none", "file", "other"} : PutFile(n, what)
         \/ \E how \in {"ok", "stale", "denied"} : Turn(how)
         \/ UNCHANGED claimVars
  PROVE  UNCHANGED <<at, call>> /\ may' \subseteq Names
BY DEF PutFile, Turn, claimVars, call, listing

LEMMA TruthStep == TruthInv /\ [ClaimNext]_claimVars => TruthInv'
<1> SUFFICES ASSUME TruthInv, [ClaimNext]_claimVars PROVE TruthInv'
  OBVIOUS
<1>1. CASE Claim
  BY <1>1, TruthBegin, TruthNext, TruthFinish, TruthHealthy, TruthFstatat, TruthRenameat,
     TruthRecheck, TruthSync DEF Claim
<1>2. CASE \/ \E n \in Names, what \in {"none", "file", "other"} : PutFile(n, what)
           \/ \E how \in {"ok", "stale", "denied"} : Turn(how)
           \/ UNCHANGED claimVars
  <2>1. may \subseteq Names
    BY DEF TruthInv, Listing
  <2>2. QED
    BY <1>2, <2>1, OthersChangeNoCall, TruthOthers
<1>3. QED
  BY <1>1, <1>2 DEF ClaimNext

\* The inductive invariant: the list holds each name once, what is left of it
\* has no verdict yet, and all verdicts so far are true (claim.c:34-81).
THEOREM ListedOnce == ClaimSpec => []TruthInv
<1>1. QED
  BY TruthInit, TruthStep, PTL DEF ClaimSpec

\* The diagnoses of a claim tell what became of every file.
THEOREM DiagnosesAreTrue == ClaimSpec => []ToldTruly
<1>1. TruthInv => ToldTruly
  BY DEF TruthInv
<1>2. QED
  BY <1>1, ListedOnce, PTL

------------------------------------------------------------------------------
\* A file can go astray only between a check and the next: afterwards the
\* paths lead elsewhere for the rest of the call, and no further file is tried.
StrayInv ==
  /\ \A n, k \in strays : n = k
  /\ strays # {} => dirs = "stale"
  /\ at \in {"list", "finish", "stat", "rename"} => strays = {}

LEMMA StrayInit == ClaimInit => StrayInv
BY DEF ClaimInit, StrayInv

LEMMA StrayStep == StrayInv /\ [ClaimNext]_claimVars => StrayInv'
<1> SUFFICES ASSUME StrayInv, [ClaimNext]_claimVars PROVE StrayInv'
  OBVIOUS
<1> USE DEF StrayInv
<1>1. CASE begin
  BY <1>1 DEF begin
<1>2. CASE next
  BY <1>2 DEF next, AddToList, GiveUp
<1>3. CASE finish_listing
  BY <1>3 DEF finish_listing, GiveUp
<1>4. CASE healthy
  BY <1>4 DEF healthy
<1>5. CASE fstatat
  BY <1>5 DEF fstatat, NotMoved
<1>6. CASE renameat
  BY <1>6 DEF renameat, MovesTo, NotMoved, Unclear
<1>7. CASE recheck
  BY <1>7 DEF recheck
<1>8. CASE sync
  BY <1>8 DEF sync
<1>9. CASE \E n \in Names, what \in {"none", "file", "other"} : PutFile(n, what)
  BY <1>9 DEF PutFile, call
<1>10. CASE \E how \in {"ok", "stale", "denied"} : Turn(how)
  BY <1>10 DEF Turn, call
<1>11. CASE UNCHANGED claimVars
  BY <1>11 DEF claimVars
<1>12. QED
  BY <1>1, <1>2, <1>3, <1>4, <1>5, <1>6, <1>7, <1>8, <1>9, <1>10, <1>11 DEF ClaimNext, Claim

\* However often the directories are replaced, a claim moves at most one file
\* into a directory the program no longer looks at.
THEOREM AtMostOneStray == ClaimSpec => []StraysBounded
<1>1. StrayInv => StraysBounded
  <2> SUFFICES ASSUME StrayInv PROVE Cardinality(strays) <= 1
    BY DEF StraysBounded
  <2>1. CASE strays = {}
    BY <2>1, FS_EmptySet
  <2>2. CASE strays # {}
    <3>1. PICK n \in strays : strays = {n}
      BY <2>2 DEF StrayInv
    <3>2. QED
      BY <3>1, FS_Singleton
  <2>3. QED
    BY <2>1, <2>2
<1>2. QED
  BY <1>1, StrayInit, StrayStep, PTL DEF ClaimSpec

------------------------------------------------------------------------------
\* A file that was moved set `moved`, unless its diagnosis says that this is
\* not known; so the flush at the end of the call covers it.
FlushInv ==
  /\ at \in {"list", "finish"} => taken = {}
  /\ \A n \in taken : moved \/ <<"move_unknown", n>> \in told
  /\ MovedIsSynced

LEMMA FlushInit == ClaimInit => FlushInv
BY DEF ClaimInit, FlushInv, MovedIsSynced

LEMMA FlushStep == FlushInv /\ [ClaimNext]_claimVars => FlushInv'
<1> SUFFICES ASSUME FlushInv, [ClaimNext]_claimVars PROVE FlushInv'
  OBVIOUS
<1> USE DEF FlushInv, MovedIsSynced
<1>1. CASE begin
  BY <1>1 DEF begin
<1>2. CASE next
  BY <1>2 DEF next, AddToList, GiveUp, diagnose
<1>3. CASE finish_listing
  BY <1>3 DEF finish_listing, GiveUp, diagnose
<1>4. CASE healthy
  BY <1>4 DEF healthy, diagnose
<1>5. CASE fstatat
  BY <1>5 DEF fstatat, NotMoved, diagnose
<1>6. CASE renameat
  BY <1>6 DEF renameat, MovesTo, NotMoved, Unclear, diagnose
<1>7. CASE recheck
  BY <1>7 DEF recheck, diagnose
<1>8. CASE sync
  BY <1>8 DEF sync, diagnose, Events
<1>9. CASE \E n \in Names, what \in {"none", "file", "other"} : PutFile(n, what)
  BY <1>9 DEF PutFile, call, Events
<1>10. CASE \E how \in {"ok", "stale", "denied"} : Turn(how)
  BY <1>10 DEF Turn, call, Events
<1>11. CASE UNCHANGED claimVars
  BY <1>11 DEF claimVars, call, Events
<1>12. QED
  BY <1>1, <1>2, <1>3, <1>4, <1>5, <1>6, <1>7, <1>8, <1>9, <1>10, <1>11 DEF ClaimNext, Claim

\* A call never returns with a moved file that is neither flushed nor said
\* not to be.
THEOREM MovedFilesAreFlushed == ClaimSpec => []MovedIsSynced
<1>1. FlushInv => MovedIsSynced
  BY DEF FlushInv
<1>2. QED
  BY <1>1, FlushInit, FlushStep, PTL DEF ClaimSpec

------------------------------------------------------------------------------
Tells(diagnoses, n) == \E d \in diagnoses : d[2] = n

\* A name that has to be listed is in the list, and leaves it only with a
\* diagnosis; the call gives up the rest only over a directory.
TriedInv ==
  /\ Events \intersect Unlisted # {} => at = "idle" /\ taken = {}
  /\ at \in {"list", "finish"} => taken = {} /\ told = {}
  /\ at \in {"finish", "check", "stat", "rename", "recheck"} =>
       \A n \in must : n \in Range(names) \/ Tells(told, n)
  /\ at = "recheck" => Tells(told, Name)
  /\ (at \in {"sync", "idle"} /\ Events \intersect (Unlisted \union {"directories"}) = {}) =>
       \A n \in must : Tells(told, n)

LEMMA TriedInit == ClaimInit => TriedInv
BY DEF ClaimInit, TriedInv, Events

\* A diagnosis adds its event and its name, and takes nothing back.
LEMMA DiagnoseEffect ==
  ASSUME NEW e, NEW n, told' = told \union {<<e, n>>}
  PROVE  Events' = Events \union {e} /\ Tells(told', n) /\ \A k : Tells(told, k) => Tells(told', k)
<1>1. <<e, n>>[1] = e /\ <<e, n>>[2] = n
  OBVIOUS
<1>2. Events' = Events \union {e}
  BY <1>1 DEF Events
<1>3. Tells(told', n) /\ \A k : Tells(told, k) => Tells(told', k)
  BY <1>1 DEF Tells
<1>4. QED
  BY <1>2, <1>3

LEMMA TriedVerdict ==
  ASSUME TruthInv, TriedInv, at \in {"stat", "rename"}, must' = must,
         NEW v \in Verdicts, told' = told \union {<<v, Name>>},
         \/ names' = Tail(names) /\ at' = "check"
         \/ names' = names /\ at' = "recheck"
  PROVE  TriedInv'
<1>1. Range(names) = {Name} \union Range(Tail(names))
  BY FrontOfList DEF TruthInv, Listing, Name
<1>2. Events' = Events \union {v} /\ Tells(told', Name) /\ \A k : Tells(told, k) => Tells(told', k)
  BY DiagnoseEffect
<1>3. Events' \intersect Unlisted = {}
  BY <1>2 DEF TriedInv, Unlisted, Verdicts
<1>4. \A n \in must : n \in Range(names)' \/ Tells(told', n)
  <2> SUFFICES ASSUME NEW n \in must, n \notin Range(names'), ~Tells(told', n) PROVE FALSE
    OBVIOUS
  <2>1. n \in Range(names)
    BY <1>2 DEF TriedInv
  <2>2. n # Name
    BY <1>2
  <2>3. QED
    BY <1>1, <2>1, <2>2
<1>5. at' = "recheck" => Tells(told', Name')
  <2>1. ASSUME at' = "recheck" PROVE Name' = Name
    BY <2>1 DEF Name
  <2>2. QED
    BY <1>2, <2>1
<1>6. QED
  BY <1>3, <1>4, <1>5 DEF TriedInv

LEMMA TriedStep == TruthInv /\ TriedInv /\ [ClaimNext]_claimVars => TriedInv'
<1> SUFFICES ASSUME TruthInv, TriedInv, [ClaimNext]_claimVars PROVE TriedInv'
  OBVIOUS
<1>1. CASE begin
  <2>1. /\ taken' = {}
        /\ \/ at' = "list" /\ told' = {}
           \/ at' = "idle" /\ must' = {} /\ told' = {<<"directories", "">>}
    BY <1>1 DEF begin
  <2>2. Events' \subseteq {"directories"}
    <3>1. <<"directories", "">>[1] = "directories"
      OBVIOUS
    <3>2. told' \subseteq {<<"directories", "">>}
      BY <2>1
    <3>3. QED
      BY <3>1, <3>2 DEF Events
  <2>3. QED
    BY <2>1, <2>2 DEF TriedInv, Unlisted
<1>2. CASE next
  <2>1. at = "list" /\ taken' = {} /\ told = {} /\ must' = must
    BY <1>2 DEF next, TriedInv, listing
  <2>2. CASE at' = "list" /\ told' = {}
    BY <2>1, <2>2 DEF TriedInv, Events
  <2>3. CASE at' = "finish" /\ told' = {} /\ must \subseteq Range(names')
    BY <2>1, <2>3 DEF TriedInv, Events
  <2>4. CASE at' = "idle" /\ \E e \in {"list_limit", "list_allocate", "enumerate"}, n \in may \union {""} :
               told' = told \union {<<e, n>>}
    <3>1. Events' \intersect Unlisted # {}
      BY <2>4, DiagnoseEffect DEF Unlisted
    <3>2. QED
      BY <2>1, <2>4, <3>1 DEF TriedInv
  <2>5. QED
    BY <1>2, <2>1, <2>2, <2>3, <2>4 DEF next, AddToList, GiveUp, diagnose
<1>3. CASE finish_listing
  <2>1. at = "finish" /\ taken' = {} /\ told = {} /\ must' = must /\ names' = names
    BY <1>3 DEF finish_listing, TriedInv, listing, GiveUp
  <2>2. CASE at' = "check" /\ told' = told
    BY <2>1, <2>2 DEF TriedInv, Events, Tells
  <2>3. CASE at' = "idle" /\ told' = told \union {<<"enumerate_close", "">>}
    <3>1. Events' \intersect Unlisted # {}
      BY <2>3, DiagnoseEffect DEF Unlisted
    <3>2. QED
      BY <2>1, <2>3, <3>1 DEF TriedInv
  <2>4. QED
    BY <1>3, <2>2, <2>3 DEF finish_listing, GiveUp, diagnose
<1>4. CASE healthy
  <2>1. at = "check" /\ must' = must /\ names' = names /\ taken' = taken
    BY <1>4 DEF healthy, listing
  <2>2. CASE at' = "sync" /\ told' = told /\ names = <<>>
    <3>1. Range(names) = {}
      BY <2>2, EmptyList
    <3>2. QED
      BY <2>1, <2>2, <3>1 DEF TriedInv, Events, Tells
  <2>3. CASE at' = "stat" /\ told' = told
    BY <2>1, <2>3 DEF TriedInv, Events, Tells
  <2>4. CASE at' = "sync" /\ told' = told \union {<<"directories", Name>>}
    <3>1. Events' = Events \union {"directories"}
      BY <2>4, DiagnoseEffect
    <3>2. QED
      BY <2>1, <2>4, <3>1 DEF TriedInv, Unlisted
  <2>5. QED
    BY <1>4, <2>2, <2>3, <2>4 DEF healthy, diagnose
<1>5. CASE fstatat
  <2>1. at = "stat" /\ must' = must /\ names' = names /\ taken' = taken
    BY <1>5 DEF fstatat, listing, NotMoved
  <2>2. CASE at' = "rename" /\ told' = told
    BY <2>1, <2>2 DEF TriedInv, Events, Tells
  <2>3. CASE \E v \in {"move_failed", "move_unknown"} :
               at' = "recheck" /\ told' = told \union {<<v, Name>>}
    BY <2>1, <2>3, TriedVerdict DEF Verdicts
  <2>4. QED
    BY <1>5, <2>2, <2>3 DEF fstatat, NotMoved, diagnose
<1>6. CASE renameat
  <2>1. at = "rename" /\ must' = must
    BY <1>6 DEF renameat, listing
  <2>2. CASE told' = told \union {<<"moved", Name>>} /\ names' = Tail(names) /\ at' = "check"
    BY <2>1, <2>2, TriedVerdict DEF Verdicts
  <2>3. CASE \E v \in {"move_failed", "move_unknown"} :
               told' = told \union {<<v, Name>>} /\ names' = names /\ at' = "recheck"
    BY <2>1, <2>3, TriedVerdict DEF Verdicts
  <2>4. QED
    BY <1>6, <2>2, <2>3 DEF renameat, MovesTo, NotMoved, Unclear, diagnose
<1>7. CASE recheck
  <2>1. at = "recheck" /\ must' = must /\ taken' = taken
    BY <1>7 DEF recheck, listing
  <2>2. CASE at' = "check" /\ names' = Tail(names) /\ told' = told
    <3>1. Range(names) = {Name} \union Range(Tail(names))
      BY <2>1, FrontOfList DEF TruthInv, Listing, Name
    <3>2. Events' = Events /\ \A k : Tells(told', k) <=> Tells(told, k)
      BY <2>2 DEF Events, Tells
    <3>3. QED
      BY <2>1, <2>2, <3>1, <3>2 DEF TriedInv
  <2>3. CASE at' = "sync" /\ told' = told \union {<<"directories", Name>>}
    <3>1. Events' = Events \union {"directories"}
      BY <2>3, DiagnoseEffect
    <3>2. QED
      BY <2>1, <2>3, <3>1 DEF TriedInv, Unlisted
  <2>4. QED
    BY <1>7, <2>2, <2>3 DEF recheck, diagnose
<1>8. CASE sync
  <2>1. at = "sync" /\ at' = "idle" /\ must' = must /\ taken' = taken
    BY <1>8 DEF sync, listing
  <2>2. CASE told' = told
    BY <2>1, <2>2 DEF TriedInv, Events, Tells
  <2>3. CASE told' = told \union {<<"directory_sync_unknown", "">>}
    <3>1. Events' = Events \union {"directory_sync_unknown"} /\ \A k : Tells(told, k) => Tells(told', k)
      BY <2>3, DiagnoseEffect
    <3>2. QED
      BY <2>1, <3>1 DEF TriedInv, Unlisted
  <2>4. QED
    BY <1>8, <2>2, <2>3 DEF sync, diagnose
<1>9. CASE \/ \E n \in Names, what \in {"none", "file", "other"} : PutFile(n, what)
           \/ \E how \in {"ok", "stale", "denied"} : Turn(how)
           \/ UNCHANGED claimVars
  <2>1. UNCHANGED <<at, names, taken, told>>
    BY <1>9 DEF PutFile, Turn, claimVars, call
  <2>2. at = "list" \/ must' = must
    BY <1>9 DEF PutFile, Turn, claimVars, listing
  <2>3. QED
    BY <2>1, <2>2 DEF TriedInv, Events, Tells, Name
<1>10. QED
  BY <1>1, <1>2, <1>3, <1>4, <1>5, <1>6, <1>7, <1>8, <1>9 DEF ClaimNext, Claim

\* An incomplete list moves nothing, and after a complete one every file that
\* was there is tried unless a directory failed.
THEOREM ListIsTriedWhole == ClaimSpec => []WholeListTried
<1>1. TriedInv => WholeListTried
  BY DEF TriedInv, WholeListTried, Tells
<1>2. QED
  BY <1>1, TruthInit, TruthStep, TriedInit, TriedStep, PTL DEF ClaimSpec
=============================================================================
