------------------------- MODULE StepSession_proof -------------------------
(***************************************************************************)
(* Proofs about StepSession, for any number of commands, any capacity of   *)
(* the pipe, any noise and any fault models: the answers belong to their   *)
(* commands, a result is earned, a failure has a cause, and the session    *)
(* implements CommandLog.                                                  *)
(***************************************************************************)
EXTENDS StepSession, SequenceTheorems, TLAPS

Statuses == {"READY", "STEPPED", "DISCOVERY_COMPLETED", "FAILED"} \union Others
Lines == [status : Statuses, of : Int]
Real(line) == line.status \notin Others
Undecided == {"await", "intend", "send", "drain"}

Types ==
  /\ command \in 0..Finish
  /\ pc \in Undecided \union {"close", "wait", "terminated", "join", "closed", "abandoned"}
  /\ child \in {"idle", "replying", "exited"} /\ exitCode \in {0, 1}
  /\ exitCode = 1 => child = "exited"
  /\ applied \in Seq(Nat) /\ inPipe \in Seq(Nat) /\ intents \in Seq(Nat)
  /\ outPipe \in Seq(Lines) /\ queue \in Seq(Lines)
  /\ protocol \in Seq(Lines) /\ accepted \in Seq(Lines)

(* Commands are put down, carried out and answered in their order, and no  *)
(* more than one is under way.                                             *)
Order ==
  /\ Len(intents) = command + 1 /\ \A i \in 1..Len(intents) : intents[i] = i - 1
  /\ Len(applied) \in {command, command + 1} /\ \A i \in 1..Len(applied) : applied[i] = i - 1
  /\ Len(accepted) \in {command, command + 1} /\ Len(accepted) <= Len(applied)
  /\ \A i \in 1..Len(accepted) : accepted[i] = Answer(i - 1, Status(i - 1))
  /\ inPipe # <<>> => inPipe = <<command>> /\ Len(applied) = command
  /\ child = "replying" => Len(applied) = command + 1 /\ Len(accepted) = command
  /\ pc \in {"await", "send"} => Len(accepted) = command
  /\ pc \in {"intend", "drain"} => Len(accepted) = command + 1
  /\ pc = "send" => Len(applied) = command /\ inPipe = <<>>
  /\ pc = "intend" => command < Finish
  /\ pc = "drain" => command = Finish

(* An answer is on its way only while its command waits for it, and there  *)
(* is only one.                                                            *)
Carries(s) == \A i \in 1..Len(s) : Real(s[i]) =>
  /\ s[i].of = command /\ s[i].status \in {Status(command), "FAILED"}
  /\ child # "replying" /\ Len(applied) = command + 1 /\ Len(accepted) = command
Single(s) == \A i, j \in 1..Len(s) : Real(s[i]) /\ Real(s[j]) => i = j
Flight ==
  /\ Carries(outPipe) /\ Carries(queue) /\ Single(outPipe) /\ Single(queue)
  /\ \A i \in 1..Len(outPipe), j \in 1..Len(queue) : ~(Real(outPipe[i]) /\ Real(queue[j]))

Verdicts ==
  /\ outcome \in {"none", "result", "failed"} /\ (outcome = "none" <=> pc \in Undecided)
  /\ outcome = "result" => /\ child = "exited" /\ exitCode = 0
                           /\ command = Finish /\ Len(accepted) = command + 1
  /\ pc \in {"join", "closed"} => child = "exited"

IInv == Types /\ Order /\ Flight /\ Verdicts

-----------------------------------------------------------------------------
(* Commands are numbered from the start to FINISH.                         *)
LEMMA Numbers == Finish \in Nat /\ Finish = Events + 1
BY SessionAssumption DEF Finish

(* The statuses of answers are none of the other lines'.                   *)
LEMMA StatusReal ==
  ASSUME NEW c \in Int
  PROVE /\ Status(c) \in Statuses /\ Status(c) \notin Others /\ Status(c) # "FAILED"
        /\ "FAILED" \notin Others
<1>1. Status(c) \in {"READY", "STEPPED", "DISCOVERY_COMPLETED"}
  BY Numbers DEF Status
<1>2. Status(c) \in Statuses
  BY <1>1 DEF Statuses
<1>3. Status(c) \notin Others /\ Status(c) # "FAILED"
  BY <1>1 DEF Others
<1>4. "FAILED" \notin Others
  BY DEF Others
<1> QED
  BY <1>2, <1>3, <1>4

(* Lines that the child, or the reader thread, writes: answers ...         *)
LEMMA AnswersWritten ==
  ASSUME NEW c \in Int, NEW status \in Statuses
  PROVE /\ Answer(c, status) \in Lines /\ Answer(c, status).status = status
        /\ Answer(c, status).of = c
BY DEF Answer, Lines

(* ... and others.                                                         *)
LEMMA LinesWritten ==
  ASSUME NEW status \in Others
  PROVE Line(status) \in Lines /\ ~Real(Line(status)) /\ Line(status).status = status
BY DEF Line, Lines, Statuses, Real

(* The session begins with the start of the child under way.               *)
LEMMA Initially == Init => IInv
<1> SUFFICES ASSUME Init PROVE IInv
  OBVIOUS
<1> USE DEF Init
<1>1. Types
  BY Numbers DEF Types, Undecided
<1>2. Order
  BY Numbers DEF Order
<1>3. Flight
  BY DEF Flight, Carries, Single
<1>4. Verdicts
  BY DEF Verdicts, Undecided
<1> QED
  BY <1>1, <1>2, <1>3, <1>4 DEF IInv

-----------------------------------------------------------------------------
(* The child.                                                              *)

(* What the child writes besides an answer carries none.                   *)
LEMMA WrittenNoise ==
  ASSUME IInv, NEW status \in Others,
         outPipe' = Append(outPipe, Line(status)),
         UNCHANGED <<command, child, applied, accepted, queue>>
  PROVE outPipe' \in Seq(Lines) /\ Flight'
<1>1. /\ outPipe \in Seq(Lines) /\ Line(status) \in Lines /\ ~Real(Line(status))
  BY LinesWritten DEF IInv, Types
<1>2. /\ outPipe' \in Seq(Lines) /\ Len(outPipe') = Len(outPipe) + 1 /\ Len(outPipe) \in Nat
      /\ \A i \in 1..Len(outPipe) : outPipe'[i] = outPipe[i]
      /\ ~Real(outPipe'[Len(outPipe) + 1])
  BY <1>1, AppendProperties, LenProperties
<1>3. \A i \in 1..Len(outPipe') : Real(outPipe'[i]) => i \in 1..Len(outPipe) /\ outPipe'[i] = outPipe[i]
  BY <1>2
<1>4. Carries(outPipe)' /\ Carries(queue)'
  BY <1>3 DEF IInv, Flight, Carries
<1>5. Single(outPipe)' /\ Single(queue)'
  BY <1>3 DEF IInv, Flight, Single
<1>6. \A i \in 1..Len(outPipe'), j \in 1..Len(queue') : ~(Real(outPipe'[i]) /\ Real(queue'[j]))
  BY <1>3 DEF IInv, Flight
<1> QED
  BY <1>2, <1>4, <1>5, <1>6 DEF Flight

(* A command is carried out: the next one in order.                        *)
LEMMA ExecuteStep == IInv /\ Execute => IInv'
<1> SUFFICES ASSUME IInv, Execute PROVE IInv'
  OBVIOUS
<1> USE DEF IInv
<1>0. inPipe = <<command>> /\ Len(applied) = command /\ command \in Nat
  BY Numbers DEF Execute, Order, Types
<1>1. /\ inPipe' = <<>> /\ applied' = Append(applied, command) /\ applied \in Seq(Nat)
      /\ child' = "replying" /\ child = "idle"
      /\ UNCHANGED <<exitCode, outPipe, queue, files, pc, command, outcome>>
  BY <1>0 DEF Execute, Types, readerVars
<1>2. /\ applied' \in Seq(Nat) /\ Len(applied') = command + 1
      /\ \A i \in 1..Len(applied') : applied'[i] = i - 1
  BY <1>0, <1>1, AppendProperties DEF Order
<1>3. Types'
  BY <1>1, <1>2 DEF Types, files
<1>4. Order'
  BY <1>0, <1>1, <1>2, Numbers DEF Order, Types, files
<1>5. Flight'
  BY <1>0, <1>1, <1>2 DEF Flight, Carries, Single, files
<1>6. Verdicts'
  BY <1>1 DEF Verdicts, files
<1> QED
  BY <1>3, <1>4, <1>5, <1>6

(* An answer, or a line that does not parse in its place.                  *)
LEMMA ReplyStep == IInv /\ Reply => IInv'
<1> SUFFICES ASSUME IInv, Reply PROVE IInv'
  OBVIOUS
<1> USE DEF IInv
<1>1. /\ Len(applied) = command + 1 /\ Len(accepted) = command /\ command \in Nat
      /\ Last(applied) = command /\ child = "replying" /\ child' = "idle"
      /\ UNCHANGED <<exitCode, applied, inPipe, queue, files, pc, command, outcome>>
  BY Numbers DEF Reply, Order, Types, readerVars, Last
<1>2. /\ outPipe \in Seq(Lines) /\ \A i \in 1..Len(outPipe) : ~Real(outPipe[i])
      /\ \A i \in 1..Len(queue) : ~Real(queue[i])
  BY <1>1 DEF Flight, Carries, Types
<1>3. PICK line \in Lines :
        /\ outPipe' = Append(outPipe, line)
        /\ Real(line) => line.of = command /\ line.status \in {Status(command), "FAILED"}
  <2>1. PICK line : /\ outPipe' = Append(outPipe, line)
                    /\ \/ line = Answer(command, Status(command))
                       \/ line = Answer(command, "FAILED")
                       \/ line = Line("garbled")
    BY <1>1 DEF Reply, Write
  <2>2. "FAILED" \in Statuses /\ "garbled" \in Others /\ Status(command) \in Statuses
    BY <1>1, StatusReal DEF Statuses, Others
  <2> QED
    BY <1>1, <2>1, <2>2, AnswersWritten, LinesWritten
<1>4. /\ outPipe' \in Seq(Lines) /\ Len(outPipe') = Len(outPipe) + 1 /\ Len(outPipe) \in Nat
      /\ \A i \in 1..Len(outPipe) : ~Real(outPipe'[i])
      /\ outPipe'[Len(outPipe) + 1] = line
  BY <1>2, <1>3, AppendProperties, LenProperties
<1>5. Types'
  BY <1>1, <1>4 DEF Types, files
<1>6. Order'
  BY <1>1 DEF Order, files
<1>7. Flight'
  <2>1. Carries(outPipe)' /\ Single(outPipe)'
    BY <1>1, <1>3, <1>4 DEF Carries, Single, files
  <2>2. Carries(queue)' /\ Single(queue)' /\ \A j \in 1..Len(queue') : ~Real(queue'[j])
    BY <1>1, <1>2 DEF Carries, Single
  <2> QED
    BY <2>1, <2>2 DEF Flight
<1>8. Verdicts'
  BY <1>1 DEF Verdicts, files
<1> QED
  BY <1>5, <1>6, <1>7, <1>8

(* A line that is no answer changes nothing but the pipe.                  *)
LEMMA ChatterStep == IInv /\ Chatter => IInv'
<1> SUFFICES ASSUME IInv, Chatter PROVE IInv'
  OBVIOUS
<1>1. /\ outPipe' = Append(outPipe, Line("noise"))
      /\ UNCHANGED <<child, exitCode, applied, inPipe, queue, files, pc, command, outcome>>
  BY DEF Chatter, Write, readerVars
<1>2. outPipe' \in Seq(Lines) /\ Flight'
  BY <1>1, WrittenNoise DEF Others, files
<1>3. Types' /\ Order' /\ Verdicts'
  BY <1>1, <1>2 DEF IInv, Types, Order, Verdicts, files
<1> QED
  BY <1>2, <1>3 DEF IInv

(* A child that is gone has written what it has written.                   *)
LEMMA ChildGone ==
  ASSUME IInv, child # "exited", child' = "exited", exitCode' \in {0, 1},
         UNCHANGED <<applied, inPipe, outPipe, queue, files, pc, command, outcome>>
  PROVE IInv'
<1> USE DEF IInv
<1>1. Types'
  BY DEF Types, files
<1>2. Order'
  BY DEF Order, files
<1>3. Flight'
  BY DEF Flight, Carries, Single, files
<1>4. Verdicts'
  BY DEF Verdicts, files
<1> QED
  BY <1>1, <1>2, <1>3, <1>4

(* The child ends, of itself or by force.                                  *)
LEMMA ExitStep == IInv /\ (Exit \/ Crash \/ Obey) => IInv'
BY ChildGone DEF Exit, Crash, Obey, readerVars

-----------------------------------------------------------------------------
(* The reader thread.                                                      *)

(* The rest of a sequence of lines holds what stood behind the first.      *)
LEMMA WithoutFirst ==
  ASSUME NEW s \in Seq(Lines), s # <<>>
  PROVE /\ Tail(s) \in Seq(Lines) /\ Len(s) \in Nat \ {0} /\ Len(Tail(s)) = Len(s) - 1
        /\ Head(s) = s[1] /\ Head(s) \in Lines
        /\ \A i \in 1..Len(Tail(s)) : i + 1 \in 1..Len(s) /\ Tail(s)[i] = s[i + 1]
BY HeadTailProperties, LenProperties

(* A line that is added stands last.                                       *)
LEMMA WithLast ==
  ASSUME NEW s \in Seq(Lines), NEW line \in Lines
  PROVE /\ Append(s, line) \in Seq(Lines) /\ Len(s) \in Nat /\ Len(Append(s, line)) = Len(s) + 1
        /\ \A i \in 1..Len(s) : Append(s, line)[i] = s[i]
        /\ Append(s, line)[Len(s) + 1] = line
BY AppendProperties, LenProperties

(* Only answers are handed over.                                           *)
LEMMA ReadLineStep == IInv /\ ReadLine => IInv'
<1> SUFFICES ASSUME IInv, ReadLine PROVE IInv'
  OBVIOUS
<1>1. /\ outPipe # <<>> /\ outPipe' = Tail(outPipe)
      /\ outPipe \in Seq(Lines) /\ queue \in Seq(Lines)
      /\ UNCHANGED <<child, exitCode, applied, inPipe, files, pc, command, outcome>>
  BY DEF ReadLine, childVars, IInv, Types
<1>2. /\ outPipe' \in Seq(Lines) /\ Len(outPipe) \in Nat \ {0} /\ Len(outPipe') = Len(outPipe) - 1
      /\ Head(outPipe) = outPipe[1] /\ Head(outPipe) \in Lines
      /\ \A i \in 1..Len(outPipe') : i + 1 \in 1..Len(outPipe) /\ outPipe'[i] = outPipe[i + 1]
  BY <1>1, WithoutFirst
<1>3. Carries(outPipe)' /\ Single(outPipe)'
  BY <1>1, <1>2 DEF IInv, Flight, Carries, Single, files
<1>4. CASE queue' = queue
  <2>1. Types' /\ Order' /\ Verdicts'
    BY <1>1, <1>2, <1>4 DEF IInv, Types, Order, Verdicts, files
  <2>2. Carries(queue)' /\ Single(queue)'
    BY <1>1, <1>4 DEF IInv, Flight, Carries, Single, files
  <2>3. \A i \in 1..Len(outPipe'), j \in 1..Len(queue') : ~(Real(outPipe'[i]) /\ Real(queue'[j]))
    BY <1>2, <1>4 DEF IInv, Flight
  <2> QED
    BY <1>3, <2>1, <2>2, <2>3 DEF IInv, Flight
<1>5. CASE queue' = Append(queue, Head(outPipe)) /\ Real(Head(outPipe))
  <2>1. /\ \A i \in 1..Len(queue) : ~Real(queue[i])
        /\ \A i \in 1..Len(outPipe') : ~Real(outPipe'[i])
    BY <1>2, <1>5 DEF IInv, Flight, Single
  <2>2. /\ queue' \in Seq(Lines) /\ Len(queue) \in Nat /\ Len(queue') = Len(queue) + 1
        /\ \A i \in 1..Len(queue) : queue'[i] = queue[i]
        /\ queue'[Len(queue) + 1] = Head(outPipe)
    BY <1>1, <1>2, <1>5, WithLast
  <2>3. Types' /\ Order' /\ Verdicts'
    BY <1>1, <1>2, <2>2 DEF IInv, Types, Order, Verdicts, files
  <2>4. \A i \in 1..Len(queue') : Real(queue'[i]) => i = Len(queue) + 1 /\ queue'[i] = outPipe[1]
    BY <1>2, <2>1, <2>2
  <2>5. /\ outPipe[1].of = command /\ outPipe[1].status \in {Status(command), "FAILED"}
        /\ child # "replying" /\ Len(applied) = command + 1 /\ Len(accepted) = command
    BY <1>2, <1>5 DEF IInv, Flight, Carries
  <2>6. Carries(queue)'
    BY <1>1, <2>4, <2>5 DEF Carries, files
  <2>7. Single(queue)'
    BY <2>4 DEF Single
  <2> QED
    BY <1>3, <2>1, <2>3, <2>6, <2>7 DEF IInv, Flight
<1> QED
  BY <1>4, <1>5 DEF ReadLine, Real, readerVars

(* The end of the output concerns the reader alone.                        *)
LEMMA ReaderEnds == IInv /\ EndOfOutput => IInv'
<1> SUFFICES ASSUME IInv, EndOfOutput PROVE IInv'
  OBVIOUS
<1>1. UNCHANGED <<child, exitCode, applied, inPipe, outPipe, queue, files, pc, command, outcome>>
  BY DEF EndOfOutput, childVars
<1> QED
  BY <1>1 DEF IInv, Types, Order, Flight, Carries, Single, Verdicts, files

(* The last entry is no answer.                                            *)
LEMMA ReapStep == IInv /\ Reap => IInv'
<1> SUFFICES ASSUME IInv, Reap PROVE IInv'
  OBVIOUS
<1>1. /\ queue' = Append(queue, Line("PROCESS_EXITED"))
      /\ outPipe \in Seq(Lines) /\ queue \in Seq(Lines)
      /\ UNCHANGED <<child, exitCode, applied, inPipe, outPipe, files, pc, command, outcome>>
  BY DEF Reap, childVars, IInv, Types
<1>2. Line("PROCESS_EXITED") \in Lines /\ ~Real(Line("PROCESS_EXITED"))
  BY LinesWritten DEF Others
<1>3. /\ queue' \in Seq(Lines) /\ Len(queue) \in Nat /\ Len(queue') = Len(queue) + 1
      /\ \A i \in 1..Len(queue) : queue'[i] = queue[i]
      /\ ~Real(queue'[Len(queue) + 1])
  BY <1>1, <1>2, WithLast
<1>4. \A i \in 1..Len(queue') : Real(queue'[i]) => i \in 1..Len(queue) /\ queue'[i] = queue[i]
  BY <1>3
<1>5. Types' /\ Order' /\ Verdicts'
  BY <1>1, <1>3 DEF IInv, Types, Order, Verdicts, files
<1>6. Carries(outPipe)' /\ Single(outPipe)'
  BY <1>1 DEF IInv, Flight, Carries, Single, files
<1>7. Carries(queue)' /\ Single(queue)'
  BY <1>1, <1>4 DEF IInv, Flight, Carries, Single, files
<1>8. \A i \in 1..Len(outPipe'), j \in 1..Len(queue') : ~(Real(outPipe'[i]) /\ Real(queue'[j]))
  BY <1>1, <1>4 DEF IInv, Flight
<1> QED
  BY <1>5, <1>6, <1>7, <1>8 DEF IInv, Flight

-----------------------------------------------------------------------------
(* The driver.                                                             *)

(* A driver that goes on to close() or ends leaves the commands as they    *)
(* are.                                                                    *)
LEMMA GoesOn ==
  ASSUME IInv, UNCHANGED <<child, exitCode, applied, inPipe, outPipe, queue,
                           intents, protocol, accepted, command>>,
         pc' \in {"close", "wait", "terminated", "join", "closed", "abandoned"},
         Verdicts'
  PROVE IInv'
<1>1. Types' /\ Order'
  BY DEF IInv, Types, Order, Undecided
<1>2. Flight'
  BY DEF IInv, Flight, Carries, Single
<1> QED
  BY <1>1, <1>2 DEF IInv

(* What is acted upon is the answer to the command that was sent.          *)
LEMMA TakeStep ==
  ASSUME IInv, pc = "await", Take,
         UNCHANGED <<child, exitCode, applied, inPipe, outPipe, intents, command>>
  PROVE IInv'
<1>1. /\ queue \in Seq(Lines) /\ queue # <<>> /\ queue' = Tail(queue)
      /\ protocol' = Append(protocol, Head(queue)) /\ command \in 0..Finish
      /\ accepted \in Seq(Lines) /\ protocol \in Seq(Lines) /\ Len(accepted) = command
      /\ outcome = "none" /\ outPipe \in Seq(Lines)
  BY DEF Take, IInv, Types, Order, Verdicts, Undecided
<1>2. /\ queue' \in Seq(Lines) /\ Len(queue) \in Nat \ {0} /\ Len(queue') = Len(queue) - 1
      /\ Head(queue) = queue[1] /\ Head(queue) \in Lines
      /\ \A i \in 1..Len(queue') : i + 1 \in 1..Len(queue) /\ queue'[i] = queue[i + 1]
  BY <1>1, WithoutFirst
<1>3. protocol' \in Seq(Lines)
  BY <1>1, <1>2, WithLast
<1>4. Single(outPipe)' /\ Single(queue)'
  BY <1>2 DEF IInv, Flight, Single
<1>5. \A i \in 1..Len(outPipe'), j \in 1..Len(queue') : ~(Real(outPipe'[i]) /\ Real(queue'[j]))
  BY <1>2 DEF IInv, Flight
<1>6. CASE Head(queue).status = Status(command)
  <2>1. /\ accepted' = Append(accepted, Head(queue)) /\ outcome' = outcome
        /\ pc' = IF command = Finish THEN "drain" ELSE "intend"
    BY <1>6 DEF Take
  <2>2. Real(queue[1])
    BY <1>1, <1>2, <1>6, StatusReal, Numbers DEF Real
  <2>3. queue[1].of = command /\ child # "replying" /\ Len(applied) = command + 1
    BY <1>2, <2>2 DEF IInv, Flight, Carries
  <2>4. Head(queue) = Answer(command, Status(command))
    BY <1>2, <1>6, <2>3 DEF Answer, Lines
  <2>5. /\ accepted' \in Seq(Lines) /\ Len(accepted') = command + 1
        /\ \A i \in 1..Len(accepted) : accepted'[i] = accepted[i]
        /\ accepted'[command + 1] = Answer(command, Status(command))
    BY <1>1, <1>2, <2>1, <2>4, WithLast
  <2>6. \A i \in 1..Len(accepted') : accepted'[i] = Answer(i - 1, Status(i - 1))
    <3> SUFFICES ASSUME NEW i \in 1..Len(accepted') PROVE accepted'[i] = Answer(i - 1, Status(i - 1))
      OBVIOUS
    <3>1. CASE i = command + 1
      <4>1. i - 1 = command
        BY <1>1, <3>1
      <4> QED
        BY <2>5, <3>1, <4>1
    <3>2. CASE i # command + 1
      <4>1. i \in 1..Len(accepted)
        BY <1>1, <2>5, <3>2
      <4> QED
        BY <2>5, <4>1 DEF IInv, Order
    <3> QED
      BY <3>1, <3>2
  <2>7. Types'
    BY <1>2, <1>3, <2>1, <2>5 DEF IInv, Types, Undecided
  <2>8. Order'
    BY <1>1, <2>1, <2>3, <2>5, <2>6, Numbers DEF IInv, Order
  <2>9. Carries(outPipe)' /\ Carries(queue)'
    BY <1>2, <2>2, SMTT(30) DEF IInv, Flight, Carries, Single
  <2>10. Verdicts'
    BY <1>1, <2>1 DEF IInv, Verdicts, Undecided
  <2> QED
    BY <1>4, <1>5, <2>7, <2>8, <2>9, <2>10 DEF IInv, Flight
<1>7. CASE Head(queue).status # Status(command)
  <2>1. accepted' = accepted /\ outcome' = "failed" /\ pc' = "close"
    BY <1>7 DEF Take, Fail
  <2>2. Types' /\ Order' /\ Verdicts'
    BY <1>1, <1>2, <1>3, <2>1 DEF IInv, Types, Order, Verdicts, Undecided
  <2>3. Carries(outPipe)' /\ Carries(queue)'
    BY <1>2, <2>1 DEF IInv, Flight, Carries
  <2> QED
    BY <1>4, <1>5, <2>2, <2>3 DEF IInv, Flight
<1> QED
  BY <1>6, <1>7

(* An exception, an interrupt or a wait that ran out leads to close().     *)
LEMMA FailStep ==
  ASSUME IInv, pc \in Undecided, Fail,
         UNCHANGED <<child, exitCode, applied, inPipe, outPipe, queue, intents, protocol,
                     accepted, command>>
  PROVE IInv'
<1>1. Verdicts'
  BY DEF IInv, Verdicts, Fail, Undecided
<1> QED
  BY <1>1, GoesOn DEF Fail

(* receive(): an answer, or a wait that ran out.                           *)
LEMMA ReceiveStep == IInv /\ Receive => IInv'
BY TakeStep, FailStep DEF Receive, childVars, Undecided

(* The except BaseException path.                                          *)
LEMMA InterruptStep == IInv /\ Interrupt => IInv'
BY FailStep DEF Interrupt, driverFrame, childVars, readerVars, files, Undecided

(* A new command finds everything before it answered.                      *)
LEMMA IntendStep == IInv /\ Intend => IInv'
<1> SUFFICES ASSUME IInv, Intend PROVE IInv'
  OBVIOUS
<1>1. /\ command \in 0..Finish /\ command < Finish /\ command' = command + 1 /\ pc' = "send"
      /\ intents' = Append(intents, command + 1) /\ intents \in Seq(Nat)
      /\ Len(intents) = command + 1 /\ Len(applied) = command + 1 /\ Len(accepted) = command + 1
      /\ inPipe = <<>> /\ child # "replying" /\ outcome = "none"
      /\ UNCHANGED <<child, exitCode, applied, inPipe, outPipe, queue, protocol, accepted, outcome>>
  BY Numbers DEF Intend, driverFrame, childVars, readerVars, IInv, Types, Order, Verdicts, Undecided
<1>2. /\ intents' \in Seq(Nat) /\ Len(intents') = command + 2
      /\ \A i \in 1..Len(intents') : intents'[i] = i - 1
  BY <1>1, AppendProperties DEF IInv, Order
<1>3. Types'
  BY <1>1, <1>2, Numbers DEF IInv, Types, Undecided
<1>4. Order'
  BY <1>1, <1>2, Numbers DEF IInv, Order
<1>5. Flight'
  <2>1. /\ \A i \in 1..Len(outPipe) : ~Real(outPipe[i])
        /\ \A i \in 1..Len(queue) : ~Real(queue[i])
    BY <1>1 DEF IInv, Flight, Carries
  <2> QED
    BY <1>1, <2>1 DEF Flight, Carries, Single
<1>6. Verdicts'
  BY <1>1 DEF IInv, Verdicts, Undecided
<1> QED
  BY <1>3, <1>4, <1>5, <1>6 DEF IInv

(* send(): the command reaches the pipe, or close() follows.               *)
LEMMA SendStep == IInv /\ Send => IInv'
<1> SUFFICES ASSUME IInv, Send PROVE IInv'
  OBVIOUS
<1>1. /\ pc = "send" /\ command \in Nat /\ inPipe = <<>>
      /\ UNCHANGED <<child, exitCode, applied, outPipe, queue, intents, protocol, accepted, command>>
  BY Numbers DEF Send, driverFrame, childVars, readerVars, files, IInv, Types, Order
<1>2. CASE child = "exited"
  BY <1>1, <1>2, FailStep DEF Send, Undecided
<1>3. CASE child # "exited"
  <2>1. inPipe' = Append(inPipe, command) /\ pc' = "await" /\ outcome' = outcome
    BY <1>3 DEF Send
  <2>2. inPipe' = <<command>> /\ inPipe' \in Seq(Nat)
    BY <1>1, <2>1
  <2>3. Types' /\ Order' /\ Verdicts'
    BY <1>1, <2>1, <2>2 DEF IInv, Types, Order, Verdicts, Undecided
  <2>4. Flight'
    BY <1>1 DEF IInv, Flight, Carries, Single
  <2> QED
    BY <2>3, <2>4 DEF IInv
<1> QED
  BY <1>2, <1>3

(* A result needs a child that ended well after FINISH was answered.       *)
LEMMA DrainStep == IInv /\ Drain => IInv'
<1> SUFFICES ASSUME IInv, Drain PROVE IInv'
  OBVIOUS
<1>1. /\ pc = "drain" /\ outcome = "none"
      /\ UNCHANGED <<child, exitCode, applied, inPipe, outPipe, queue, intents, protocol, accepted, command>>
  BY DEF Drain, driverFrame, childVars, readerVars, files, IInv, Verdicts, Undecided
<1>2. CASE pc' = "close"
  <2>1. Verdicts'
    BY <1>1, <1>2 DEF IInv, Drain, Verdicts, Order, Undecided
  <2> QED
    BY <1>1, <1>2, <2>1, GoesOn
<1>3. CASE pc' = "drain"
  <2>1. outcome' = "none"
    BY <1>3 DEF Drain
  <2> QED
    BY <1>1, <1>3, <2>1 DEF IInv, Types, Order, Flight, Carries, Single, Verdicts
<1> QED
  BY <1>2, <1>3 DEF Drain

(* close() changes nothing that was recorded.                              *)
LEMMA CloseStep == IInv /\ (CloseInput \/ Wait \/ WaitAgain \/ Join) => IInv'
<1> SUFFICES ASSUME IInv, CloseInput \/ Wait \/ WaitAgain \/ Join PROVE IInv'
  OBVIOUS
<1>1. /\ UNCHANGED <<child, exitCode, applied, inPipe, outPipe, queue, intents, protocol, accepted, command, outcome>>
      /\ pc' \in {"wait", "terminated", "join", "closed", "abandoned"}
      /\ pc \notin Undecided
  BY DEF CloseInput, Wait, WaitAgain, Join, driverFrame, childVars, readerVars, files, Undecided
<1>2. Verdicts'
  BY <1>1 DEF IInv, CloseInput, Wait, WaitAgain, Join, Verdicts, Undecided
<1> QED
  BY <1>1, <1>2, GoesOn

-----------------------------------------------------------------------------
(* Every step of child, reader and driver keeps the invariant.             *)
LEMMA Inductive == IInv /\ [Next]_vars => IInv'
<1> SUFFICES ASSUME IInv, [Next]_vars PROVE IInv'
  OBVIOUS
<1>1. CASE Child
  BY <1>1, ExecuteStep, ReplyStep, ChatterStep, ExitStep DEF Child
<1>2. CASE Reader
  BY <1>2, ReadLineStep, ReaderEnds, ReapStep DEF Reader
<1>3. CASE Driver
  BY <1>3, ReceiveStep, IntendStep, SendStep, DrainStep, CloseStep DEF Driver
<1>4. CASE Interrupt
  BY <1>4, InterruptStep
<1>5. CASE UNCHANGED vars
  <2>1. UNCHANGED <<child, exitCode, applied, inPipe, outPipe, queue, intents, protocol, accepted,
                    pc, command, outcome>>
    BY <1>5 DEF vars, childVars, readerVars, files
  <2> QED
    BY <2>1 DEF IInv, Types, Order, Flight, Carries, Single, Verdicts
<1> QED
  BY <1>1, <1>2, <1>3, <1>4, <1>5 DEF Next, Stopped

(* The invariant holds in every session.                                   *)
THEOREM Invariance == Spec => []IInv
<1>1. Init => IInv
  BY Initially
<1>2. IInv /\ [Next]_vars => IInv'
  BY Inductive
<1> QED
  BY <1>1, <1>2, PTL DEF Spec

(* What send() returns is the answer to what it sent, for any number of    *)
(* commands (Session.send and receive).                                    *)
THEOREM AnswersBelong == Spec => []RepliesMatch
<1>1. IInv => RepliesMatch
  <2> SUFFICES ASSUME IInv, pc \in {"intend", "drain"}
               PROVE accepted # <<>> /\ Last(accepted) = Answer(command, Status(command))
    BY DEF RepliesMatch
  <2>1. /\ command \in Nat /\ Len(accepted) = command + 1 /\ accepted \in Seq(Lines)
        /\ accepted[command + 1] = Answer(command + 1 - 1, Status(command + 1 - 1))
    BY Numbers DEF IInv, Types, Order
  <2>2. command + 1 - 1 = command
    BY <2>1
  <2>3. accepted # <<>>
    BY <2>1
  <2> QED
    BY <2>1, <2>2, <2>3 DEF Last
<1> QED
  BY <1>1, Invariance, PTL

(* A result is written only after every command of the run was carried     *)
(* out, answered and the child ended well (Session.finish).                *)
THEOREM ResultsEarned == Spec => []ResultHonest
<1>1. IInv => ResultHonest
  <2> SUFFICES ASSUME IInv, outcome = "result"
               PROVE /\ child = "exited" /\ exitCode = 0
                     /\ applied = intents /\ Len(accepted) = Len(intents) /\ Last(intents) = Finish
    BY DEF ResultHonest
  <2>0. /\ child = "exited" /\ exitCode = 0 /\ command = Finish /\ Finish \in Nat
        /\ Len(accepted) = Finish + 1
        /\ applied \in Seq(Nat) /\ intents \in Seq(Nat)
    BY Numbers DEF IInv, Verdicts, Types
  <2>1. Len(intents) = Finish + 1 /\ Len(applied) = Finish + 1
    BY <2>0 DEF IInv, Order
  <2>2. applied = intents
    <3>1. \A i \in 1..Len(applied) : applied[i] = intents[i]
      BY <2>0, <2>1 DEF IInv, Order
    <3> QED
      BY <2>0, <2>1, <3>1, SeqEqual
  <2>3. Last(intents) = Finish
    BY <2>0, <2>1 DEF IInv, Order, Last
  <2> QED
    BY <2>0, <2>1, <2>2, <2>3
<1> QED
  BY <1>1, Invariance, PTL

(* Only a send to a child that is gone breaks stdin; a child is asked to   *)
(* stop, and left alone, only where waits run out.                         *)
Gone ==
  /\ stdin = "broken" => child = "exited"
  /\ pc = "terminated" => Late
  /\ pc = "abandoned" => child = "exited" \/ Late

(* What is gone stays gone.                                                *)
LEMMA GoneInductive == Gone /\ [Next]_vars => Gone'
<1> SUFFICES ASSUME Gone, [Next]_vars PROVE Gone'
  OBVIOUS
<1>1. CASE Child \/ Reader \/ Interrupt \/ UNCHANGED vars
  <2>1. faults' = faults /\ stdin' = stdin /\ (pc' = pc \/ pc' = "close")
        /\ (child = "exited" => child' = "exited")
    BY <1>1 DEF Child, Execute, Reply, Chatter, Exit, Crash, Obey, Reader, ReadLine, EndOfOutput,
                Reap, Interrupt, Fail, vars, childVars, readerVars, files, driverFrame
  <2> QED
    BY <2>1 DEF Gone, Late
<1>2. CASE Driver
  <2>1. faults' = faults /\ child' = child
    BY <1>2 DEF Driver, Receive, Intend, Send, Drain, CloseInput, Wait, WaitAgain, Join,
                driverFrame, childVars
  <2> QED
    BY <1>2, <2>1 DEF Gone, Late, Driver, Receive, Take, Fail, Intend, Send, Drain, CloseInput, Wait,
                      WaitAgain, Join
<1>3. CASE Stopped
  BY <1>3 DEF Stopped, vars, childVars, readerVars, files, Gone, Late
<1> QED
  BY <1>1, <1>2, <1>3 DEF Next

(* A close() leaves no child behind, also one that fails because closing   *)
(* stdin fails; only a child that outlasts both timed waits may stay       *)
(* (Session.close).                                                        *)
THEOREM NoneLeft == Spec => []NoChildLeft
<1>1. Init => Gone
  BY DEF Init, Gone
<1>2. Gone /\ [Next]_vars => Gone'
  BY GoneInductive
<1>3. IInv /\ Gone => NoChildLeft
  BY DEF IInv, Verdicts, Gone, NoChildLeft
<1> QED
  BY <1>1, <1>2, <1>3, Invariance, PTL DEF Spec

-----------------------------------------------------------------------------
(* Refinement: the three files are CommandLog's counters.                  *)

(* The first entry stands for the start of the child.                      *)
LEMMA Counted ==
  ASSUME NEW S, NEW s \in Seq(S)
  PROVE Count(s) = IF Len(s) = 0 THEN 0 ELSE Len(s) - 1
BY EmptySeq, LenProperties DEF Count

(* The counters at any time.                                               *)
CountersAre ==
  /\ command \in Nat /\ Count(intents) = command
  /\ Count(applied) = IF Len(applied) = 0 THEN 0 ELSE Len(applied) - 1
  /\ Count(accepted) = IF Len(accepted) = 0 THEN 0 ELSE Len(accepted) - 1
  /\ Len(applied) \in Nat /\ Len(accepted) \in Nat

(* They follow from the lengths of the files.                              *)
LEMMA Counters == IInv => CountersAre
<1> SUFFICES ASSUME IInv PROVE CountersAre
  OBVIOUS
<1>1. /\ applied \in Seq(Nat) /\ intents \in Seq(Nat) /\ accepted \in Seq(Lines)
      /\ command \in Nat /\ Len(intents) = command + 1
  BY Numbers DEF IInv, Types, Order
<1> QED
  BY <1>1, Counted, LenProperties DEF CountersAre

(* The same after a step.                                                  *)
LEMMA CountersNext == IInv' => CountersAre'
BY Counters, PTL

(* Every step decides, executes or learns, or is none of CommandLog's.     *)
LEMMA Promised == IInv /\ [Next]_vars => [Log!Next]_(Log!vars)
<1> SUFFICES ASSUME IInv, [Next]_vars PROVE [Log!Next]_(Log!vars)
  OBVIOUS
<1> USE DEF Log!Next, Log!vars
<1>1. IInv' /\ CountersAre /\ CountersAre'
  BY Inductive, Counters, CountersNext
<1>2. CASE UNCHANGED <<intents, applied, accepted>>
  BY <1>2
<1>3. CASE Execute
  <2>1. /\ Len(applied) = command /\ Len(applied') = command + 1 /\ Len(accepted) <= command
        /\ UNCHANGED <<intents, accepted>>
    <3>1. child' = "replying" /\ inPipe # <<>> /\ UNCHANGED <<intents, accepted, command>>
      BY <1>3 DEF Execute, files
    <3> QED
      BY <1>1, <3>1, Numbers DEF IInv, Order, Types
  <2>2. /\ Count(intents') = Count(intents) /\ Count(accepted') = Count(accepted)
        /\ Count(intents) = command /\ command \in Nat
    BY <1>1, <2>1 DEF CountersAre
  <2>3. CASE command = 0
    <3>1. Count(applied) = 0 /\ Count(applied') = 0
      BY <1>1, <2>1, <2>3 DEF CountersAre
    <3> QED
      BY <2>2, <3>1
  <2>4. CASE command # 0
    <3>1. Count(applied) = command - 1 /\ Count(applied') = command
      BY <1>1, <2>1, <2>2, <2>4 DEF CountersAre
    <3> QED
      BY <2>2, <2>4, <3>1 DEF Log!Execute
  <2> QED
    BY <2>3, <2>4
<1>4. CASE Intend
  <2>1. /\ Len(accepted) = command + 1 /\ command' = command + 1
        /\ UNCHANGED <<applied, accepted>>
    BY <1>4 DEF Intend, driverFrame, childVars, IInv, Order
  <2>2. Count(intents) = command /\ Count(intents') = command + 1 /\ Count(accepted) = command
    BY <1>1, <2>1 DEF CountersAre
  <2> QED
    BY <2>1, <2>2 DEF Log!Decide
<1>5. CASE Receive
  <2>1. CASE accepted' = accepted
    BY <1>2, <1>5, <2>1 DEF Receive, childVars
  <2>2. CASE accepted' # accepted
    <3>1. /\ Len(accepted) = command /\ pc' \in {"intend", "drain"}
          /\ UNCHANGED <<intents, applied, command>>
      BY <1>5, <2>2 DEF Receive, Take, childVars, IInv, Order
    <3>2. Len(accepted') = command + 1 /\ Len(accepted') <= Len(applied)
      BY <1>1, <3>1 DEF IInv, Order
    <3> QED
      BY <1>1, <3>1, <3>2 DEF CountersAre, Log!Learn
  <2> QED
    BY <2>1, <2>2
<1>6. CASE Interrupt \/ Reader \/ UNCHANGED vars
  BY <1>2, <1>6 DEF Interrupt, Reader, ReadLine, EndOfOutput, Reap, driverFrame, childVars, files, vars
<1>7. CASE Child
  BY <1>2, <1>3, <1>7 DEF Child, Reply, Chatter, Exit, Crash, Obey, files
<1>8. CASE Driver
  BY <1>2, <1>4, <1>5, <1>8
     DEF Driver, Send, Drain, CloseInput, Wait, WaitAgain, Join, driverFrame, childVars, files
<1> QED
  BY <1>6, <1>7, <1>8 DEF Next, Stopped

(* A session, for any number of commands, is a behaviour of CommandLog:    *)
(* commands are decided, executed and answered one at a time (Session).    *)
THEOREM Refinement == Spec => ImplementsCommandLog
<1>1. Init => Log!Init
  BY DEF Init, Log!Init, Count
<1>2. IInv /\ [Next]_vars => [Log!Next]_(Log!vars)
  BY Promised
<1> QED
  BY <1>1, <1>2, Invariance, PTL DEF Spec, Log!Spec, ImplementsCommandLog

-----------------------------------------------------------------------------
(* Failures have causes.                                                   *)

Calm == faults \subseteq {"crash", "error"}
Underway == outcome = "none" /\ Len(applied) = command + 1 /\ Len(accepted) = command

(* In a session without timeouts, interrupts and garbled lines an answer   *)
(* that was given is not lost, the reader thread outlives the child, and   *)
(* a child that ended well has carried out FINISH.                         *)
Causes ==
  /\ pc \in {"await", "intend", "send"} => stdin # "closed"
  /\ logs = "closed" => reader = "ended"
  /\ reader # "reading" => child = "exited" /\ outPipe = <<>>
  /\ \A i \in 1..Len(outPipe) : outPipe[i].status # "garbled"
  /\ \A i \in 1..Len(queue) : Real(queue[i]) \/ (i = Len(queue) /\ reader = "ended")
  /\ Underway /\ child # "replying" /\ exitCode = 0 =>
       \/ \E i \in 1..Len(outPipe) : Real(outPipe[i])
       \/ \E i \in 1..Len(queue) : Real(queue[i])
  /\ outcome = "none" /\ child = "exited" /\ exitCode = 0 => Len(applied) = Finish + 1
  /\ outcome = "failed" =>
       exitCode # 0 \/ \E i \in 1..Len(protocol) : protocol[i].status = "FAILED"

CInv == IInv /\ (Calm => Causes)

(* The lemmas below are about one step of a calm session.                  *)
LEMMA CausedExecute == IInv /\ Causes /\ Execute => Causes'
BY DEF IInv, Types, Order, Causes, Underway, Execute, readerVars, files

(* Its answer is on the way.                                               *)
LEMMA CausedReply ==
  ASSUME IInv, Causes, Calm, Reply PROVE Causes'
<1>1. /\ command \in Nat /\ Len(applied) = command + 1 /\ Last(applied) = command
      /\ outPipe \in Seq(Lines) /\ child = "replying" /\ child' = "idle"
      /\ UNCHANGED <<exitCode, applied, stdin, reader, queue, files, pc, command, outcome>>
  BY Numbers DEF Reply, IInv, Types, Order, readerVars, Last
<1>2. PICK line \in Lines : outPipe' = Append(outPipe, line) /\ Real(line)
  <2>1. PICK status \in Statuses \ Others : outPipe' = Append(outPipe, Answer(command, status))
    BY <1>1, StatusReal DEF Reply, Write, Calm, Statuses, Others
  <2> QED
    BY <1>1, <2>1, AnswersWritten DEF Real
<1>3. /\ Len(outPipe') = Len(outPipe) + 1 /\ Len(outPipe) \in Nat
      /\ \A i \in 1..Len(outPipe) : outPipe'[i] = outPipe[i]
      /\ outPipe'[Len(outPipe) + 1] = line
  BY <1>1, <1>2, WithLast
<1>4. \A i \in 1..Len(outPipe') : outPipe'[i].status # "garbled"
  BY <1>2, <1>3 DEF Causes, Real, Others
<1>5. \E i \in 1..Len(outPipe') : Real(outPipe'[i])
  BY <1>2, <1>3
<1>6. reader = "reading"
  BY <1>1 DEF Causes
<1> QED
  BY <1>1, <1>4, <1>5, <1>6 DEF Causes, Underway, files

(* Noise takes nothing away.                                               *)
LEMMA CausedChatter ==
  ASSUME IInv, Causes, Chatter PROVE Causes'
<1>1. /\ outPipe \in Seq(Lines) /\ outPipe' = Append(outPipe, Line("noise")) /\ child # "exited"
      /\ UNCHANGED <<child, exitCode, applied, stdin, reader, queue, files, pc, command, outcome>>
  BY DEF Chatter, Write, IInv, Types, readerVars
<1>2. Line("noise") \in Lines /\ Line("noise").status = "noise"
  BY LinesWritten DEF Others
<1>3. /\ Len(outPipe') = Len(outPipe) + 1 /\ Len(outPipe) \in Nat
      /\ \A i \in 1..Len(outPipe) : outPipe'[i] = outPipe[i]
      /\ outPipe'[Len(outPipe) + 1].status = "noise"
  BY <1>1, <1>2, WithLast
<1>4. /\ \A i \in 1..Len(outPipe') : outPipe'[i].status # "garbled"
      /\ \A i \in 1..Len(outPipe) : i \in 1..Len(outPipe') /\ outPipe'[i] = outPipe[i]
  BY <1>3 DEF Causes
<1>5. reader = "reading"
  BY <1>1 DEF Causes
<1> QED
  BY <1>1, <1>4, <1>5 DEF Causes, Underway, files

(* The child only ends well when it has carried out FINISH.                *)
LEMMA CausedExit ==
  ASSUME IInv, Causes, Exit \/ Crash \/ Obey PROVE Causes'
<1>1. /\ child # "exited" /\ child' = "exited" /\ reader = "reading"
      /\ UNCHANGED <<applied, stdin, outPipe, reader, queue, files, pc, command, outcome>>
  BY DEF Exit, Crash, Obey, readerVars, Causes
<1>2. CASE exitCode' = 1
  BY <1>1, <1>2 DEF Causes, files
<1>3. CASE Exit
  <2>1. exitCode' = 0 /\ child = "idle" /\ exitCode = 0
    BY <1>3 DEF Exit, IInv, Types
  <2>2. outcome = "none" => Len(applied) = Finish + 1
    <3>1. CASE stdin = "closed"
      <4>1. outcome = "none" => pc = "drain"
        BY <3>1 DEF Causes, IInv, Verdicts, Undecided
      <4>2. pc = "drain" => Len(applied) = Finish + 1
        BY Numbers DEF IInv, Order
      <4> QED
        BY <4>1, <4>2
    <3>2. CASE applied # <<>> /\ Last(applied) = Finish
      <4>1. Len(applied) \in 1..Len(applied) /\ Len(applied) \in Nat
        BY <3>2 DEF IInv, Types
      <4> QED
        BY <3>2, <4>1, Numbers DEF IInv, Order, Last
    <3> QED
      BY <1>3, <3>1, <3>2 DEF Exit
  <2> QED
    BY <1>1, <2>1, <2>2 DEF Causes, Underway, files
<1> QED
  BY <1>2, <1>3 DEF Crash, Obey

(* The reader moves an answer from the pipe to the queue.                  *)
LEMMA CausedReadLine ==
  ASSUME IInv, Causes, ReadLine PROVE Causes'
<1>1. /\ outPipe # <<>> /\ outPipe' = Tail(outPipe) /\ reader = "reading" /\ logs # "closed"
      /\ outPipe \in Seq(Lines) /\ queue \in Seq(Lines)
      /\ UNCHANGED <<child, exitCode, applied, stdin, files, pc, command, outcome>>
  BY DEF ReadLine, childVars, IInv, Types, Causes
<1>2. /\ Len(outPipe) \in Nat \ {0} /\ Len(outPipe') = Len(outPipe) - 1
      /\ Head(outPipe) = outPipe[1] /\ Head(outPipe) \in Lines
      /\ \A i \in 1..Len(outPipe') : i + 1 \in 1..Len(outPipe) /\ outPipe'[i] = outPipe[i + 1]
  BY <1>1, WithoutFirst
<1>3. /\ \A i \in 1..Len(outPipe') : outPipe'[i].status # "garbled"
      /\ outPipe[1].status # "garbled"
  BY <1>2, SMTT(30) DEF Causes
<1>4. reader' = reader
  BY <1>1, <1>2, <1>3 DEF ReadLine, readerVars
<1>5. CASE Real(outPipe[1]) /\ queue' = Append(queue, Head(outPipe))
  <2>1. /\ Len(queue) \in Nat /\ Len(queue') = Len(queue) + 1
        /\ \A i \in 1..Len(queue) : queue'[i] = queue[i] /\ Real(queue[i])
        /\ queue'[Len(queue) + 1] = outPipe[1]
    BY <1>1, <1>2, <1>5, WithLast DEF Causes
  <2>2. /\ \A i \in 1..Len(queue') : Real(queue'[i])
        /\ \E i \in 1..Len(queue') : Real(queue'[i])
    BY <1>5, <2>1
  <2> QED
    BY <1>1, <1>3, <1>4, <2>2 DEF Causes, Underway, files
<1>6. CASE ~Real(outPipe[1]) /\ queue' = queue
  <2>1. (\E i \in 1..Len(outPipe) : Real(outPipe[i])) => \E i \in 1..Len(outPipe') : Real(outPipe'[i])
    <3> SUFFICES ASSUME NEW i \in 1..Len(outPipe), Real(outPipe[i])
                 PROVE \E j \in 1..Len(outPipe') : Real(outPipe'[j])
      OBVIOUS
    <3>1. i - 1 \in 1..Len(outPipe') /\ (i - 1) + 1 = i
      BY <1>2, <1>6
    <3> QED
      BY <1>2, <3>1
  <2> QED
    BY <1>1, <1>3, <1>4, <1>6, <2>1 DEF Causes, Underway, files
<1>7. \/ Real(outPipe[1]) /\ queue' = Append(queue, Head(outPipe))
      \/ ~Real(outPipe[1]) /\ queue' = queue
  BY <1>1, <1>2, <1>3 DEF ReadLine, Real, Others, readerVars
<1> QED
  BY <1>5, <1>6, <1>7

(* It stops when there is nothing more to read.                            *)
LEMMA CausedEnd == IInv /\ Causes /\ EndOfOutput => Causes'
BY DEF EndOfOutput, Causes, Underway, childVars, files

(* Its last entry comes after the answers.                                 *)
LEMMA CausedReap ==
  ASSUME IInv, Causes, Reap PROVE Causes'
<1>1. /\ queue' = Append(queue, Line("PROCESS_EXITED")) /\ queue \in Seq(Lines)
      /\ reader = "reaping" /\ reader' = "ended"
      /\ UNCHANGED <<child, exitCode, applied, stdin, outPipe, files, pc, command, outcome>>
  BY DEF Reap, childVars, IInv, Types
<1>2. /\ Len(queue) \in Nat /\ Len(queue') = Len(queue) + 1
      /\ \A i \in 1..Len(queue) : i \in 1..Len(queue') /\ queue'[i] = queue[i]
  BY <1>1, WithLast, LinesWritten DEF Others
<1>3. \A i \in 1..Len(queue') : Real(queue'[i]) \/ i = Len(queue')
  BY <1>1, <1>2 DEF Causes
<1>4. (\E i \in 1..Len(queue) : Real(queue[i])) => \E i \in 1..Len(queue') : Real(queue'[i])
  BY <1>2
<1> QED
  BY <1>1, <1>3, <1>4 DEF Causes, Underway, files

(* What makes receive() fail is a wrong answer or the end of a child that  *)
(* did not end well.                                                       *)
LEMMA CausedReceive ==
  ASSUME IInv, Causes, Calm, Receive PROVE Causes'
<1>1. /\ pc = "await" /\ Take /\ queue \in Seq(Lines) /\ queue # <<>> /\ queue' = Tail(queue)
      /\ protocol \in Seq(Lines) /\ protocol' = Append(protocol, Head(queue))
      /\ command \in 0..Finish /\ Len(accepted) = command /\ outcome = "none"
      /\ UNCHANGED <<child, exitCode, applied, stdin, outPipe, reader, logs, command>>
  BY DEF Receive, Take, Late, Calm, childVars, IInv, Types, Order, Verdicts, Undecided
<1>2. /\ Len(queue) \in Nat \ {0} /\ Len(queue') = Len(queue) - 1
      /\ Head(queue) = queue[1] /\ Head(queue) \in Lines
      /\ \A i \in 1..Len(queue') : i + 1 \in 1..Len(queue) /\ queue'[i] = queue[i + 1]
  BY <1>1, WithoutFirst
<1>3. \A i \in 1..Len(queue') : Real(queue'[i]) \/ (i = Len(queue') /\ reader' = "ended")
  <2> SUFFICES ASSUME NEW i \in 1..Len(queue'), ~Real(queue'[i])
               PROVE i = Len(queue') /\ reader' = "ended"
    OBVIOUS
  <2>1. i + 1 \in 1..Len(queue) /\ ~Real(queue[i + 1])
    BY <1>2
  <2>2. i + 1 = Len(queue) /\ reader = "ended"
    BY <2>1 DEF Causes
  <2>3. i = Len(queue')
    BY <1>2, <2>2
  <2>4. reader' = "ended"
    BY <1>1, <2>2
  <2> QED
    BY <2>3, <2>4
<1>4. CASE Head(queue).status = Status(command)
  <2>1. pc' \in {"drain", "intend"} /\ outcome' = "none" /\ IInv'
    BY <1>1, <1>4, Inductive DEF Take, Next, Driver, Receive
  <2>2. ~Underway' /\ (pc' = "intend" => stdin' # "closed")
    BY <1>1, <2>1 DEF IInv, Types, Order, Underway, Causes
  <2> QED
    BY <1>1, <1>3, <2>1, <2>2 DEF Causes
<1>5. CASE Head(queue).status # Status(command)
  <2>1. outcome' = "failed" /\ pc' = "close"
    BY <1>5, <1>1 DEF Take, Fail
  <2>2. CASE Real(queue[1])
    <3>1. Head(queue).status = "FAILED"
      BY <1>2, <1>5, <2>2 DEF IInv, Flight, Carries
    <3>2. Len(protocol) + 1 \in 1..Len(protocol') /\ protocol'[Len(protocol) + 1] = Head(queue)
      BY <1>1, <1>2, WithLast
    <3> QED
      BY <1>1, <1>3, <2>1, <3>1, <3>2 DEF Causes, Underway
  <2>3. CASE ~Real(queue[1])
    <3>1. Len(queue) = 1 /\ reader = "ended" /\ child = "exited" /\ outPipe = <<>>
      BY <1>2, <2>3 DEF Causes
    <3>2. exitCode # 0
      <4> SUFFICES ASSUME exitCode = 0 PROVE FALSE
        OBVIOUS
      <4>1. Len(applied) = Finish + 1
        BY <1>1, <3>1 DEF Causes
      <4>2. Underway
        BY <1>1, <4>1, Numbers DEF Underway, IInv, Order
      <4>3. \E i \in 1..Len(queue) : Real(queue[i])
        BY <3>1, <4>2 DEF Causes
      <4> QED
        BY <2>3, <3>1, <4>3
    <3> QED
      BY <1>1, <1>3, <2>1, <3>2 DEF Causes, Underway
  <2> QED
    BY <2>2, <2>3
<1> QED
  BY <1>4, <1>5

(* Nothing is under way when a command is decided.                         *)
LEMMA CausedIntend ==
  ASSUME IInv, Causes, Intend PROVE Causes'
<1>1. /\ IInv' /\ pc' = "send" /\ stdin # "closed" /\ outcome = "none" /\ command' = command + 1
      /\ UNCHANGED <<child, exitCode, applied, stdin, outPipe, reader, queue, protocol, logs, outcome>>
  BY Inductive DEF Next, Driver, Intend, driverFrame, childVars, readerVars, Causes, IInv, Verdicts, Undecided
<1>2. ~Underway'
  BY <1>1, Numbers DEF IInv, Types, Order, Underway
<1> QED
  BY <1>1, <1>2 DEF Causes

(* A child that ended well had nothing more to be sent.                    *)
LEMMA CausedSend ==
  ASSUME IInv, Causes, Send PROVE Causes'
<1>1. /\ pc = "send" /\ outcome = "none" /\ Len(applied) = command /\ command \in 0..Finish
      /\ exitCode \in {0, 1}
      /\ UNCHANGED <<child, exitCode, applied, outPipe, reader, queue, intents, protocol, accepted,
                     logs, command>>
  BY DEF Send, driverFrame, childVars, readerVars, files, IInv, Types, Order, Verdicts, Undecided
<1>2. ~Underway'
  BY <1>1, Numbers DEF Underway
<1>3. CASE child = "exited"
  <2>1. exitCode # 0
    BY <1>1, <1>3, Numbers DEF Causes
  <2> QED
    BY <1>1, <1>2, <1>3, <2>1 DEF Causes, Send, Fail
<1>4. CASE child # "exited"
  BY <1>1, <1>2, <1>4 DEF Causes, Send
<1> QED
  BY <1>3, <1>4

(* Nothing is under way any more when the child is waited for.             *)
LEMMA CausedDrain ==
  ASSUME IInv, Causes, Calm, Drain PROVE Causes'
<1>1. /\ pc = "drain" /\ outcome = "none" /\ ~Underway /\ pc' \in {"drain", "close"}
      /\ UNCHANGED <<child, exitCode, applied, outPipe, reader, queue, protocol, accepted, logs, command>>
  BY Numbers DEF Drain, driverFrame, childVars, readerVars, files, IInv, Types, Order, Verdicts, Undecided,
                 Underway
<1>2. ~Underway' /\ (outcome' = "failed" => exitCode # 0)
  BY <1>1 DEF Underway, Drain, Late, Calm
<1> QED
  BY <1>1, <1>2 DEF Causes

(* close() follows a decision that is taken.                               *)
LEMMA CausedClose ==
  ASSUME IInv, Causes, Calm, CloseInput \/ Wait \/ WaitAgain \/ Join PROVE Causes'
<1>1. /\ outcome # "none" /\ pc' \notin {"await", "intend", "send"}
      /\ UNCHANGED <<child, exitCode, applied, outPipe, reader, queue, protocol, accepted, command, outcome>>
      /\ logs' = "closed" => reader = "ended"
  BY DEF CloseInput, Wait, WaitAgain, Join, Late, Calm, driverFrame, childVars, readerVars, files,
         IInv, Verdicts, Undecided, Causes
<1> QED
  BY <1>1 DEF Causes, Underway

(* Every step of a calm session keeps the causes.                          *)
LEMMA CauseKept == CInv /\ [Next]_vars => CInv'
<1> SUFFICES ASSUME CInv, [Next]_vars PROVE CInv'
  OBVIOUS
<1>1. IInv' /\ faults' = faults
  BY Inductive DEF CInv, Next, Child, Reader, Driver, Execute, Reply, Chatter, Exit, Crash, Obey,
     ReadLine, EndOfOutput, Reap, Receive, Intend, Send, Drain, CloseInput, Wait, WaitAgain, Join,
     Interrupt, Stopped, vars
<1> SUFFICES ASSUME Calm PROVE Causes'
  BY <1>1 DEF CInv, Calm
<1>2. IInv /\ Causes
  BY DEF CInv
<1>3. CASE Child
  BY <1>2, <1>3, CausedExecute, CausedReply, CausedChatter, CausedExit DEF Child
<1>4. CASE Reader
  BY <1>2, <1>4, CausedReadLine, CausedEnd, CausedReap DEF Reader
<1>5. CASE Driver
  BY <1>2, <1>5, CausedReceive, CausedIntend, CausedSend, CausedDrain, CausedClose DEF Driver
<1>6. CASE Interrupt
  BY <1>6 DEF Interrupt, Calm
<1>7. CASE UNCHANGED vars
  BY <1>2, <1>7 DEF vars, childVars, readerVars, files, Causes, Underway
<1> QED
  BY <1>3, <1>4, <1>5, <1>6, <1>7 DEF Next, Stopped

(* A session without timeouts, interrupts and garbled lines only fails     *)
(* when the child gave a wrong answer or exited with a code (Session).     *)
THEOREM FailuresCaused == Spec => []FailsForCause
<1>1. Init => CInv
  BY Initially DEF Init, CInv, Causes, Underway
<1>2. CInv /\ [Next]_vars => CInv'
  BY CauseKept
<1>3. CInv => FailsForCause
  BY DEF CInv, Calm, Causes, FailsForCause
<1> QED
  BY <1>1, <1>2, <1>3, PTL DEF Spec
=============================================================================
