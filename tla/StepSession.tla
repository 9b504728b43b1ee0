---------------------------- MODULE StepSession ----------------------------
(***************************************************************************)
(* The transport of the simulation (synthetic_data/runtime.py, Session):   *)
(* a driver thread writes one command at a time to a child process and     *)
(* waits for its answer; a reader thread turns the child's standard output *)
(* into a queue of answers, and adds one entry when the child has exited.  *)
(*                                                                         *)
(* Commands are numbered.  Command 0 stands for starting the child, whose  *)
(* answer is READY; 1..Events are the STEPs, Finish is the FINISH.         *)
(* The child (the backend) is external: it answers the commands it reads   *)
(* in order, writes other lines between them, and can fail in the ways     *)
(* named by one of the FaultModels.                                        *)
(***************************************************************************)
EXTENDS Integers, Sequences, SequencesExt

CONSTANTS
  Events,    \* STEP commands of the run
  PipeSize,  \* lines the pipe from the child holds
  Noise,     \* bound: lines that are no answers (build output, warnings)
  FaultModels   \* what may go wrong together, each a set of FaultKinds

FaultKinds ==
  {"crash",      \* the child exits at any time with a failure code
   "garble",     \* a line with the protocol's prefix does not parse
   "error",      \* the child answers with a status other than the expected
   "timeout",    \* a timed wait runs out before what it waits for happens
   "interrupt"}  \* the driver is interrupted (the except BaseException path)

ASSUME SessionAssumption ==
  /\ Events \in Nat /\ PipeSize \in Nat \ {0} /\ Noise \in Nat
  /\ FaultModels \subseteq SUBSET FaultKinds

Finish   == Events + 1
Commands == 0..Finish

VARIABLES
  faults,    \* the fault model of this session
  child,     \* starting up or "idle", "replying", "exited"
  exitCode,
  applied,   \* commands the child has carried out, in order
  noise,     \* lines of noise written
  stdin,     \* the driver's end: "open", "broken" (a flush failed), "closed"
  inPipe,    \* commands written and not yet read by the child
  outPipe,   \* lines written by the child and not yet read
  reader,    \* the reader thread: "reading", "reaping", "ended"
  queue,     \* what the reader has handed over
  pc,        \* where the driver is
  command,   \* the driver's current command
  intents,   \* intents.ndjson
  protocol,  \* protocol.ndjson
  accepted,  \* answers send() returned to the simulation
  logs,      \* the three log files: "open" or "closed"
  outcome    \* "none", "result" (generation-result.json) or "failed"

childVars  == <<child, exitCode, applied, noise>>
readerVars == <<reader, queue>>
files      == <<intents, protocol, accepted, logs>>
vars == <<faults, childVars, readerVars, files, stdin, inPipe, outPipe, pc, command, outcome>>

(* The status that answers a command, and lines that are no answers. *)
Status(c) == IF c = 0 THEN "READY"
             ELSE IF c = Finish THEN "DISCOVERY_COMPLETED" ELSE "STEPPED"

Answer(c, status) == [status |-> status, of |-> c]
Line(status)      == [status |-> status, of |-> -1]
Others == {"noise", "garbled", "PROCESS_EXITED"}

Init ==
  /\ faults \in FaultModels
  /\ child = "idle" /\ exitCode = 0 /\ applied = <<>> /\ noise = 0
  /\ stdin = "open" /\ inPipe = <<0>> /\ outPipe = <<>>
  /\ reader = "reading" /\ queue = <<>>
  /\ pc = "await" /\ command = 0
  /\ intents = <<0>> /\ protocol = <<>> /\ accepted = <<>>
  /\ logs = "open" /\ outcome = "none"

-----------------------------------------------------------------------------
(* The child.                                                              *)

Write(line) ==
  /\ Len(outPipe) < PipeSize
  /\ outPipe' = Append(outPipe, line)

Execute ==
  /\ child = "idle" /\ inPipe # <<>>
  /\ applied' = Append(applied, Head(inPipe))
  /\ inPipe' = Tail(inPipe)
  /\ child' = "replying"
  /\ UNCHANGED <<faults, exitCode, noise, stdin, outPipe, readerVars, files, pc, command, outcome>>

Reply ==
  /\ child = "replying"
  /\ \/ Write(Answer(Last(applied), Status(Last(applied))))
     \/ "error" \in faults /\ Write(Answer(Last(applied), "FAILED"))
     \/ "garble" \in faults /\ Write(Line("garbled"))
  /\ child' = "idle"
  /\ UNCHANGED <<faults, exitCode, applied, noise, stdin, inPipe, readerVars, files, pc, command,
                 outcome>>

Chatter ==
  /\ child # "exited" /\ noise < Noise
  /\ Write(Line("noise"))
  /\ noise' = noise + 1
  /\ UNCHANGED <<faults, child, exitCode, applied, stdin, inPipe, readerVars, files, pc, command,
                 outcome>>

(* At the end of its input, or after FINISH, the child exits by itself.    *)
Exit ==
  /\ child = "idle" /\ inPipe = <<>>
  /\ stdin = "closed" \/ (applied # <<>> /\ Last(applied) = Finish)
  /\ child' = "exited" /\ exitCode' = 0
  /\ UNCHANGED <<faults, applied, noise, stdin, inPipe, outPipe, readerVars, files, pc, command,
                 outcome>>

Crash ==
  /\ "crash" \in faults /\ child # "exited"
  /\ child' = "exited" /\ exitCode' = 1
  /\ UNCHANGED <<faults, applied, noise, stdin, inPipe, outPipe, readerVars, files, pc, command,
                 outcome>>

-----------------------------------------------------------------------------
(* The reader thread: _read().                                             *)

(* Mutant: the first line that is no answer ends the loop. *)
ReadLineStrict ==
  /\ reader = "reading" /\ outPipe # <<>>
  /\ outPipe' = Tail(outPipe)
  /\ IF Head(outPipe).status \notin Others
     THEN queue' = Append(queue, Head(outPipe)) /\ UNCHANGED reader
     ELSE reader' = "reaping" /\ UNCHANGED queue
  /\ UNCHANGED <<faults, childVars, files, stdin, inPipe, pc, command, outcome>>

(* A line with the prefix is an answer, any other goes to the log; one     *)
(* that does not parse, or a log already closed, ends the loop.            *)
ReadLine ==
  /\ reader = "reading" /\ outPipe # <<>>
  /\ outPipe' = Tail(outPipe)
  /\ \/ /\ Head(outPipe).status \notin Others
        /\ queue' = Append(queue, Head(outPipe))
        /\ UNCHANGED reader
     \/ /\ Head(outPipe).status = "noise" /\ logs = "open"
        /\ UNCHANGED readerVars
     \/ /\ Head(outPipe).status = "garbled" \/ (Head(outPipe).status = "noise" /\ logs = "closed")
        /\ reader' = "reaping"
        /\ UNCHANGED queue
  /\ UNCHANGED <<faults, childVars, files, stdin, inPipe, pc, command, outcome>>

EndOfOutput ==
  /\ reader = "reading" /\ outPipe = <<>> /\ child = "exited"
  /\ reader' = "reaping"
  /\ UNCHANGED <<faults, childVars, queue, files, stdin, inPipe, outPipe, pc, command, outcome>>

(* The finally clause waits for the child, whyever the loop ended. *)
Reap ==
  /\ reader = "reaping" /\ child = "exited"
  /\ queue' = Append(queue, Line("PROCESS_EXITED"))
  /\ reader' = "ended"
  /\ UNCHANGED <<faults, childVars, files, stdin, inPipe, outPipe, pc, command, outcome>>

-----------------------------------------------------------------------------
(* The driver: receive(), send(), finish(), close().                       *)

driverFrame == <<childVars, outPipe, readerVars>>

Fail == pc' = "close" /\ outcome' = "failed"

(* A timed wait ends with what it waits for or, when that is late, with an *)
(* exception.                                                              *)
Late == "timeout" \in faults

(* An answer is recorded, then checked against what the command expects.   *)
Take ==
  /\ queue # <<>>
  /\ queue' = Tail(queue)
  /\ protocol' = Append(protocol, Head(queue))
  /\ IF Head(queue).status = Status(command)
     THEN /\ accepted' = Append(accepted, Head(queue))
          /\ pc' = IF command = Finish THEN "drain" ELSE "intend"
          /\ UNCHANGED outcome
     ELSE Fail /\ UNCHANGED accepted

(* Mutant: a wait that ran out is taken for a lost answer, and the          *)
(* simulation goes on to its next command.                                  *)
ReceiveAgain ==
  /\ pc = "await"
  /\ \/ Take
     \/ /\ queue = <<>> /\ Late /\ pc' = IF command = Finish THEN "close" ELSE "intend"
        /\ UNCHANGED <<queue, protocol, accepted, outcome>>
  /\ UNCHANGED <<faults, childVars, outPipe, reader, intents, logs, stdin, inPipe, command>>

Receive ==
  /\ pc = "await"
  /\ \/ Take
     \/ queue = <<>> /\ Late /\ Fail /\ UNCHANGED <<queue, protocol, accepted>>
  /\ UNCHANGED <<faults, childVars, outPipe, reader, intents, logs, stdin, inPipe, command>>

(* Mutant: a command is put on disk once its answer is known. *)
IntendAfterwards ==
  /\ pc = "intend"
  /\ command' = command + 1
  /\ intents' = IF command = 0 THEN intents ELSE Append(intents, command)
  /\ pc' = "send"
  /\ UNCHANGED <<faults, driverFrame, protocol, accepted, logs, stdin, inPipe, outcome>>

(* The next command is on disk before the child can see it. *)
Intend ==
  /\ pc = "intend"
  /\ command' = command + 1
  /\ intents' = Append(intents, command + 1)
  /\ pc' = "send"
  /\ UNCHANGED <<faults, driverFrame, protocol, accepted, logs, stdin, inPipe, outcome>>

(* Writing to a child that is gone fails, and leaves the unsent bytes in   *)
(* the buffer of stdin.                                                    *)
Send ==
  /\ pc = "send"
  /\ \/ /\ child # "exited"
        /\ inPipe' = Append(inPipe, command)
        /\ pc' = "await" /\ UNCHANGED <<stdin, outcome>>
     \/ child = "exited" /\ stdin' = "broken" /\ Fail /\ UNCHANGED inPipe
  /\ UNCHANGED <<faults, driverFrame, files, command>>

(* Mutants: the exit code is not looked at; the child is not waited for. *)
DrainAnyCode ==
  /\ pc = "drain"
  /\ stdin' = "closed"
  /\ \/ child = "exited" /\ outcome' = "result"
     \/ child # "exited" /\ Late /\ outcome' = "failed"
     \/ child # "exited" /\ stdin = "open" /\ UNCHANGED outcome
  /\ pc' = IF outcome' = "none" THEN "drain" ELSE "close"
  /\ UNCHANGED <<faults, driverFrame, files, inPipe, command>>

DrainAtOnce ==
  /\ pc = "drain"
  /\ stdin' = "closed"
  /\ outcome' = IF child = "exited" /\ exitCode = 0 THEN "result" ELSE "failed"
  /\ pc' = "close"
  /\ UNCHANGED <<faults, driverFrame, files, inPipe, command>>

(* After the answer to FINISH: the child must also exit with code 0.       *)
Drain ==
  /\ pc = "drain"
  /\ stdin' = "closed"
  /\ \/ child = "exited" /\ exitCode = 0 /\ outcome' = "result"
     \/ child = "exited" /\ exitCode # 0 /\ outcome' = "failed"
     \/ child # "exited" /\ Late /\ outcome' = "failed"
     \/ child # "exited" /\ stdin = "open" /\ UNCHANGED outcome
  /\ pc' = IF outcome' = "none" THEN "drain" ELSE "close"
  /\ UNCHANGED <<faults, driverFrame, files, inPipe, command>>

(* An interrupt reaches close() from wherever the driver is. *)
Interrupt ==
  /\ "interrupt" \in faults
  /\ pc \in {"await", "intend", "send", "drain"}
  /\ Fail
  /\ UNCHANGED <<faults, driverFrame, files, stdin, inPipe, command>>

(* close() begins by closing stdin, which flushes: if bytes were left the  *)
(* flush fails again and close() goes no further.                          *)
CloseInput ==
  /\ pc = "close"
  /\ stdin' = "closed"
  /\ pc' = IF stdin = "broken" THEN "abandoned" ELSE "wait"
  /\ UNCHANGED <<faults, driverFrame, files, inPipe, command, outcome>>

Wait ==
  /\ pc = "wait"
  /\ \/ child = "exited" /\ pc' = "join"
     \/ child # "exited" /\ Late /\ pc' = "terminated"
  /\ UNCHANGED <<faults, driverFrame, files, stdin, inPipe, command, outcome>>

(* Mutant: after terminate() the child counts as gone. *)
WaitNoMore ==
  /\ pc = "terminated" /\ pc' = "join"
  /\ UNCHANGED <<faults, driverFrame, files, stdin, inPipe, command, outcome>>

(* terminate() asks the child to stop; a second wait may run out too, and  *)
(* its exception leaves close().                                           *)
WaitAgain ==
  /\ pc = "terminated"
  /\ \/ child = "exited" /\ pc' = "join"
     \/ child # "exited" /\ pc' = "abandoned"
  /\ UNCHANGED <<faults, driverFrame, files, stdin, inPipe, command, outcome>>

Obey ==
  /\ pc = "terminated" /\ child # "exited"
  /\ child' = "exited" /\ exitCode' = 1
  /\ UNCHANGED <<faults, applied, noise, outPipe, readerVars, files, stdin, inPipe, pc, command,
                 outcome>>

(* join(timeout=10) returns whether or not the reader has ended. *)
Join ==
  /\ pc = "join"
  /\ reader = "ended" \/ Late
  /\ logs' = "closed" /\ pc' = "closed"
  /\ UNCHANGED <<faults, driverFrame, intents, protocol, accepted, stdin, inPipe, command, outcome>>

Over == pc \in {"closed", "abandoned"}

Stopped == Over /\ UNCHANGED vars

Child  == Execute \/ Reply \/ Chatter \/ Exit \/ Crash \/ Obey
Reader == ReadLine \/ EndOfOutput \/ Reap
Driver == Receive \/ Intend \/ Send \/ Drain \/ CloseInput \/ Wait \/ WaitAgain \/ Join

Next == Child \/ Reader \/ Driver \/ Interrupt \/ Stopped

(* Threads are scheduled, timed waits end and a child that can go on does: *)
(* nothing is assumed of faults, which these conjuncts never force.        *)
Fairness ==
  /\ WF_vars(Driver) /\ WF_vars(Reader)
  /\ WF_vars(Execute) /\ WF_vars(Reply) /\ WF_vars(Exit)

Spec == Init /\ [][Next]_vars /\ Fairness

-----------------------------------------------------------------------------
(* Properties.                                                             *)

(* send() returns the answer to the command it sent: no noise, late answer *)
(* or exit entry shifts the answers against the commands.                  *)
RepliesMatch ==
  pc \in {"intend", "drain"} =>
    accepted # <<>> /\ Last(accepted) = Answer(command, Status(command))

(* generation-result.json is written only after every command of the run   *)
(* was carried out, answered and the child ended well.                     *)
ResultHonest ==
  outcome = "result" =>
    /\ child = "exited" /\ exitCode = 0
    /\ applied = intents /\ Len(accepted) = Len(intents) /\ Last(intents) = Finish

(* A close() leaves no child behind, also one that fails because closing   *)
(* stdin fails; only a child that outlasts both timed waits may stay.      *)
NoChildLeft == pc = "closed" \/ (pc = "abandoned" /\ ~Late) => child = "exited"

(* Commands are decided, executed and answered one at a time, in order.    *)
Count(s) == IF s = <<>> THEN 0 ELSE Len(s) - 1

Log == INSTANCE CommandLog WITH
  decided <- Count(intents), executed <- Count(applied), known <- Count(accepted)

ImplementsCommandLog == Log!Spec

(* The session ends, whatever the child does, and no reader thread stays   *)
(* once the child is gone, also when join() gave up on it and the logs it  *)
(* writes to are closed.                                                   *)
Ends == <>[](Over /\ (child = "exited" => reader = "ended"))

(* Without timeouts, interrupts and unparsable lines a session that fails  *)
(* was told why: the child gave a wrong answer or exited.                  *)
FailsForCause ==
  outcome = "failed" /\ faults \subseteq {"crash", "error"} =>
    exitCode # 0 \/ \E i \in 1..Len(protocol) : protocol[i].status = "FAILED"

=============================================================================
