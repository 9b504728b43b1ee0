---------------------------- MODULE FixedReplays ----------------------------
(***************************************************************************)
(* Two replays of a package on fresh databases (synthetic_data/replay.py,  *)
(* fixed_replays(), with services() of synthetic_data/runtime.py): the     *)
(* package is verified, two services are started one after the other, the  *)
(* backend (external) replays the bundle twice, the services are stopped   *)
(* whatever happened, and the two results are compared.  Meanwhile the     *)
(* package may still be under construction, its source be rewritten and a  *)
(* service exit.                                                           *)
(***************************************************************************)
EXTENDS EvidencePackage

CONSTANTS
  Services,   \* in the order they are started
  Databases   \* database identities the backend may report

ASSUME ReplayAssumption ==
  /\ Services \in Seq(Range(Services)) /\ Len(Services) > 0 /\ IsInjective(Services)
  /\ Databases # {}

VARIABLES
  pc,         \* "begin", "start", "ready", "replay", "stop", "compare", "write", "over"
  at,         \* the service or the replay that is due
  process,    \* per service: "none", "running", "terminating", "exited"
  failed,     \* an exception is on its way out
  expected,   \* the manifest that was verified
  seen,       \* the observations of the replays
  comparison  \* comparison.json: "absent", "partial" or "PASS"

replayVars == <<pc, at, process, failed, expected, seen, comparison>>
vars       == <<packageVars, replayVars>>

Alive(s) == process[s] \in {"running", "terminating"}
Started  == {i \in 1 .. Len(Services) : process[Services[i]] # "none"}

Init ==
  /\ PackageInit
  /\ pc = "begin" /\ at = 1 /\ failed = FALSE /\ expected = Version(0) /\ seen = <<>>
  /\ process = [s \in Range(Services) |-> "none"] /\ comparison = "absent"

(* To a place in the code, or by an exception into services()' finally.    *)
Goto(place, n) == pc' = place /\ at' = n /\ UNCHANGED <<packageVars, failed, comparison>>
Raise == /\ pc' = "stop" /\ at' = 1 /\ failed' = TRUE
         /\ UNCHANGED <<packageVars, process, expected, seen, comparison>>

Verify ==
  /\ pc = "begin"
  /\ \/ /\ Whole /\ expected' = disk["package"].body["manifest"]
        /\ Goto("start", 1) /\ UNCHANGED <<process, seen>>
     \/ /\ pc' = "over" /\ failed' = TRUE   \* or the output directory exists
        /\ UNCHANGED <<packageVars, at, process, expected, seen, comparison>>

(* A service that does not start, or in 30 seconds does not say that it is *)
(* ready, ends the attempt with the services that did.                     *)
Start ==
  /\ pc = "start"
  /\ \/ /\ process' = [process EXCEPT ![Services[at]] = "running"]
        /\ Goto("ready", at) /\ UNCHANGED <<expected, seen>>
     \/ Raise
Ready ==
  /\ pc = "ready"
  /\ \/ /\ process[Services[at]] = "running"
        /\ IF at < Len(Services) THEN Goto("start", at + 1) ELSE Goto("replay", 1)
        /\ UNCHANGED <<process, expected, seen>>
     \/ Raise

(* The backend replays what it admits; an interrupted replay observes less *)
(* events, and a misconfigured one the database of another.                *)
Replay ==
  /\ pc = "replay"
  /\ \/ /\ Admissible
        /\ \E database \in Databases, complete \in BOOLEAN, result \in 1 .. 2 :
             seen' = Append(seen, [manifest |-> disk["manifest"].body, database |-> database,
                                   complete |-> complete, result |-> result])
        /\ IF at = 1 THEN Goto("replay", 2) ELSE Goto("stop", 1)
        /\ UNCHANGED <<process, expected>>
     \/ Raise

ServiceExits(s) ==
  /\ Alive(s) /\ process' = [process EXCEPT ![s] = "exited"]
  /\ UNCHANGED <<packageVars, pc, at, failed, expected, seen, comparison>>

(* The finally of services(): each process that was started is terminated, *)
(* awaited for 10 seconds and then killed.                                 *)
StopReady == {i \in Started : \E j \in Started : j > i}   \* mutant of StopAll: the last forgotten
StopAll   == Started
Stop ==
  /\ pc = "stop"
  /\ \/ /\ at \in StopAll /\ process[Services[at]] = "running"
        /\ process' = [process EXCEPT ![Services[at]] = "terminating"]
        /\ Goto("stop", at)
     \/ /\ at \in StopAll /\ process[Services[at]] = "terminating"   \* killed
        /\ process' = [process EXCEPT ![Services[at]] = "exited"]
        /\ Goto("stop", at)
     \/ /\ at \in StopAll /\ process[Services[at]] = "exited"
        /\ Goto("stop", at + 1) /\ UNCHANGED process
     \/ /\ at \notin StopAll
        /\ Goto(IF failed THEN "over" ELSE "compare", 1) /\ UNCHANGED process
  /\ UNCHANGED <<expected, seen>>

(* compare_replays().                                                      *)
ComparableAnywhere ==   \* mutant of Comparable: the databases not looked at
  /\ \A i \in 1 .. 2 : seen[i].complete /\ seen[i].manifest = expected
  /\ seen[1].result = seen[2].result
Comparable ==
  /\ \A i \in 1 .. 2 : seen[i].complete /\ seen[i].manifest = expected
  /\ seen[1].database # seen[2].database
  /\ seen[1].result = seen[2].result
Compare ==
  /\ pc = "compare"
  /\ IF Comparable THEN pc' = "write" /\ UNCHANGED failed ELSE pc' = "over" /\ failed' = TRUE
  /\ UNCHANGED <<packageVars, at, process, expected, seen, comparison>>
WriteComparison ==
  /\ pc = "write"
  /\ \/ comparison = "absent" /\ comparison' = "partial" /\ UNCHANGED pc
     \/ comparison = "partial" /\ comparison' = "PASS" /\ pc' = "over"
  /\ UNCHANGED <<packageVars, at, process, failed, expected, seen>>

Supervisor == Verify \/ Start \/ Ready \/ Replay \/ Stop \/ Compare \/ WriteComparison
Builder    == (Begin \/ Write \/ Die \/ Rewrite) /\ UNCHANGED replayVars
Next == Supervisor \/ Builder \/ \E s \in Range(Services) : ServiceExits(s)

(* Only the cleaning up and what follows never waits for anything external. *)
Fairness == WF_vars(Stop) /\ WF_vars(Compare) /\ WF_vars(WriteComparison)
Spec == Init /\ [][Next]_vars /\ Fairness

-----------------------------------------------------------------------------
(* A package that verifies is finished, whenever its making was cut off,   *)
(* refused or is still going on: package.json vouches for every file       *)
(* (make_bundle's order, verify_package).                                  *)
WholeIsComplete ==
  Whole => builder = "done" /\ \A f \in Range(Plan) : Stands(f)

(* A comparison that passed has two complete and equal replays on two      *)
(* databases behind it, of a package that was admissible and unchanged     *)
(* since it was listed (fixed_replays, compare_replays).                   *)
PassEarned ==
  comparison = "PASS" =>
    /\ ~case.missing /\ ~case.oversized /\ builder = "done"
    /\ expected = [f \in Range(BundleFiles) |-> disk["package"].body[f]]
    /\ \A i \in 1 .. 2 : seen[i].complete /\ seen[i].manifest = expected
    /\ seen[1].database # seen[2].database /\ seen[1].result = seen[2].result
    /\ ~failed

(* However an attempt ends, it stops every service that it started, the    *)
(* one that never became ready included (the finally of services()).       *)
Cleaned ==
  pc = "stop" ~> pc \in {"compare", "over"} /\ \A s \in Range(Services) : ~Alive(s)
=============================================================================
