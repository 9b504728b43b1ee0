------------------------- MODULE ApplicationCycle -------------------------
(***************************************************************************)
(* The trial application of a delivery package (synthetic_data/            *)
(* application.py, application_cycle(), local_target(); replay.py,         *)
(* run_java()): on a disposable database of its own, inspect, prepare with *)
(* a dry run, apply once, inspect, restore from the backup once, inspect,  *)
(* and report.                                                             *)
(*                                                                         *)
(* Every operation is a Java process (external).  It may fail before or    *)
(* after it has committed, so that a failed APPLY has an unknown outcome,  *)
(* and it may do something else than it says.  The database is its tables  *)
(* and sequences, "original" at first, and its journal of applications.    *)
(***************************************************************************)
EXTENDS Naturals

VARIABLES
  step,      \* where application_cycle() stands
  target,    \* the database process: "down", "starting", "up"
  tables,    \* "original", "applied" or "damaged"
  journal,   \* applications recorded in the database
  backup,    \* what backup.json holds: "none", "original" or "damaged"
  tries,     \* APPLY processes started, of the plan and of the restore plan
  written,   \* reports on disk
  raised     \* an exception is on its way out

database == <<tables, journal>>
trialVars == <<step, target, database, backup, tries, written, raised>>

Contents == {"original", "applied", "damaged"}
Before   == <<"original", 0>>

TrialInit ==
  /\ step = "start" /\ target = "down"
  /\ tables = "original" /\ journal = 0 /\ backup = "none"
  /\ tries = [apply |-> 0, restore |-> 0]
  /\ written = {} /\ raised = FALSE

Over == step \in {"end", "abandoned"}

GoOn(next) == step' = next /\ UNCHANGED raised
(* An exception leaves the with statement, which stops the database. *)
GiveUp     == step' = "stop" /\ raised' = TRUE

-----------------------------------------------------------------------------
(* local_target(): start the database, and stop it whatever happened.      *)

StartTarget ==
  /\ step = "start" /\ target = "down"
  /\ target' = "starting" /\ GoOn("ready")
  /\ UNCHANGED <<database, backup, tries, written>>

(* ready.json appears, the process ends, or 120 seconds pass. *)
TargetReady ==
  /\ step = "ready"
  /\ \/ target = "starting" /\ target' = "up" /\ GoOn("inspect before")
     \/ GiveUp /\ target' \in {target, "down"}
  /\ UNCHANGED <<database, backup, tries, written>>

(* The database ends by itself: every later operation fails. *)
TargetDies ==
  /\ target = "up" /\ step \notin {"stop", "terminate", "end"}
  /\ target' = "down"
  /\ UNCHANGED <<step, database, backup, tries, written, raised>>

(* Mutants: the wait is for as long as it takes; nothing follows it. *)
StopWaits ==
  /\ step = "stop" /\ target = "down" /\ step' = "report"
  /\ UNCHANGED <<target, database, backup, tries, written, raised>>

StopAndGo ==
  /\ step = "stop"
  /\ target' \in {target, "down"} /\ step' = "report"
  /\ UNCHANGED <<database, backup, tries, written, raised>>

(* End of its input stops it, else terminate() does. *)
StopTarget ==
  /\ step = "stop"
  /\ \/ target' = "down" /\ step' = "report"
     \/ target # "down" /\ step' = "terminate" /\ UNCHANGED target
  /\ UNCHANGED <<database, backup, tries, written, raised>>

(* If that does not help within 30 seconds, its exception takes over. *)
Terminate ==
  /\ step = "terminate"
  /\ \/ target' = "down" /\ step' = "report" /\ UNCHANGED raised
     \/ step' = "abandoned" /\ raised' = TRUE /\ UNCHANGED target
  /\ UNCHANGED <<database, backup, tries, written>>

-----------------------------------------------------------------------------
(* Reading: the five INSPECTs and what is required of each.                *)

Inspect(at, ok, next) ==
  /\ step = at
  /\ \/ target = "up" /\ ok /\ GoOn(next)
     \/ GiveUp
  /\ UNCHANGED <<target, database, backup, tries, written>>

InspectBefore == Inspect("inspect before", TRUE, "prepare")

(* The dry run must leave the tables as they were; the journal is only     *)
(* compared when PREPARE failed. *)
InspectDryRun == Inspect("inspect dry run", tables = "original", "apply")

(* Mutant: the verdict on a rejected PREPARE needs no look at the tables. *)
BlockedUnseen == journal = 0

Blocked == database = Before

(* A rejected PREPARE is reported, and its exception goes on. *)
InspectRejected ==
  /\ step = "inspect rejected" /\ GiveUp
  /\ \/ target = "up" /\ Blocked /\ written' = written \cup {"BLOCKED_BEFORE_APPLY"}
     \/ UNCHANGED written
  /\ UNCHANGED <<target, database, backup, tries>>

(* verify_applied(): 100 students, the owner's rows and the excluded       *)
(* academy untouched. *)
InspectApplied ==
  /\ step = "inspect applied"
  /\ \/ /\ target = "up" /\ tables = "applied"
        /\ GoOn("backup") /\ written' = written \cup {"application"}
     \/ GiveUp /\ UNCHANGED written
  /\ UNCHANGED <<target, database, backup, tries>>

(* Mutant: what was restored is compared with the backup. *)
RestoredAsBackedUp == database = <<backup, 2>>

(* verify_restored(): tables and sequences as the first INSPECT found      *)
(* them, two applications. *)
Restored == database = <<"original", 2>>

InspectRestored ==
  /\ step = "inspect restored"
  /\ \/ /\ target = "up" /\ Restored
        /\ GoOn("stop") /\ written' = written \cup {"restoration"}
     \/ GiveUp /\ UNCHANGED written
  /\ UNCHANGED <<target, database, backup, tries>>

-----------------------------------------------------------------------------
(* Writing.                                                                *)

(* PREPARE backs up and tries the change, which it should roll back; it    *)
(* may fail to, whether it succeeds or not. *)
Prepare ==
  /\ step = "prepare"
  /\ \/ /\ target = "up" /\ backup' = tables /\ GoOn("inspect dry run")
     \/ UNCHANGED backup /\ GoOn("inspect rejected")
  /\ \/ UNCHANGED database
     \/ target = "up" /\ tables' \in Contents /\ journal' \in {journal, journal + 1}
  /\ UNCHANGED <<target, tries, written>>

(* Mutant: an APPLY that fails is tried again. *)
ApplyAgain(at, plan, done, next) ==
  /\ step = at /\ tries' = [tries EXCEPT ![plan] = @ + 1] /\ tries[plan] < 2
  /\ \/ target = "up" /\ tables' \in {done, "damaged"} /\ journal' = journal + 1
     \/ UNCHANGED database
  /\ \/ journal' > journal /\ GoOn(next)
     \/ GoOn(at)
  /\ UNCHANGED <<target, backup, written>>

(* One APPLY process.  It commits or not, and succeeds or not, by its exit *)
(* code and its result; what it does not commit it cannot report done.     *)
Apply(at, plan, done, next) ==
  /\ step = at /\ tries' = [tries EXCEPT ![plan] = @ + 1]
  /\ \/ target = "up" /\ tables' \in {done, "damaged"} /\ journal' = journal + 1
     \/ UNCHANGED database
  /\ \/ journal' > journal /\ GoOn(next)
     \/ GiveUp
  /\ UNCHANGED <<target, backup, written>>

ApplyPlan    == Apply("apply", "apply", "applied", "inspect applied")
ApplyRestore == Apply("restore", "restore", backup, "inspect restored")

(* The file of the backup may change at any time after PREPARE wrote it,   *)
(* before its digest is compared and after.                                *)
BackupChanges ==
  /\ backup = "original" /\ ~Over
  /\ backup' = "damaged"
  /\ UNCHANGED <<step, target, database, tries, written, raised>>

(* backup-integrity: the digest PREPARE recorded.  It excludes what        *)
(* changed before; the restore may still read another file later. *)
Intact == backup = "original"

CheckBackup ==
  /\ step = "backup"
  /\ IF Intact THEN GoOn("restore prepare") ELSE GiveUp
  /\ UNCHANGED <<target, database, backup, tries, written>>

RestorePrepare ==
  /\ step = "restore prepare"
  /\ (target = "up" /\ GoOn("restore")) \/ GiveUp
  /\ UNCHANGED <<target, database, backup, tries, written>>

(* The report of a whole cycle is written last. *)
Report ==
  /\ step = "report"
  /\ written' = IF raised THEN written ELSE written \cup {"PASS"}
  /\ step' = "end"
  /\ UNCHANGED <<target, database, backup, tries, raised>>

Finished == Over /\ UNCHANGED trialVars

Cycle ==
  \/ StartTarget \/ TargetReady \/ StopTarget \/ Terminate
  \/ InspectBefore \/ Prepare \/ InspectRejected \/ InspectDryRun
  \/ ApplyPlan \/ InspectApplied \/ CheckBackup
  \/ RestorePrepare \/ ApplyRestore \/ InspectRestored \/ Report

TrialNext == Cycle \/ TargetDies \/ BackupChanges \/ Finished

TrialSpec == TrialInit /\ [][TrialNext]_trialVars /\ WF_trialVars(Cycle)

-----------------------------------------------------------------------------
(* An APPLY whose outcome is unknown is not repeated, and the second one,  *)
(* the restore, follows only a first that was seen in the database         *)
(* (policy-coverage.md: no automatic retry of an APPLY).                   *)
AppliedOnce ==
  /\ tries.apply <= 1 /\ tries.restore <= tries.apply
  /\ tries.restore = 1 => "application" \in written

(* The verdict on disk is true of the database: BLOCKED_BEFORE_APPLY means *)
(* that no APPLY was started and nothing changed, PASS that the package    *)
(* was applied and taken back, and both stages were verified.  So it is    *)
(* even when the file of the backup changes between the comparison of its  *)
(* digest and its use (application.py:79-92, 100-107).                     *)
ReportTrue ==
  /\ "BLOCKED_BEFORE_APPLY" \in written => database = Before /\ tries.apply = 0
  /\ "PASS" \in written =>
       /\ database = <<"original", 2>> /\ tries = [apply |-> 1, restore |-> 1]
       /\ {"application", "restoration"} \subseteq written

(* The disposable database is gone when the command is over; where even    *)
(* terminate() did not end it, the command fails and nothing says PASS.    *)
TargetStopped ==
  Over /\ target # "down" => step = "abandoned" /\ raised /\ "PASS" \notin written

(* However the parts fail, the command comes to an end. *)
Ends == <>Over

=============================================================================
