-------------------------- MODULE EvidencePackage --------------------------
(***************************************************************************)
(* The delivery package of a simulation run (synthetic_data/bundle.py):    *)
(* make_bundle() fills a new directory file by file, copies being hard     *)
(* links where the file system allows, and writes package.json last;       *)
(* verify_package() believes a package whose listed files are what         *)
(* package.json says.                                                      *)
(*                                                                         *)
(* The body of a copied file is the version of the run's file, those of    *)
(* the manifest and of package.json are the bodies they list (digests).  A *)
(* linked file is the run's own under a second name: it changes when the   *)
(* run's file is rewritten, which only the convention forbids that         *)
(* evidence is never touched again.                                        *)
(***************************************************************************)
EXTENDS Integers, Sequences, SequencesExt

CONSTANTS
  BundleFiles,  \* the run's files that go into the bundle, in order
  OtherFiles,   \* and those copied beside it afterwards (state, reports)
  MaxRewrites   \* bound: rewritten files of the run

ASSUME PackageAssumption ==
  /\ BundleFiles \in Seq(Range(BundleFiles)) /\ OtherFiles \in Seq(Range(OtherFiles))
  /\ IsInjective(BundleFiles \o OtherFiles) /\ MaxRewrites \in Nat
  /\ {"manifest", "package"} \cap Range(BundleFiles \o OtherFiles) = {}

VARIABLES
  run,      \* version of each file of the run
  case,     \* the run lacks a response the backend rightly never made, its
            \* bundle exceeds the limits, retain_unadmitted was asked for
  builder,  \* "begin", "writing", "done", "refused" or "dead"
  disk      \* the files of the package

packageVars == <<run, case, builder, disk>>

RunFiles == Range(BundleFiles \o OtherFiles)
PlanEager == BundleFiles \o <<"manifest", "package">> \o OtherFiles   \* mutant of Plan
Plan      == BundleFiles \o <<"manifest">> \o OtherFiles \o <<"package">>

Version(n) == [version |-> n]
File(state, body) == [state |-> state, body |-> body]
Stands(f) == disk[f].state \in {"linked", "written"}
Body(f)   == IF disk[f].state = "linked" THEN Version(run[f]) ELSE disk[f].body
Standing  == {f \in Range(Plan) : Stands(f)}
(* What a file says when it is written now.                                *)
Text(f) ==
  CASE f \in RunFiles -> Version(run[f])
    [] f = "manifest" -> [g \in Range(BundleFiles) |-> Body(g)]
    [] f = "package"  -> [g \in Standing |-> Body(g)]

PackageInit ==
  /\ run = [f \in RunFiles |-> 0]
  /\ case \in [missing : BOOLEAN, oversized : BOOLEAN, retain : BOOLEAN]
  /\ builder = "begin"
  /\ disk = [f \in Range(Plan) |-> File("absent", Version(0))]

(* A run with a missing response is refused before anything is written.    *)
Begin ==
  /\ builder = "begin"
  /\ builder' = IF case.missing /\ ~case.retain THEN "refused" ELSE "writing"
  /\ UNCHANGED <<run, case, disk>>

(* The next file: linked at once, or written, which may be cut off.  A     *)
(* bundle over the limits is left as it is when its manifest is due.       *)
Due == Plan[SelectInSeq(Plan, LAMBDA f : ~Stands(f))]
Put(f, file) == disk' = [disk EXCEPT ![f] = file]
Write ==
  /\ builder = "writing"
  /\ LET f == Due IN
     \/ /\ f = "manifest" /\ case.oversized /\ ~case.retain
        /\ builder' = "refused" /\ UNCHANGED disk
     \/ /\ f = "manifest" => ~case.oversized \/ case.retain
        /\ \/ f \in RunFiles /\ disk[f].state = "absent" /\ Put(f, File("linked", Version(0)))
           \/ disk[f].state = "absent" /\ Put(f, File("partial", Version(0)))
           \/ disk[f].state = "partial" /\ Put(f, File("written", Text(f)))
        /\ builder' = IF \A g \in Range(Plan) : Stands(g)' THEN "done" ELSE "writing"
  /\ UNCHANGED <<run, case>>

Die == builder = "writing" /\ builder' = "dead" /\ UNCHANGED <<run, case, disk>>

(* Someone rewrites a file of the run (external).                          *)
Rewrite == \E f \in RunFiles :
  /\ \A g \in RunFiles \ {f} : run[g] = 0
  /\ run[f] < MaxRewrites
  /\ run' = [run EXCEPT ![f] = @ + 1]
  /\ UNCHANGED <<case, builder, disk>>

(* verify_package().                                                       *)
Whole ==
  /\ disk["package"].state = "written"
  /\ \A f \in DOMAIN disk["package"].body : Stands(f) /\ Body(f) = disk["package"].body[f]
  /\ "manifest" \in DOMAIN disk["package"].body

(* What the package says of its admission by the backend.                  *)
Admission == CASE case.oversized -> "BLOCKED_BACKEND_REQUIREMENTS"
               [] case.missing /\ ~case.oversized -> "BLOCKED_MISSING_BACKEND_ARTIFACT"
               [] OTHER                           -> "NOT_VERIFIED"

(* The backend's own check of a bundle against its manifest (external).    *)
Admissible == /\ disk["manifest"].state = "written" /\ Admission = "NOT_VERIFIED"
              /\ \A f \in Range(BundleFiles) : Stands(f) /\ Body(f) = disk["manifest"].body[f]
=============================================================================
