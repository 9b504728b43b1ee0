---------------------------- MODULE PublishImage ----------------------------
(***************************************************************************)
(* The publication of the recap image of one revision (.github/workflows/  *)
(* publish-recap-image.yml and scripts/deployment/publish-image.sh).  The  *)
(* workflow may be dispatched again and again; its runs for one revision   *)
(* come one after the other.  Each builds and tests an image of its own,   *)
(* and either adopts what the tag names or, when the registry says that    *)
(* there is nothing, pushes once; it then reads the image back by digest.  *)
(*                                                                         *)
(* The registry (external) is addressed by content: an image stands for    *)
(* its digest.  A tag lookup may fail either way, a push may report a      *)
(* failure although it took place, and a run may be cut off at any time.   *)
(***************************************************************************)
EXTENDS Integers, FiniteSets

CONSTANTS
  Configs,   \* config digests that a build of the revision may have
  MaxRuns    \* bound: dispatches of the workflow

ASSUME PublishAssumption == Configs # {} /\ MaxRuns \in Nat

Image(config, revision, platform, single) ==
  [config |-> config, revision |-> revision, platform |-> platform, single |-> single]
Built   == {Image(c, "this", "linux/amd64", TRUE) : c \in Configs}
(* What else the tag may name: an index, another revision or platform.     *)
Foreign == {Image(c, r, p, s) : c \in Configs, r \in {"this", "other"},
                                p \in {"linux/amd64", "linux/arm64"}, s \in BOOLEAN} \ Built
Nothing == Image("none", "none", "none", FALSE)

VARIABLES
  tag,      \* the image that the registry's tag names, or Nothing
  stored,   \* the images that the registry holds
  runs,     \* dispatches so far
  pc,       \* "idle", "lookup", "push", "read"
  tested,   \* config digest of the image that was built and tested
  local,    \* the image under the local name
  digest,   \* the digest the run goes on with, or Nothing
  how,      \* "adopted" or "published"
  outputs   \* what the runs that succeeded reported

publishVars == <<tag, stored, runs, pc, tested, local, digest, how, outputs>>

PublishInit ==
  /\ tag \in Built \union Foreign \union {Nothing} /\ stored = {tag} \ {Nothing}
  /\ runs = 0 /\ pc = "idle" /\ tested \in Configs /\ local = Nothing
  /\ digest = Nothing /\ how = "adopted" /\ outputs = {}

GiveUp == pc' = "idle" /\ UNCHANGED <<tag, stored, runs, tested, local, digest, how, outputs>>

(* Builds of one revision need not be identical.  The name may have been   *)
(* given to another image since the tests.                                 *)
Dispatch == \E c \in Configs, image \in Built \union Foreign :
  /\ pc = "idle" /\ runs < MaxRuns
  /\ runs' = runs + 1 /\ tested' = c /\ local' = image
  /\ pc' = IF image \in Built /\ image.config = c THEN "lookup" ELSE "idle"
  /\ digest' = Nothing /\ how' = "adopted" /\ UNCHANGED <<tag, stored, outputs>>

(* The tag is resolved once.  Only "manifest unknown" means that it is     *)
(* free; whatever else goes wrong ends the run.                            *)
FreeOrUnclear == TRUE   \* mutant of Free: any failed lookup means that the tag is free
Free == tag = Nothing
Lookup ==
  /\ pc = "lookup"
  /\ \/ tag # Nothing /\ digest' = tag /\ pc' = "read" /\ UNCHANGED how
     \/ Free /\ how' = "published" /\ pc' = "push" /\ UNCHANGED digest
     \/ pc' = "idle" /\ UNCHANGED <<digest, how>>
  /\ UNCHANGED <<tag, stored, runs, tested, local, outputs>>

(* One push; a failure is ambiguous and not followed by another.           *)
Arrives == tag' = local /\ stored' = stored \union {local}
Push ==
  /\ pc = "push"
  /\ \/ Arrives /\ digest' = local /\ pc' = "read"
     \/ Arrives /\ pc' = "idle" /\ UNCHANGED digest
     \/ pc' = "idle" /\ UNCHANGED <<tag, stored, digest>>
  /\ UNCHANGED <<runs, tested, local, how, outputs>>

(* The checks of what the registry gives back for the digest.              *)
Identified ==
  /\ digest.single /\ digest.config = tested
  /\ digest.revision = "this" /\ digest.platform = "linux/amd64"
ReadBack ==
  /\ pc = "read" /\ digest \in stored /\ Identified
  /\ outputs' = outputs \union {[run |-> runs, image |-> digest, config |-> tested, result |-> how]}
  /\ pc' = "idle" /\ UNCHANGED <<tag, stored, runs, tested, local, digest, how>>

(* A failed check, a cancelled job, 50 minutes.                            *)
Stop == pc # "idle" /\ GiveUp

PublishNext == Dispatch \/ Lookup \/ Push \/ ReadBack \/ Stop
PublishSpec == PublishInit /\ [][PublishNext]_publishVars

-----------------------------------------------------------------------------
(* All runs that succeed, one after an ambiguous push included, tested one *)
(* configuration and report one image, and what they reported is what the  *)
(* tag still names: a tag that is taken is never written again, and a run  *)
(* whose own build differs from what the tag names does not adopt it       *)
(* (docs/deployment/README.md).                                            *)
OutputsAgree ==
  \A o \in outputs : o.image = tag /\ \A other \in outputs : other.config = o.config
=============================================================================
