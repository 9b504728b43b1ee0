-------------------------- MODULE Procedures_proof --------------------------
(***************************************************************************)
(* Proofs about the two procedures a package goes through, each by itself: *)
(* its replays (FixedReplays, for any files of a bundle, any services and  *)
(* any number of rewritten files) and its trial application                *)
(* (ApplicationCycle).                                                     *)
(***************************************************************************)
EXTENDS FixedReplays, ApplicationCycle, FiniteInduction

Bundled  == Range(BundleFiles)
Versions == [version : Nat]

(* The builder's order, told by the two files that list others: what they  *)
(* list stood before they were begun.                                      *)
Ordered ==
  /\ disk["manifest"].state # "absent" => \A f \in Bundled : Stands(f)
  /\ disk["package"].state # "absent" => \A f \in RunFiles \cup {"manifest"} : Stands(f)
  /\ builder = "done" <=> \A f \in RunFiles \cup {"manifest", "package"} : Stands(f)

(* Versions only grow, from what the manifest lists over what package.json *)
(* lists to what the files say now.                                        *)
Grown ==
  /\ \A f \in RunFiles : Stands(f) => Body(f) \in Versions
  /\ disk["manifest"].state = "written" =>
       /\ disk["manifest"].body \in [Bundled -> Versions]
       /\ \A f \in Bundled : disk["manifest"].body[f].version <= Body(f).version
  /\ disk["package"].state = "written" =>
       /\ DOMAIN disk["package"].body = RunFiles \cup {"manifest"}
       /\ disk["package"].body["manifest"] = disk["manifest"].body
       /\ \A f \in Bundled :
            /\ disk["package"].body[f] \in Versions
            /\ disk["manifest"].body[f].version <= disk["package"].body[f].version
            /\ disk["package"].body[f].version <= Body(f).version

PackageInv ==
  /\ run \in [RunFiles -> Nat]
  /\ DOMAIN disk = RunFiles \cup {"manifest", "package"}
  /\ \A f \in DOMAIN disk : disk[f].state \in {"absent", "partial", "linked", "written"}
  /\ disk["manifest"].state # "linked" /\ disk["package"].state # "linked"
  /\ Ordered
  /\ Grown

(* What the attempt has found out when it is at a place of the code.       *)
Observations == [manifest : {disk["manifest"].body}, database : Databases,
                 complete : BOOLEAN, result : 1 .. 2]
Verified == builder = "done" /\ disk["package"].state = "written"
            /\ expected = disk["package"].body["manifest"]
Admitted == /\ ~case.missing /\ ~case.oversized
            /\ \A f \in Bundled : disk["manifest"].body[f] = disk["package"].body[f]
AttemptInv ==
  /\ pc \in {"begin", "start", "ready", "replay", "stop", "compare", "write", "over"}
  /\ failed \in BOOLEAN
  /\ seen \in Seq(Observations)
  /\ pc \in {"begin", "start", "ready"} => seen = <<>>
  /\ pc = "replay" => at \in {1, 2} /\ Len(seen) = at - 1
  /\ pc \in {"begin", "start", "ready", "replay", "compare", "write"} => ~failed
  /\ pc \in {"stop", "compare", "write", "over"} /\ ~failed => Len(seen) = 2
  /\ pc = "begin" \/ (pc = "over" /\ failed) \/ Verified
  /\ seen # <<>> => builder = "done" /\ Admitted
  /\ comparison # "absent" => pc \in {"write", "over"} /\ ~failed
  /\ pc = "write" \/ comparison # "absent" => Comparable

ReplayInv == PackageInv /\ AttemptInv

-----------------------------------------------------------------------------
(* Which files the plan names, and where its two lists stand.              *)
LEMMA PlanNames ==
  /\ Plan \in Seq(Range(Plan))
  /\ Range(Plan) = RunFiles \cup {"manifest", "package"}
  /\ Bundled \subseteq RunFiles /\ "manifest" \notin RunFiles /\ "package" \notin RunFiles
  /\ \A i \in 1 .. Len(Plan) : Plan[i] = "package" =>
       \A f \in RunFiles \cup {"manifest"} : \E j \in 1 .. i - 1 : Plan[j] = f
  /\ \A i \in 1 .. Len(Plan) : Plan[i] = "manifest" =>
       \A f \in Bundled : \E j \in 1 .. i - 1 : Plan[j] = f
<1> DEFINE b == Len(BundleFiles)
           o == Len(OtherFiles)
<1>1. /\ b \in Nat /\ o \in Nat
      /\ BundleFiles \in [1 .. b -> Bundled] /\ OtherFiles \in [1 .. o -> Range(OtherFiles)]
  BY PackageAssumption DEF Bundled
<1>2. RunFiles = Bundled \cup Range(OtherFiles)
  <2> DEFINE both == BundleFiles \o OtherFiles
  <2>1. /\ DOMAIN both = 1 .. b + o
        /\ \A i \in 1 .. b : both[i] = BundleFiles[i]
        /\ \A i \in 1 .. b + o : i \notin 1 .. b => i - b \in 1 .. o /\ both[i] = OtherFiles[i - b]
        /\ \A i \in 1 .. o : b + i \in 1 .. b + o /\ both[b + i] = OtherFiles[i]
    BY PackageAssumption, <1>1
  <2>2. \A f \in Range(both) : f \in Bundled \cup Range(OtherFiles)
    <3> HIDE DEF both
    <3> QED BY <1>1, <2>1 DEF Range, Bundled
  <2>3. \A f \in Bundled : f \in Range(both)
    <3> HIDE DEF both
    <3> QED BY <1>1, <2>1 DEF Range, Bundled
  <2>4. \A f \in Range(OtherFiles) : f \in Range(both)
    <3> HIDE DEF both
    <3> QED BY <1>1, <2>1 DEF Range
  <2> QED BY <2>2, <2>3, <2>4 DEF RunFiles
<1>3. "manifest" \notin RunFiles /\ "package" \notin RunFiles
  BY PackageAssumption DEF RunFiles
<1>4. /\ Plan \in Seq(Range(BundleFiles) \cup Range(OtherFiles) \cup {"manifest", "package"})
      /\ Len(Plan) = b + o + 2
      /\ \A i \in 1 .. b : Plan[i] = BundleFiles[i]
      /\ Plan[b + 1] = "manifest"
      /\ \A i \in 1 .. o : Plan[b + 1 + i] = OtherFiles[i]
      /\ Plan[b + o + 2] = "package"
  BY PackageAssumption DEF Plan
<1>5. ASSUME NEW i \in 1 .. Len(Plan)
      PROVE \/ i \in 1 .. b /\ Plan[i] = BundleFiles[i]
            \/ i = b + 1 /\ Plan[i] = "manifest"
            \/ i - (b + 1) \in 1 .. o /\ Plan[i] = OtherFiles[i - (b + 1)]
            \/ i = b + o + 2 /\ Plan[i] = "package"
  <2>1. i \in 1 .. b \/ i = b + 1 \/ i - (b + 1) \in 1 .. o \/ i = b + o + 2
    BY <1>1, <1>4
  <2>2. CASE i - (b + 1) \in 1 .. o
    <3>1. i = b + 1 + (i - (b + 1))
      BY <1>1
    <3> QED BY <1>4, <2>2, <3>1
  <2> QED BY <1>4, <2>1, <2>2
<1>6. ASSUME NEW f \in RunFiles \cup {"manifest"} PROVE \E j \in 1 .. b + o + 1 : Plan[j] = f
  <2>1. CASE f \in Bundled
    <3>1. PICK j \in 1 .. b : BundleFiles[j] = f
      BY <1>1, <2>1 DEF Bundled, Range
    <3>2. j \in 1 .. b + o + 1
      BY <1>1
    <3> QED BY <1>4, <3>1, <3>2
  <2>2. CASE f \in Range(OtherFiles)
    <3>1. PICK j \in 1 .. o : OtherFiles[j] = f
      BY <1>1, <2>2 DEF Range
    <3>2. b + 1 + j \in 1 .. b + o + 1
      BY <1>1
    <3> QED BY <1>4, <3>1, <3>2
  <2>3. CASE f = "manifest"
    BY <1>1, <1>4, <2>3
  <2> QED BY <1>2, <2>1, <2>2, <2>3
<1>7. Range(Plan) = RunFiles \cup {"manifest", "package"}
  <2>1. DOMAIN Plan = 1 .. Len(Plan)
    BY <1>4
  <2>2. \A i \in 1 .. Len(Plan) : Plan[i] \in RunFiles \cup {"manifest", "package"}
    BY <1>1, <1>2, <1>5
  <2>3. \A f \in RunFiles \cup {"manifest", "package"} : \E i \in 1 .. Len(Plan) : Plan[i] = f
    <3>1. b + o + 2 \in 1 .. Len(Plan) /\ \A j \in 1 .. b + o + 1 : j \in 1 .. Len(Plan)
      BY <1>1, <1>4
    <3> QED BY <1>4, <1>6, <3>1
  <2> QED BY <2>1, <2>2, <2>3 DEF Range
<1>8. ASSUME NEW i \in 1 .. Len(Plan), Plan[i] = "package", NEW f \in RunFiles \cup {"manifest"}
      PROVE \E j \in 1 .. i - 1 : Plan[j] = f
  <2>1. i = b + o + 2
    BY <1>1, <1>2, <1>3, <1>5, <1>8
  <2> QED BY <1>1, <1>6, <2>1
<1>9. ASSUME NEW i \in 1 .. Len(Plan), Plan[i] = "manifest", NEW f \in Bundled
      PROVE \E j \in 1 .. i - 1 : Plan[j] = f
  <2>1. i = b + 1
    BY <1>1, <1>2, <1>3, <1>5, <1>9
  <2>2. PICK j \in 1 .. b : BundleFiles[j] = f
    BY <1>1 DEF Bundled, Range
  <2> QED BY <1>1, <1>4, <2>1, <2>2
<1>10. Plan \in Seq(Range(Plan))
  BY <1>2, <1>4, <1>7 DEF Bundled
<1> QED BY <1>2, <1>3, <1>7, <1>8, <1>9, <1>10

(* The file that is due is the first of the plan that does not stand.      *)
LEMMA DueIsFirst ==
  ASSUME NEW g \in Range(Plan), ~Stands(g)
  PROVE  /\ Due \in Range(Plan) /\ ~Stands(Due)
         /\ Due = "package" => \A f \in RunFiles \cup {"manifest"} : Stands(f)
         /\ Due = "manifest" => \A f \in Bundled : Stands(f)
<1> DEFINE I == {i \in 1 .. Len(Plan) : ~Stands(Plan[i])}
<1>1. Plan \in Seq(Range(Plan)) /\ Len(Plan) \in Nat /\ DOMAIN Plan = 1 .. Len(Plan)
  BY PlanNames
<1>2. I \in SUBSET Nat /\ I # {}
  BY <1>1 DEF Range
<1>3. PICK first \in I : \A i \in I : first <= i
  BY <1>2, LeastNatural
<1>4. Min(I) = first
  BY <1>2, <1>3 DEF Min
<1>5. Due = Plan[first]
  BY <1>2, <1>4 DEF Due, SelectInSeq
<1>6. \A j \in 1 .. first - 1 : Stands(Plan[j])
  BY <1>1, <1>3
<1>7. first \in 1 .. Len(Plan)
  OBVIOUS
<1> QED BY <1>1, <1>5, <1>6, <1>7, <1>3, PlanNames, SMTT(30) DEF Range

(* What is written: a copy, or the list of what stands before it.          *)
LEMMA TextOf ==
         /\ \A f \in RunFiles : Text(f) = Version(run[f])
         /\ Text("manifest") = [g \in Bundled |-> Body(g)]
         /\ Text("package") = [g \in Standing |-> Body(g)]
BY PlanNames DEF Text, Bundled

(* The builder's step, a refusal apart, puts the file that is due.         *)
LEMMA PutKeeps ==
  ASSUME PackageInv, UNCHANGED <<run, case>>, NEW file, NEW f \in Range(Plan),
         f = Due, ~Stands(f), Put(f, file), ~(\A g \in Range(Plan) : Stands(g)),
         builder' = IF \A g \in Range(Plan) : Stands(g)' THEN "done" ELSE "writing",
         \/ f \in RunFiles /\ file = File("linked", Version(0))
         \/ file = File("partial", Version(0))
         \/ disk[f].state = "partial" /\ file = File("written", Text(f))
  PROVE  PackageInv'
<1>1. /\ Range(Plan) = RunFiles \cup {"manifest", "package"} /\ Bundled \subseteq RunFiles
      /\ "manifest" \notin RunFiles /\ "package" \notin RunFiles
  BY PlanNames
<1>2. /\ f = "package" => \A g \in RunFiles \cup {"manifest"} : Stands(g)
      /\ f = "manifest" => \A g \in Bundled : Stands(g)
  BY DueIsFirst
<1>3. /\ DOMAIN disk' = DOMAIN disk /\ disk'[f] = file
      /\ \A g \in DOMAIN disk : g # f => disk'[g] = disk[g]
  BY <1>1 DEF PackageInv, Put
<1>4. \A g \in DOMAIN disk : g # f => Stands(g)' = Stands(g) /\ Body(g)' = Body(g)
  BY <1>3 DEF Stands, Body
<1>5. file.state \in {"partial", "linked", "written"} /\ (file.state = "linked" => f \in RunFiles)
  BY DEF File
<1>6. /\ run' \in [RunFiles -> Nat]
      /\ DOMAIN disk' = RunFiles \cup {"manifest", "package"}
      /\ \A g \in DOMAIN disk' : disk'[g].state \in {"absent", "partial", "linked", "written"}
      /\ disk'["manifest"].state # "linked" /\ disk'["package"].state # "linked"
  BY <1>1, <1>3, <1>5 DEF PackageInv
<1>7. Ordered'
  <2>1. disk'["manifest"].state # "absent" => \A g \in Bundled : Stands(g)'
    BY <1>1, <1>2, <1>3, <1>4 DEF PackageInv, Ordered
  <2>2. disk'["package"].state # "absent" => \A g \in RunFiles \cup {"manifest"} : Stands(g)'
    BY <1>1, <1>2, <1>3, <1>4 DEF PackageInv, Ordered
  <2> QED BY <1>1, <2>1, <2>2 DEF Ordered
<1>8. \A g \in RunFiles : Stands(g)' => (Body(g) \in Versions)'
  <2>1. CASE f \in RunFiles
    <3>1. Stands(f)' => (Body(f) \in Versions)'
      BY <1>3, <2>1, TextOf DEF Stands, Body, File, Version, Versions, PackageInv
    <3> QED BY <1>4, <3>1 DEF PackageInv, Grown, Versions
  <2> QED BY <1>4, <2>1 DEF PackageInv, Grown, Versions
<1>9. disk'["manifest"].state = "written" =>
        /\ disk'["manifest"].body \in [Bundled -> Versions]
        /\ \A g \in Bundled : disk'["manifest"].body[g].version <= Body(g)'.version
  <2> SUFFICES ASSUME disk'["manifest"].state = "written"
               PROVE  /\ disk'["manifest"].body \in [Bundled -> Versions]
                      /\ \A g \in Bundled : disk'["manifest"].body[g].version <= Body(g)'.version
    OBVIOUS
  <2>1. CASE f = "manifest"
    <3>1. disk'["manifest"].body = [g \in Bundled |-> Body(g)]
      BY <1>1, <1>3, <2>1, TextOf DEF File, PackageInv
    <3>2. \A g \in Bundled : Body(g) \in Versions /\ Body(g)' = Body(g)
      BY <1>1, <1>2, <1>4, <2>1 DEF PackageInv, Grown
    <3> QED BY <3>1, <3>2 DEF Versions
  <2>2. CASE f # "manifest"
    <3>1. disk["manifest"].state = "written" /\ disk'["manifest"] = disk["manifest"]
      BY <1>1, <1>3, <2>2 DEF PackageInv
    <3>2. f \notin Bundled
      BY <3>1 DEF PackageInv, Ordered
    <3> QED BY <1>1, <1>4, <3>1, <3>2 DEF PackageInv, Grown
  <2> QED BY <2>1, <2>2
<1>10. disk'["package"].state = "written" =>
         /\ DOMAIN disk'["package"].body = RunFiles \cup {"manifest"}
         /\ disk'["package"].body["manifest"] = disk'["manifest"].body
         /\ \A g \in Bundled :
              /\ disk'["package"].body[g] \in Versions
              /\ disk'["manifest"].body[g].version <= disk'["package"].body[g].version
              /\ disk'["package"].body[g].version <= Body(g)'.version
  <2> SUFFICES ASSUME disk'["package"].state = "written"
               PROVE  /\ DOMAIN disk'["package"].body = RunFiles \cup {"manifest"}
                      /\ disk'["package"].body["manifest"] = disk'["manifest"].body
                      /\ \A g \in Bundled :
                           /\ disk'["package"].body[g] \in Versions
                           /\ disk'["manifest"].body[g].version <= disk'["package"].body[g].version
                           /\ disk'["package"].body[g].version <= Body(g)'.version
    OBVIOUS
  <2>1. CASE f = "package"
    <3>1. Standing = RunFiles \cup {"manifest"}
      BY <1>1, <1>2, <2>1 DEF Standing
    <3>2. disk'["package"].body = [g \in RunFiles \cup {"manifest"} |-> Body(g)]
      BY <1>1, <1>3, <2>1, <3>1, TextOf DEF File, PackageInv
    <3>3. Stands("manifest") /\ disk["manifest"].state = "written" /\ disk'["manifest"] = disk["manifest"]
      BY <1>1, <1>2, <1>3, <2>1 DEF PackageInv, Stands
    <3>4. Body("manifest") = disk["manifest"].body
      BY <3>3 DEF Body
    <3>5. ASSUME NEW g \in Bundled
          PROVE  /\ disk'["package"].body[g] = Body(g) /\ Body(g)' = Body(g) /\ Body(g) \in Versions
                 /\ disk["manifest"].body[g].version <= Body(g).version
      BY <1>1, <1>2, <1>4, <2>1, <3>2, <3>3 DEF PackageInv, Grown
    <3> QED BY <3>2, <3>3, <3>4, <3>5, SMTT(30) DEF Versions
  <2>2. CASE f # "package"
    <3>1. disk["package"].state = "written" /\ disk'["package"] = disk["package"]
      BY <1>1, <1>3, <2>2 DEF PackageInv
    <3>2. FALSE
      BY <1>1, <2>2, <3>1 DEF PackageInv, Ordered
    <3> QED BY <3>2
  <2> QED BY <2>1, <2>2
<1> QED BY <1>6, <1>7, <1>8, <1>9, <1>10 DEF PackageInv, Grown

(* Every step keeps what is known of the package.                          *)
LEMMA PackageKept == PackageInv /\ [Next]_vars => PackageInv'
<1> SUFFICES ASSUME PackageInv, [Next]_vars PROVE PackageInv'
  OBVIOUS
<1>1. /\ Range(Plan) = RunFiles \cup {"manifest", "package"} /\ Bundled \subseteq RunFiles
      /\ "manifest" \notin RunFiles /\ "package" \notin RunFiles
  BY PlanNames
<1>2. ASSUME UNCHANGED <<run, disk>>, builder' = "done" <=> builder = "done" PROVE PackageInv'
  BY <1>2 DEF PackageInv, Ordered, Grown, Stands, Body
<1>3. CASE Begin
  BY <1>2, <1>3 DEF Begin
<1>4. CASE Write
  <2>1. builder = "writing" /\ UNCHANGED <<run, case>>
    BY <1>4 DEF Write
  <2>2. ~(\A g \in Range(Plan) : Stands(g))
    BY <1>1, <2>1 DEF PackageInv, Ordered
  <2>3. Due \in Range(Plan) /\ ~Stands(Due)
    BY <2>2, DueIsFirst
  <2>4. CASE builder' = "refused" /\ UNCHANGED disk
    BY <1>2, <2>1, <2>4
  <2>5. CASE /\ \/ Due \in RunFiles /\ Put(Due, File("linked", Version(0)))
                \/ Put(Due, File("partial", Version(0)))
                \/ disk[Due].state = "partial" /\ Put(Due, File("written", Text(Due)))
             /\ builder' = IF \A g \in Range(Plan) : Stands(g)' THEN "done" ELSE "writing"
    BY <2>1, <2>2, <2>3, <2>5, PutKeeps
  <2> QED BY <1>4, <2>4, <2>5 DEF Write
<1>5. CASE Die
  BY <1>2, <1>5 DEF Die
<1>6. CASE Rewrite
  <2>1. PICK f \in RunFiles : run' = [run EXCEPT ![f] = @ + 1]
    BY <1>6 DEF Rewrite
  <2>2. UNCHANGED <<builder, disk>>
    BY <1>6 DEF Rewrite
  <2>3. run' \in [RunFiles -> Nat] /\ \A g \in RunFiles : run[g] \in Nat /\ run[g] <= run'[g]
    BY <2>1 DEF PackageInv
  <2>4. \A g \in DOMAIN disk : Stands(g)' = Stands(g)
    BY <2>2 DEF Stands
  <2>5. ASSUME NEW g \in RunFiles, Stands(g)
        PROVE  Body(g)' \in Versions /\ Body(g) \in Versions /\ Body(g).version <= Body(g)'.version
    <3>1. CASE disk[g].state = "linked"
      BY <2>2, <2>3, <3>1 DEF Body, Version, Versions
    <3>2. CASE disk[g].state # "linked"
      BY <2>2, <2>5, <3>2 DEF PackageInv, Grown, Body, Versions
    <3> QED BY <3>1, <3>2
  <2>6. Ordered'
    BY <1>1, <2>2, <2>4 DEF PackageInv, Ordered
  <2>7. Grown'
    <3>1. disk["manifest"].state = "written" \/ disk["package"].state = "written"
            => \A g \in Bundled : Stands(g)
      BY <1>1 DEF PackageInv, Ordered
    <3>2. disk["manifest"].state = "written" =>
            \A g \in Bundled : disk["manifest"].body[g].version <= Body(g)'.version
      BY <1>1, <2>5, <3>1 DEF PackageInv, Grown, Versions
    <3>3. disk["package"].state = "written" =>
            \A g \in Bundled : disk["package"].body[g].version <= Body(g)'.version
      BY <1>1, <2>5, <3>1 DEF PackageInv, Grown, Versions
    <3> QED BY <1>1, <2>2, <2>4, <2>5, <3>2, <3>3 DEF PackageInv, Grown
  <2> QED BY <2>2, <2>3, <2>6, <2>7 DEF PackageInv
<1>7. CASE UNCHANGED packageVars
  BY <1>2, <1>7 DEF packageVars
<1>8. CASE Supervisor \/ \E s \in Range(Services) : ServiceExits(s)
  BY <1>7, <1>8 DEF Supervisor, Verify, Start, Ready, Replay, Stop, Compare, WriteComparison,
                    ServiceExits, Goto, Raise
<1> QED BY <1>3, <1>4, <1>5, <1>6, <1>7, <1>8 DEF Next, Builder, vars

(* An empty directory keeps the order.                                     *)
LEMMA PackageInitially == Init => PackageInv
BY PlanNames DEF Init, PackageInit, PackageInv, Ordered, Grown, Stands, File

(* An attempt that reads a package finds it whole.                         *)
LEMMA WholeIsVerified ==
  ASSUME PackageInv, Whole
  PROVE  builder = "done" /\ \A f \in Range(Plan) : Stands(f)
BY PlanNames DEF PackageInv, Ordered, Whole, Stands

(* A package that verifies is finished and vouches for every file, however *)
(* many files it has and however its making went (make_bundle,             *)
(* verify_package).                                                        *)
THEOREM WholeComplete == Spec => []WholeIsComplete
<1>1. Init => PackageInv
  BY PackageInitially
<1>2. PackageInv /\ [Next]_vars => PackageInv'
  BY PackageKept
<1>3. PackageInv => WholeIsComplete
  BY WholeIsVerified DEF WholeIsComplete
<1> QED BY <1>1, <1>2, <1>3, PTL DEF Spec

-----------------------------------------------------------------------------
(* A finished package only changes by the run's files it is linked to.     *)
LEMMA BuilderLeavesAttempt ==
  ASSUME PackageInv, AttemptInv, Builder
  PROVE  AttemptInv'
<1>1. UNCHANGED replayVars
  BY DEF Builder
<1>2. CASE builder = "done"
  <2>1. UNCHANGED <<case, builder, disk>>
    BY <1>2 DEF Builder, Begin, Write, Die, Rewrite
  <2> QED BY <1>1, <2>1 DEF AttemptInv, Verified, Admitted, Comparable, Observations, replayVars
<1>3. CASE builder # "done"
  <2>1. /\ pc = "begin" \/ (pc = "over" /\ failed)
        /\ seen = <<>> /\ comparison = "absent"
    BY <1>3 DEF AttemptInv, Verified
  <2>2. seen' \in Seq(Observations')
    BY <1>1, <2>1 DEF replayVars
  <2> QED BY <1>1, <2>1, <2>2 DEF AttemptInv, replayVars
<1> QED BY <1>2, <1>3

(* A bundle the backend admits still says what its manifest says: then so  *)
(* did package.json, whose list was made in between.                       *)
LEMMA AdmissibleAdmitted ==
  ASSUME PackageInv, Verified, Admissible
  PROVE  Admitted
<1>1. ~case.missing /\ ~case.oversized
  BY DEF Admissible, Admission
<1>2. ASSUME NEW f \in Bundled PROVE disk["manifest"].body[f] = disk["package"].body[f]
  <2>1. disk["manifest"].state = "written" /\ disk["package"].state = "written"
    BY DEF Admissible, Verified
  <2>2. Body(f) = disk["manifest"].body[f]
    BY DEF Admissible, Bundled
  <2>3. /\ disk["manifest"].body[f] \in Versions /\ disk["package"].body[f] \in Versions
        /\ disk["manifest"].body[f].version <= disk["package"].body[f].version
        /\ disk["package"].body[f].version <= disk["manifest"].body[f].version
    BY <2>1, <2>2 DEF PackageInv, Grown
  <2> QED BY <2>3 DEF Versions
<1> QED BY <1>1, <1>2 DEF Admitted

(* Every step of an attempt keeps what it has found out.                   *)
LEMMA AttemptKept == PackageInv /\ AttemptInv /\ [Next]_vars => AttemptInv'
<1> SUFFICES ASSUME PackageInv, AttemptInv, [Next]_vars PROVE AttemptInv'
  OBVIOUS
<1>1. CASE Builder
  BY <1>1, BuilderLeavesAttempt
<1>2. ASSUME UNCHANGED packageVars
      PROVE  /\ UNCHANGED <<builder, Observations, Admitted>>
             /\ UNCHANGED expected => UNCHANGED Verified
             /\ UNCHANGED <<expected, seen>> => UNCHANGED Comparable
  BY <1>2 DEF packageVars, Observations, Admitted, Verified, Comparable
<1> USE DEF Goto, Raise, AttemptInv
<1>3. CASE Verify
  <2>1. UNCHANGED <<packageVars, seen, comparison>> /\ pc = "begin"
    BY <1>3 DEF Verify
  <2>2. pc' \in {"start", "over"} /\ (pc' = "start" => Verified' /\ ~failed') /\ (pc' = "over" => failed')
    BY <1>3, WholeIsVerified DEF Verify, Verified, Whole, packageVars
  <2>3. comparison = "absent" /\ seen = <<>> /\ failed' \in BOOLEAN
    BY <1>3, <2>1 DEF Verify
  <2> QED BY <1>2, <2>1, <2>2, <2>3
<1>4. CASE Start
  <2>1. pc = "start" /\ UNCHANGED <<packageVars, expected, seen, comparison>> /\ comparison = "absent"
    BY <1>4 DEF Start
  <2>2. (pc' = "ready" /\ UNCHANGED failed) \/ (pc' = "stop" /\ failed' /\ failed' \in BOOLEAN)
    BY <1>4 DEF Start
  <2> QED BY <1>2, <2>1, <2>2
<1>5. CASE Ready
  <2>1. pc = "ready" /\ UNCHANGED <<packageVars, expected, seen, comparison>> /\ comparison = "absent"
    BY <1>5 DEF Ready
  <2>2. \/ pc' = "start" /\ UNCHANGED failed
        \/ pc' = "replay" /\ at' = 1 /\ UNCHANGED failed
        \/ pc' = "stop" /\ failed' /\ failed' \in BOOLEAN
    BY <1>5 DEF Ready
  <2>3. seen = <<>> /\ Len(seen) = 0
    BY <2>1
  <2> QED BY <1>2, <2>1, <2>2, <2>3
<1>6. CASE Replay
  <2>1. pc = "replay" /\ UNCHANGED <<packageVars, comparison, expected>> /\ comparison = "absent"
    BY <1>6 DEF Replay
  <2>2. CASE UNCHANGED seen /\ pc' = "stop" /\ failed'
    BY <1>2, <2>1, <2>2
  <2>3. CASE /\ Admissible /\ UNCHANGED failed
             /\ IF at = 1 THEN pc' = "replay" /\ at' = 2 ELSE pc' = "stop"
             /\ \E o \in Observations : seen' = Append(seen, o)
    <3>1. Admitted
      BY <2>1, <2>3, AdmissibleAdmitted
    <3>2. builder = "done"
      BY <2>1 DEF Verified
    <3>3. PICK o \in Observations : seen' = Append(seen, o)
      BY <2>3
    <3>4. seen' \in Seq(Observations) /\ Len(seen') = Len(seen) + 1
      BY <3>3
    <3> QED BY <1>2, <2>1, <2>3, <3>1, <3>2, <3>4
  <2>4. ASSUME NEW base \in Databases, NEW complete \in BOOLEAN, NEW result \in 1 .. 2
        PROVE  [manifest |-> disk["manifest"].body, database |-> base,
                complete |-> complete, result |-> result] \in Observations
    BY DEF Observations
  <2> QED BY <1>6, <2>2, <2>3, <2>4 DEF Replay
<1>7. CASE Stop
  <2>1. /\ pc = "stop" /\ UNCHANGED <<packageVars, comparison, expected, seen, failed>>
        /\ pc' = "stop" \/ (pc' = IF failed THEN "over" ELSE "compare")
    BY <1>7 DEF Stop
  <2> QED BY <1>2, <2>1
<1>8. CASE Compare
  <2>1. UNCHANGED <<packageVars, comparison, expected, seen>>
    BY <1>8 DEF Compare
  <2> QED BY <1>2, <1>8, <2>1 DEF Compare
<1>9. CASE WriteComparison
  <2>1. UNCHANGED <<packageVars, expected, seen>>
    BY <1>9 DEF WriteComparison
  <2> QED BY <1>2, <1>9, <2>1 DEF WriteComparison
<1>10. CASE UNCHANGED vars \/ \E s \in Range(Services) : ServiceExits(s)
  <2>1. UNCHANGED <<packageVars, pc, at, failed, expected, seen, comparison>>
    BY <1>10 DEF vars, replayVars, ServiceExits
  <2> QED BY <1>2, <2>1
<1> QED BY <1>1, <1>3, <1>4, <1>5, <1>6, <1>7, <1>8, <1>9, <1>10 DEF Next, Supervisor

(* The invariant holds in every reachable state of the replays.            *)
LEMMA ReplayInvariant == Spec => []ReplayInv
<1>1. Init => ReplayInv
  <2>1. ASSUME Init PROVE AttemptInv
    <3>1. pc = "begin" /\ ~failed /\ failed \in BOOLEAN /\ seen = <<>> /\ comparison = "absent"
      BY <2>1 DEF Init
    <3>2. seen \in Seq(Observations)
      BY <3>1
    <3> QED BY <3>1, <3>2 DEF AttemptInv
  <2> QED BY <2>1, PackageInitially DEF ReplayInv
<1>2. ReplayInv /\ [Next]_vars => ReplayInv'
  BY PackageKept, AttemptKept DEF ReplayInv
<1> QED BY <1>1, <1>2, PTL DEF Spec

(* A comparison that passed has two complete and equal replays on two      *)
(* databases behind it, of a finished and admissible package whose list    *)
(* still held when they ran (fixed_replays, compare_replays).              *)
THEOREM PassIsEarned == Spec => []PassEarned
<1>1. ReplayInv => PassEarned
  <2> SUFFICES ASSUME ReplayInv, comparison = "PASS"
               PROVE  /\ ~case.missing /\ ~case.oversized /\ builder = "done"
                      /\ expected = [f \in Range(BundleFiles) |-> disk["package"].body[f]]
                      /\ \A i \in 1 .. 2 : seen[i].complete /\ seen[i].manifest = expected
                      /\ seen[1].database # seen[2].database /\ seen[1].result = seen[2].result
                      /\ ~failed
    BY DEF PassEarned
  <2>1. AttemptInv /\ PackageInv
    BY DEF ReplayInv
  <2>2. ~failed /\ Comparable /\ pc \in {"write", "over"} /\ Len(seen) = 2
    BY <2>1 DEF AttemptInv
  <2>3. Verified /\ Admitted
    <3>1. seen # <<>>
      BY <2>2
    <3> QED BY <2>1, <2>2, <3>1 DEF AttemptInv
  <2>4. expected = [f \in Bundled |-> disk["package"].body[f]]
    <3>1. expected = disk["manifest"].body /\ disk["manifest"].state = "written"
      BY <2>1, <2>3, PlanNames DEF PackageInv, Grown, Ordered, Verified, Stands
    <3>2. disk["manifest"].body \in [Bundled -> Versions]
      BY <2>1, <3>1 DEF PackageInv, Grown
    <3>3. \A f \in Bundled : disk["manifest"].body[f] = disk["package"].body[f]
      BY <2>3 DEF Admitted
    <3> QED BY <3>1, <3>2, <3>3
  <2> QED BY <2>2, <2>3, <2>4 DEF Comparable, Verified, Admitted, Bundled
<1> QED BY <1>1, ReplayInvariant, PTL

-----------------------------------------------------------------------------
(* The services that were started are the first ones, and the cleaning up  *)
(* has ended those it is past.                                             *)
IsStarted(i) == process[Services[i]] # "none"
IsExited(i)  == process[Services[i]] = "exited"
Indices      == 1 .. Len(Services)
ServicesInv ==
  /\ process \in [Range(Services) -> {"none", "running", "terminating", "exited"}]
  /\ at \in Nat \ {0}
  /\ \A i \in Indices, j \in Indices : IsStarted(i) /\ j < i => IsStarted(j)
  /\ pc \in {"begin", "start"} => \A i \in Indices : IsStarted(i) => i < at
  /\ pc = "start" => at \in Indices /\ \A i \in Indices : i < at => IsStarted(i)
  /\ pc = "ready" => at \in Indices /\ \A i \in Indices : IsStarted(i) <=> i <= at
  /\ pc = "begin" => at = 1
  /\ pc = "stop" => \A i \in Indices : IsStarted(i) /\ i < at => IsExited(i)
  /\ pc \in {"compare", "write", "over"} => \A i \in Indices : IsStarted(i) => IsExited(i)

NothingLeftRunning ==
  pc \in {"compare", "write", "over"} => \A s \in Range(Services) : ~Alive(s)

(* Every step keeps that, the exit of a service at any moment included.    *)
LEMMA ServicesKept == ServicesInv /\ [Next]_vars => ServicesInv'
<1> SUFFICES ASSUME ServicesInv, [Next]_vars PROVE ServicesInv'
  OBVIOUS
<1>1. /\ Len(Services) \in Nat /\ Indices \subseteq Nat /\ 1 \in Indices
      /\ \A i \in Indices : Services[i] \in Range(Services)
      /\ \A i, j \in Indices : Services[i] = Services[j] => i = j
      /\ \A s \in Range(Services) : \E i \in Indices : s = Services[i]
      /\ \A i \in Indices : i = Len(Services) \/ i + 1 \in Indices
  BY ReplayAssumption DEF IsInjective, Range, Indices
<1> USE DEF Goto, ServicesInv, IsStarted, IsExited
<1>2. \A i \in Indices : ~(i < 1)
  BY DEF Indices
<1>3. ASSUME pc' = "stop" \/ pc' = "replay", at' \in Nat \ {0}, pc' = "stop" => at' = 1, UNCHANGED process
       PROVE ServicesInv'
  BY <1>2, <1>3
<1>4. ASSUME Raise PROVE ServicesInv'
  BY <1>3, <1>4 DEF Raise
<1>5. CASE Verify
  <2>1. UNCHANGED process /\ pc = "begin" /\ ((pc' = "start" /\ at' = 1) \/ (pc' = "over" /\ at' = at))
    BY <1>5 DEF Verify
  <2>2. \A i \in Indices : ~IsStarted(i)
    BY <1>2, <2>1
  <2> QED BY <1>1, <1>2, <2>1, <2>2
<1>6. CASE Start
  <2>1. CASE Raise
    BY <1>4, <2>1
  <2>2. CASE process' = [process EXCEPT ![Services[at]] = "running"] /\ Goto("ready", at)
    <3>1. /\ IsStarted(at)'
          /\ \A i \in Indices : i # at => process'[Services[i]] = process[Services[i]]
      BY <1>1, <1>6, <2>2 DEF Start
    <3> QED BY <1>1, <1>6, <2>2, <3>1 DEF Start
  <2> QED BY <1>6, <2>1, <2>2 DEF Start
<1>7. CASE Ready
  BY <1>1, <1>7, <1>3, <1>4 DEF Ready, Indices
<1>8. CASE Replay
  BY <1>3, <1>4, <1>8 DEF Replay
<1>9. CASE Stop
  <2> SUFFICES ASSUME pc = "stop" PROVE ServicesInv'
    BY <1>9 DEF Stop
  <2>1. \A i \in Indices : i \in StopAll <=> IsStarted(i)
    BY DEF StopAll, Started, Indices
  <2>2. \A i \in StopAll : i \in Indices
    BY DEF StopAll, Started, Indices
  <2>3. ASSUME NEW state \in {"terminating", "exited"}, at \in StopAll,
               process' = [process EXCEPT ![Services[at]] = state], Goto("stop", at)
        PROVE  ServicesInv'
    <3>1. /\ process'[Services[at]] = state /\ IsStarted(at)
          /\ \A i \in Indices : i # at => process'[Services[i]] = process[Services[i]]
      BY <1>1, <2>1, <2>2, <2>3
    <3> QED BY <1>1, <2>2, <2>3, <3>1
  <2>4. CASE at \in StopAll /\ process[Services[at]] = "exited" /\ Goto("stop", at + 1) /\ UNCHANGED process
    BY <1>1, <2>2, <2>4
  <2>5. CASE at \notin StopAll /\ Goto(IF failed THEN "over" ELSE "compare", 1) /\ UNCHANGED process
    <3>1. \A i \in Indices : IsStarted(i) => i < at
      <4> SUFFICES ASSUME NEW i \in Indices, IsStarted(i), ~(i < at) PROVE FALSE
        OBVIOUS
      <4>1. at \in Indices
        BY <1>1 DEF Indices
      <4> QED BY <1>1, <2>1, <2>5, <4>1
    <3>2. pc' \in {"over", "compare"} /\ at' = 1
      BY <2>5
    <3> QED BY <1>1, <2>5, <3>1, <3>2
  <2> QED BY <1>9, <2>3, <2>4, <2>5 DEF Stop
<1>10. CASE Compare \/ WriteComparison
  BY <1>1, <1>10 DEF Compare, WriteComparison
<1>11. ASSUME NEW s \in Range(Services), ServiceExits(s) PROVE ServicesInv'
  <2>1. /\ UNCHANGED <<pc, at>> /\ process' = [process EXCEPT ![s] = "exited"]
        /\ process[s] # "none"
    BY <1>11 DEF ServiceExits, Alive
  <2>2. \A i \in Indices : (IsStarted(i)' <=> IsStarted(i)) /\ (IsExited(i) => IsExited(i)')
    BY <1>1, <2>1
  <2> HIDE DEF IsStarted, IsExited
  <2> QED BY <1>1, <2>1, <2>2
<1>12. CASE UNCHANGED vars \/ Builder
  BY <1>12 DEF vars, replayVars, Builder
<1> QED BY <1>5, <1>6, <1>7, <1>8, <1>9, <1>10, <1>11, <1>12 DEF Next, Supervisor

(* However an attempt ends, and however long before, no service that it    *)
(* started is running when its services() block is left: the half of       *)
(* Cleaned that says what, and not that, it comes to (services()' finally).*)
THEOREM StoppedInTheEnd == Spec => []NothingLeftRunning
<1>1. Init => ServicesInv
  BY DEF Init, ServicesInv, IsStarted, IsExited, Indices, Range
<1>2. ServicesInv /\ [Next]_vars => ServicesInv'
  BY ServicesKept
<1>3. ServicesInv => NothingLeftRunning
  BY ReplayAssumption
     DEF ServicesInv, NothingLeftRunning, IsStarted, IsExited, Indices, Range, Alive
<1> QED BY <1>1, <1>2, <1>3, PTL DEF Spec

-----------------------------------------------------------------------------
(* The trial application of a package.                                     *)

Early   == {"start", "ready", "inspect before", "prepare", "inspect rejected",
            "inspect dry run", "apply"}
Leaving == {"stop", "terminate", "report", "end", "abandoned"}
Places  == Early \cup Leaving \cup
  {"inspect applied", "backup", "restore prepare", "restore", "inspect restored"}

(* How many APPLYs were started follows from the place, but for a command  *)
(* that leaves; a started restore was seen applied before.                 *)
NoApply   == [apply |-> 0, restore |-> 0]
OneApply  == [apply |-> 1, restore |-> 0]
TwoApplys == [apply |-> 1, restore |-> 1]
Counted ==
  /\ step \in Places
  /\ tries \in {NoApply, OneApply, TwoApplys}
  /\ step \in Early => tries = NoApply
  /\ step \in {"inspect applied", "backup", "restore prepare", "restore"} => tries = OneApply
  /\ step = "inspect restored" => tries = TwoApplys
  /\ tries = TwoApplys \/ step \in {"backup", "restore prepare", "restore"} =>
       "application" \in written

(* A command that leaves without an exception was through with the cycle.  *)
Verdicts ==
  /\ "BLOCKED_BEFORE_APPLY" \in written =>
       Blocked /\ tries = NoApply /\ step \in Leaving /\ raised = TRUE
  /\ "PASS" \in written => step = "end" /\ raised = FALSE
  /\ step \notin Leaving => raised = FALSE /\ "PASS" \notin written
  /\ raised \in BOOLEAN
  /\ step \in Leaving /\ raised = FALSE =>
       /\ Restored /\ tries = TwoApplys
       /\ {"application", "restoration"} \subseteq written

(* No step of the command comes after the database stopped but the report; *)
(* a command that leaves it behind has failed.                             *)
TargetGone ==
  /\ step \in {"report", "end"} => target = "down"
  /\ step = "abandoned" => raised = TRUE

TrialInv == Counted /\ Verdicts /\ TargetGone

(* The three counts are different.                                         *)
LEMMA CountsDiffer ==
  /\ NoApply # OneApply /\ NoApply # TwoApplys /\ OneApply # TwoApplys
  /\ [NoApply EXCEPT !.apply = @ + 1] = OneApply
  /\ [OneApply EXCEPT !.restore = @ + 1] = TwoApplys
<1>1. /\ NoApply.apply = 0 /\ OneApply.apply = 1 /\ TwoApplys.apply = 1
      /\ OneApply.restore = 0 /\ TwoApplys.restore = 1
  BY DEF NoApply, OneApply, TwoApplys
<1>2. /\ [NoApply EXCEPT !.apply = @ + 1] = OneApply
      /\ [OneApply EXCEPT !.restore = @ + 1] = TwoApplys
  BY DEF NoApply, OneApply, TwoApplys
<1> QED
  BY <1>1, <1>2

(* The verdicts are on the database, and last as long as it does.          *)
LEMMA VerdictLasts ==
  ASSUME UNCHANGED database
  PROVE  Blocked' = Blocked /\ Restored' = Restored
BY Zenon DEF Blocked, Restored, Before

(* Nothing is started, written or known before the first step.             *)
LEMMA TrialInitially == TrialInit => TrialInv
<1> SUFFICES ASSUME TrialInit PROVE TrialInv
  OBVIOUS
<1>1. step = "start" /\ tries = NoApply /\ written = {} /\ raised = FALSE
  BY DEF TrialInit, NoApply
<1> QED
  BY <1>1, CountsDiffer DEF TrialInv, Counted, Verdicts, TargetGone, Places, Early, Leaving

(* An exception leaves the cycle with what it has counted and written.     *)
LEMMA RaiseKeeps ==
  ASSUME TrialInv, GiveUp, step \notin Leaving, UNCHANGED written,
         tries' \in {NoApply, OneApply, TwoApplys},
         tries' = TwoApplys => "application" \in written
  PROVE  TrialInv'
<1>1. /\ step' = "stop" /\ raised' = TRUE
      /\ "PASS" \notin written /\ "BLOCKED_BEFORE_APPLY" \notin written
  BY DEF GiveUp, TrialInv, Verdicts
<1>2. Counted'
  BY <1>1 DEF Counted, Places, Early, Leaving
<1>3. Verdicts' /\ TargetGone'
  BY <1>1 DEF Verdicts, TargetGone, Leaving
<1> QED
  BY <1>2, <1>3 DEF TrialInv

(* A step within the cycle says nothing of the way out.                    *)
LEMMA GoOnKeeps ==
  ASSUME TrialInv, step \notin Leaving, step' \notin Leaving, UNCHANGED raised,
         written' \in {written, written \union {"application"}}, Counted'
  PROVE  TrialInv'
<1>1. /\ raised = FALSE
      /\ "PASS" \notin written' /\ "BLOCKED_BEFORE_APPLY" \notin written'
  BY DEF TrialInv, Verdicts
<1>2. Verdicts' /\ TargetGone'
  BY <1>1 DEF Verdicts, TargetGone, Leaving
<1> QED
  BY <1>2 DEF TrialInv

(* Before the first APPLY every step goes on without one, or gives up.     *)
LEMMA EarlyKeeps ==
  ASSUME TrialInv, UNCHANGED <<tries, written>>, step \in Early,
         \/ GiveUp
         \/ step' \in Early /\ UNCHANGED raised
  PROVE  TrialInv'
<1>1. tries = NoApply /\ step \notin Leaving
  BY DEF TrialInv, Counted, Early, Leaving
<1>2. CASE GiveUp
  BY <1>1, <1>2, CountsDiffer, RaiseKeeps
<1>3. CASE step' \in Early /\ UNCHANGED raised
  <2>1. Counted' /\ step' \notin Leaving
    BY <1>1, <1>3, CountsDiffer DEF Counted, Places, Early, Leaving
  <2> QED
    BY <1>1, <1>3, <2>1, GoOnKeeps
<1> QED
  BY <1>2, <1>3

(* Between the two APPLYs nothing is started.                              *)
LEMMA RestoreKeeps == TrialInv /\ (CheckBackup \/ RestorePrepare) => TrialInv'
<1> SUFFICES ASSUME TrialInv, CheckBackup \/ RestorePrepare PROVE TrialInv'
  OBVIOUS
<1>1. UNCHANGED <<tries, written>> /\ step \in {"backup", "restore prepare"}
  BY DEF CheckBackup, RestorePrepare
<1>2. tries = OneApply /\ "application" \in written /\ step \notin Leaving
  BY <1>1 DEF TrialInv, Counted, Leaving
<1>3. CASE GiveUp
  BY <1>1, <1>2, <1>3, CountsDiffer, RaiseKeeps
<1>4. CASE ~GiveUp
  <2>1. /\ UNCHANGED raised
        /\ \/ step' = "restore prepare"
           \/ step = "restore prepare" /\ step' = "restore"
    BY <1>4 DEF CheckBackup, RestorePrepare, GoOn
  <2>2. Counted' /\ step' \notin Leaving
    BY <1>1, <1>2, <2>1, CountsDiffer
       DEF TrialInv, Counted, Places, Early, Leaving
  <2> QED
    BY <1>1, <1>2, <2>1, <2>2, GoOnKeeps
<1> QED
  BY <1>3, <1>4

(* PREPARE comes before anything is known.                                 *)
LEMMA PrepareKeeps == TrialInv /\ Prepare => TrialInv'
<1> SUFFICES ASSUME TrialInv, Prepare PROVE TrialInv'
  OBVIOUS
<1>1. /\ step \in Early /\ step' \in Early /\ UNCHANGED <<tries, written, raised>>
  BY DEF Prepare, GoOn, Early
<1> QED
  BY <1>1, EarlyKeeps

(* An APPLY that is not seen to end well is the last.                      *)
LEMMA ApplyKeeps == TrialInv /\ (ApplyPlan \/ ApplyRestore) => TrialInv'
<1> SUFFICES ASSUME TrialInv, ApplyPlan \/ ApplyRestore PROVE TrialInv'
  OBVIOUS
<1>1. /\ UNCHANGED written
      /\ \/ /\ step = "apply" /\ tries' = [tries EXCEPT !.apply = @ + 1]
            /\ GiveUp \/ (step' = "inspect applied" /\ UNCHANGED raised)
         \/ /\ step = "restore" /\ tries' = [tries EXCEPT !.restore = @ + 1]
            /\ GiveUp \/ (step' = "inspect restored" /\ UNCHANGED raised)
  BY Zenon DEF ApplyPlan, ApplyRestore, Apply, GoOn
<1>2. /\ step \notin Leaving
      /\ step = "apply" => tries' = OneApply
      /\ step = "restore" =>
           tries' = TwoApplys /\ "application" \in written
  BY <1>1, CountsDiffer DEF TrialInv, Counted, Early, Leaving
<1>3. CASE GiveUp
  BY <1>1, <1>2, <1>3, CountsDiffer, RaiseKeeps
<1>4. CASE ~GiveUp
  <2>1. Counted' /\ step' \notin Leaving
    BY <1>1, <1>2, <1>4, CountsDiffer DEF Counted, Places, Early, Leaving
  <2> QED
    BY <1>1, <1>2, <1>4, <2>1, GoOnKeeps
<1> QED
  BY <1>3, <1>4

(* What a look at the database finds is reported where it is found.        *)
LEMMA RejectedKeeps == TrialInv /\ InspectRejected => TrialInv'
<1> SUFFICES ASSUME TrialInv, InspectRejected PROVE TrialInv'
  OBVIOUS
<1>1. /\ step = "inspect rejected" /\ GiveUp
      /\ UNCHANGED database /\ UNCHANGED tries
      /\ \/ Blocked /\ written' = written \union {"BLOCKED_BEFORE_APPLY"}
         \/ UNCHANGED written
  BY DEF InspectRejected
<1>2. step \in Early /\ step \notin Leaving /\ tries = NoApply
  BY <1>1 DEF TrialInv, Counted, Early, Leaving
<1>3. CASE UNCHANGED written
  BY <1>1, <1>2, <1>3, EarlyKeeps
<1>4. CASE Blocked /\ written' = written \union {"BLOCKED_BEFORE_APPLY"}
  <2>1. step' = "stop" /\ raised' = TRUE /\ "PASS" \notin written'
    BY <1>1, <1>2, <1>4 DEF GiveUp, TrialInv, Verdicts
  <2>2. Counted'
    BY <1>1, <1>2, <2>1, CountsDiffer DEF Counted, Places, Early, Leaving
  <2>3. Blocked'
    BY <1>1, <1>4, VerdictLasts
  <2>4. Verdicts' /\ TargetGone'
    BY <1>1, <1>2, <2>1, <2>3 DEF Verdicts, TargetGone, Leaving
  <2> QED
    BY <2>2, <2>4 DEF TrialInv
<1> QED
  BY <1>1, <1>3, <1>4

(* The second stage is verified of a database that was applied and taken   *)
(* back.                                                                   *)
LEMMA LookKeeps == TrialInv /\ (InspectApplied \/ InspectRestored) => TrialInv'
<1> SUFFICES ASSUME TrialInv, InspectApplied \/ InspectRestored PROVE TrialInv'
  OBVIOUS
<1>1. /\ UNCHANGED database /\ UNCHANGED tries
      /\ \/ GiveUp /\ UNCHANGED written
         \/ /\ step = "inspect applied" /\ step' = "backup" /\ UNCHANGED raised
            /\ written' = written \union {"application"}
         \/ /\ step = "inspect restored" /\ step' = "stop" /\ UNCHANGED raised
            /\ written' = written \union {"restoration"} /\ Restored
      /\ step \in {"inspect applied", "inspect restored"}
  BY Zenon DEF InspectApplied, InspectRestored, GoOn
<1>2. /\ step \notin Leaving
      /\ step = "inspect applied" => tries = OneApply
      /\ step = "inspect restored" =>
           tries = TwoApplys /\ "application" \in written
  BY <1>1 DEF TrialInv, Counted, Leaving
<1>3. CASE GiveUp /\ UNCHANGED written
  BY <1>1, <1>2, <1>3, CountsDiffer, RaiseKeeps
<1>4. CASE step = "inspect applied" /\ step' = "backup"
  <2>1. written' = written \union {"application"} /\ UNCHANGED raised
    BY <1>1, <1>4 DEF GiveUp
  <2>2. Counted' /\ step' \notin Leaving
    BY <1>1, <1>2, <1>4, <2>1, CountsDiffer DEF Counted, Places, Early, Leaving
  <2> QED
    BY <1>2, <2>1, <2>2, GoOnKeeps
<1>5. CASE /\ step = "inspect restored" /\ step' = "stop" /\ UNCHANGED raised
           /\ written' = written \union {"restoration"} /\ Restored
  <2>1. /\ raised = FALSE /\ Restored'
        /\ "PASS" \notin written' /\ "BLOCKED_BEFORE_APPLY" \notin written'
    BY <1>1, <1>2, <1>5, VerdictLasts DEF TrialInv, Verdicts
  <2>2. Counted'
    BY <1>1, <1>2, <1>5, CountsDiffer DEF Counted, Places, Early, Leaving
  <2>3. Verdicts' /\ TargetGone'
    BY <1>1, <1>2, <1>5, <2>1 DEF Verdicts, TargetGone, Leaving
  <2> QED
    BY <2>2, <2>3 DEF TrialInv
<1> QED
  BY <1>1, <1>3, <1>4, <1>5

(* The way out, from the stop of the database to the report.               *)
LEMMA LeavingKeeps ==
  TrialInv /\ (StopTarget \/ Terminate \/ Report) => TrialInv'
<1> SUFFICES ASSUME TrialInv, StopTarget \/ Terminate \/ Report PROVE TrialInv'
  OBVIOUS
<1>1. /\ UNCHANGED database /\ UNCHANGED tries
      /\ step \in {"stop", "terminate", "report"}
      /\ step' \in {"report", "terminate", "abandoned", "end"}
      /\ \/ UNCHANGED raised
         \/ raised' = TRUE /\ step' = "abandoned"
      /\ \/ UNCHANGED written
         \/ /\ step' = "end" /\ raised # TRUE
            /\ written' = written \union {"PASS"} /\ UNCHANGED raised
      /\ step' \in {"report", "end"} => target' = "down" \/ (step = "report" /\ UNCHANGED target)
  BY DEF StopTarget, Terminate, Report
<1>2. Counted'
  BY <1>1 DEF TrialInv, Counted, Places, Early, Leaving
<1>3. TargetGone'
  <2>1. step' = "abandoned" => raised' = TRUE
    BY DEF StopTarget, Terminate, Report
  <2> QED
    BY <1>1, <2>1 DEF TrialInv, TargetGone
<1>4. /\ step \in Leaving /\ step' \in Leaving /\ "PASS" \notin written
      /\ Blocked' = Blocked /\ Restored' = Restored
  BY <1>1, VerdictLasts DEF TrialInv, Verdicts, Leaving
<1>5. raised \in BOOLEAN
  BY DEF TrialInv, Verdicts
<1>6. Verdicts'
  BY <1>1, <1>4, <1>5 DEF TrialInv, Verdicts
<1> QED
  BY <1>2, <1>3, <1>6 DEF TrialInv

(* Every step of the command, and of what may go wrong meanwhile, keeps    *)
(* the invariant.                                                          *)
LEMMA TrialKept == TrialInv /\ [TrialNext]_trialVars => TrialInv'
<1> SUFFICES ASSUME TrialInv, [TrialNext]_trialVars PROVE TrialInv'
  OBVIOUS
<1>1. CASE StartTarget \/ TargetReady \/ InspectBefore \/ InspectDryRun
  <2>1. /\ UNCHANGED <<tries, written>> /\ step \in Early
        /\ GiveUp \/ (step' \in Early /\ UNCHANGED raised)
    BY <1>1 DEF StartTarget, TargetReady, InspectBefore, InspectDryRun,
                Inspect, GoOn, Early
  <2> QED
    BY <2>1, EarlyKeeps
<1>2. CASE BackupChanges
  BY <1>2, VerdictLasts DEF BackupChanges, TrialInv, Counted, Verdicts, TargetGone
<1>3. CASE TargetDies
  BY <1>3, VerdictLasts DEF TargetDies, TrialInv, Counted, Verdicts, TargetGone
<1>4. CASE UNCHANGED trialVars
  BY <1>4, VerdictLasts DEF trialVars, TrialInv, Counted, Verdicts, TargetGone
<1>5. Finished => UNCHANGED trialVars
  BY DEF Finished
<1> QED
  BY <1>1, <1>2, <1>3, <1>4, <1>5, RestoreKeeps, PrepareKeeps,
     ApplyKeeps, RejectedKeeps, LookKeeps, LeavingKeeps
     DEF TrialNext, Cycle

(* The invariant of the cycle holds whatever fails when.                   *)
LEMMA TrialInvariant == TrialSpec => []TrialInv
<1>1. TrialInit => TrialInv
  BY TrialInitially
<1>2. TrialInv /\ [TrialNext]_trialVars => TrialInv'
  BY TrialKept
<1> QED
  BY <1>1, <1>2, PTL DEF TrialSpec

(* No APPLY is started twice, and the restore only after the first one was *)
(* seen in the database (application_cycle()).                             *)
THEOREM NoSecondApply == TrialSpec => []AppliedOnce
<1>1. TrialInv => AppliedOnce
  <2> SUFFICES ASSUME TrialInv PROVE AppliedOnce
    OBVIOUS
  <2>1. /\ tries = NoApply \/ tries = OneApply \/ tries = TwoApplys
        /\ tries = TwoApplys => "application" \in written
    BY DEF TrialInv, Counted
  <2> QED
    BY <2>1 DEF NoApply, OneApply, TwoApplys, AppliedOnce
<1> QED
  BY <1>1, TrialInvariant, PTL

(* The reports on disk are true of the database as it then stands, also    *)
(* when the backup changes at any moment (application_cycle(), its two     *)
(* ways to a verdict).                                                     *)
THEOREM VerdictsTrue == TrialSpec => []ReportTrue
<1>1. TrialInv => ReportTrue
  BY DEF TrialInv, Verdicts, Leaving, NoApply, TwoApplys, ReportTrue, Blocked,
         Restored
<1> QED
  BY <1>1, TrialInvariant, PTL

(* The disposable database is gone when the command is over; where even    *)
(* terminate() did not end it, the command fails and nothing says PASS     *)
(* (local_target()).                                                       *)
THEOREM DatabaseGone == TrialSpec => []TargetStopped
<1>1. TrialInv => TargetStopped
  BY DEF TrialInv, TargetGone, Verdicts, TargetStopped, Over
<1> QED
  BY <1>1, TrialInvariant, PTL
=============================================================================
