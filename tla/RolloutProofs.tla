---------------------------- MODULE RolloutProofs ----------------------------
(***************************************************************************)
(* Proofs about Rollout, for any number of instances, failures and         *)
(* interrupted rollouts.                                                   *)
(***************************************************************************)
EXTENDS Rollout, TLAPS

\* The script has an instance while it works on one.
AtInstance == pc \notin {"idle", "instance"} => inst \in Instances

\* A container takes columns for granted that are there, and when it is at
\* the second one, the first is there: it was found, or added.
Migrations ==
  \A i \in Instances :
    /\ found[i] \subseteq columns[i]
    /\ container[i] = "last_updated_at" => "created_at" \in columns[i]

RolloutInv == TypeOK /\ AtInstance /\ Migrations /\ UpgradedBeforeRestart

LEMMA RolloutInit == Init => RolloutInv
  BY RolloutAssumption
  DEF Init, RolloutInv, TypeOK, AtInstance, Migrations, UpgradedBeforeRestart,
      Images, Refs, Columns, AllModes

PCs == {"idle", "instance", "pull", "compare", "write", "upgrade", "migrating",
        "reload", "restart", "verify"}

\* A step of the script that leaves the databases alone, except to reload and
\* to restart.
LEMMA ScriptStep ==
  ASSUME RolloutInv, NEW label \in PCs, Goto(label), UNCHANGED columns,
         label \in {"reload", "restart", "verify"} =>
           mode # "upgrade" \/ columns[inst] = Columns,
         label \notin {"idle", "instance"} => pc \notin {"idle", "instance"}
  PROVE  /\ pc' \in PCs /\ mode' \in AllModes /\ ref' \in {"latest", "new"}
         /\ todo' \in SUBSET Instances /\ inst' \in Instances \cup {"none"}
         /\ before' \in Images \cup {"down"}
         /\ AtInstance' /\ UpgradedBeforeRestart'
  BY DEF Goto, script, RolloutInv, TypeOK, AtInstance, UpgradedBeforeRestart, PCs,
         AllModes, Images

\* A container that ends, having added what was missing if the script goes on.
LEMMA ContainerStep ==
  ASSUME RolloutInv, NEW i \in Instances, NEW next \in {"reload", "idle"},
         ContainerEnds(i, next), columns' \in [Instances -> SUBSET Columns],
         \A j \in Instances : columns[j] \subseteq columns'[j],
         next = "reload" => columns'[i] = Columns,
         failures' \in 0..MaxFailures
  PROVE  RolloutInv'
  <1> USE DEF RolloutInv
  <1>1. /\ container' \in [Instances -> Columns \cup {"none"}]
        /\ found' \in [Instances -> SUBSET Columns]
        /\ \A j \in Instances :
             \/ container'[j] = "none" /\ found'[j] = {}
             \/ container'[j] = container[j] /\ found'[j] = found[j]
    BY DEF ContainerEnds, TypeOK
  <1>2. Migrations'
    BY <1>1, RolloutAssumption DEF Migrations
  <1> DEFINE label == IF pc = "migrating" /\ inst = i THEN next ELSE pc
  <1>3. /\ pc' = label /\ label \in PCs
        /\ \/ UNCHANGED script
           \/ /\ label = "idle" /\ mode' = "dry_run" /\ ref' = "latest"
              /\ todo' = {} /\ inst' = "none" /\ before' = "down"
    BY DEF ContainerEnds, Goto, TypeOK, PCs
  <1>4. AtInstance'
    BY <1>3 DEF AtInstance, script
  <1>5. UpgradedBeforeRestart'
    <2>1. SUFFICES ASSUME mode' = "upgrade", pc' \in {"reload", "restart", "verify"}
                   PROVE  columns'[inst'] = Columns
      BY DEF UpgradedBeforeRestart
    <2>2. mode = "upgrade" /\ inst' = inst
      BY <1>3, <2>1 DEF script
    <2>3. CASE pc = "migrating" /\ inst = i
      BY <1>3, <2>1, <2>2, <2>3
    <2>4. CASE ~(pc = "migrating" /\ inst = i)
      <3>1. columns[inst] = Columns /\ inst \in Instances
        BY <1>3, <2>1, <2>2, <2>4 DEF UpgradedBeforeRestart, AtInstance
      <3> QED
        BY <2>2, <3>1
    <2> QED
      BY <2>3, <2>4
  <1>6. TypeOK'
    BY <1>1, <1>3 DEF TypeOK, ContainerEnds, host, script, PCs, AllModes, Images
  <1> QED
    BY <1>2, <1>4, <1>5, <1>6

LEMMA AlterStep ==
  ASSUME RolloutInv, NEW i \in Instances, Alter(i)
  PROVE  RolloutInv'
  <1> USE DEF RolloutInv
  <1> DEFINE column == container[i]
  <1>1. column \in Columns /\ failures' = failures /\ failures \in 0..MaxFailures
    BY DEF Alter, TypeOK
  <1>2. /\ columns' \in [Instances -> SUBSET Columns]
        /\ \A j \in Instances : columns[j] \subseteq columns'[j]
    BY <1>1 DEF Alter, TypeOK
  <1>3. CASE column \in missing(found[i]) \cap columns[i]
    <2>1. ContainerEnds(i, "idle")
      BY <1>3 DEF Alter
    <2> QED
      BY <1>1, <1>2, <2>1, ContainerStep
  <1>4. CASE column \notin missing(found[i]) \cap columns[i]
    <2>1. Proceed(i) /\ column \in columns'[i]
      BY <1>1, <1>4 DEF Alter, missing, Migrations, TypeOK
    <2>2. CASE column = "created_at"
      <3>1. /\ container' = [container EXCEPT ![i] = "last_updated_at"]
            /\ UNCHANGED <<found, host, pc, script>>
        BY <2>1, <2>2 DEF Proceed
      <3>2. TypeOK'
        BY <1>1, <1>2, <3>1 DEF TypeOK, host, script, Columns
      <3>3. AtInstance'
        BY <3>1 DEF AtInstance, script
      <3>4. Migrations'
        BY <1>2, <2>1, <2>2, <3>1 DEF Migrations, TypeOK
      <3>5. UpgradedBeforeRestart'
        <4>1. SUFFICES ASSUME mode = "upgrade", pc \in {"reload", "restart", "verify"}
                       PROVE  columns'[inst] = Columns
          BY <3>1 DEF UpgradedBeforeRestart, script
        <4>2. inst \in Instances /\ columns[inst] = Columns
          BY <4>1 DEF AtInstance, UpgradedBeforeRestart
        <4> QED
          BY <1>2, <4>2
      <3> QED
        BY <3>2, <3>3, <3>4, <3>5
    <2>3. CASE column = "last_updated_at"
      <3>1. ContainerEnds(i, "reload")
        BY <2>1, <2>3 DEF Proceed
      <3>2. columns'[i] = Columns
        BY <1>2, <2>1, <2>3 DEF Migrations, Columns
      <3> QED
        BY <1>1, <1>2, <3>1, <3>2, ContainerStep
    <2> QED
      BY <1>1, <2>2, <2>3 DEF Columns
  <1> QED
    BY <1>3, <1>4

LEMMA Named ==
  ASSUME TypeOK
  PROVE  /\ Generated \in [Instances -> Refs]
         /\ \A name \in Refs : Resolve(name) \in Images
  BY DEF TypeOK, Generated, Resolve, Refs, Images

\* A failure is counted up to the bound.
LEMMA Counted ==
  ASSUME TypeOK, Failure
  PROVE  failures' \in 0..MaxFailures
  BY RolloutAssumption DEF TypeOK, Failure

LEMMA RolloutStep ==
  ASSUME RolloutInv, [Next]_vars
  PROVE  RolloutInv'
  <1> USE DEF RolloutInv
  \* Databases and their containers are left alone.
  <1>1. ASSUME UNCHANGED database
        PROVE  Migrations'
    BY <1>1 DEF Migrations, database
  <1>2. ASSUME NEW m \in Modes, NEW r \in {"latest", "new"}, Begin(m, r)
        PROVE  RolloutInv'
    <2>1. TypeOK'
      BY <1>2, RolloutAssumption DEF Begin, TypeOK, host, database
    <2>2. AtInstance' /\ UpgradedBeforeRestart'
      BY <1>2 DEF Begin, AtInstance, UpgradedBeforeRestart
    <2> QED
      BY <1>1, <1>2, <2>1, <2>2 DEF Begin
  <1>3. CASE NextInstance
    <2>1. UNCHANGED <<host, database, failures>>
      BY <1>3 DEF NextInstance
    <2>2. CASE Goto("idle")
      <3>1. TypeOK'
        BY <2>1, <2>2, ScriptStep DEF TypeOK, host, database, PCs
      <3> QED
        BY <1>1, <2>1, <2>2, <3>1, ScriptStep DEF database, PCs
    <2>3. CASE ~Goto("idle")
      <3>1. PICK i \in todo :
              /\ inst' = i /\ todo' = todo \ {i}
              /\ before' = IF mode = "check" THEN running[i] ELSE before
        BY <1>3, <2>3 DEF NextInstance
      <3>2. pc' = "pull" /\ UNCHANGED <<mode, ref>> /\ i \in Instances
        BY <1>3, <2>3 DEF NextInstance, TypeOK
      <3>3. TypeOK'
        BY <2>1, <3>1, <3>2 DEF TypeOK, host, database
      <3>4. AtInstance' /\ UpgradedBeforeRestart'
        BY <3>1, <3>2 DEF AtInstance, UpgradedBeforeRestart
      <3> QED
        BY <1>1, <2>1, <3>3, <3>4
    <2> QED
      BY <2>2, <2>3
  <1>4. ASSUME NEW label \in PCs, Goto(label), UNCHANGED database,
               label \in {"reload", "restart", "verify"} =>
                 mode # "upgrade" \/ columns[inst] = Columns,
               label \notin {"idle", "instance"} => pc \notin {"idle", "instance"},
               latest' \in Images, override' \in [Instances -> Refs \cup {"none"}],
               unit' \in [Instances -> Refs],
               running' \in [Instances -> Images \cup {"down"}],
               failures' \in 0..MaxFailures
        PROVE  RolloutInv'
    <2>1. TypeOK'
      BY <1>4, ScriptStep DEF TypeOK, database, PCs
    <2> QED
      BY <1>1, <1>4, <2>1, ScriptStep DEF database
  <1>5. CASE Pull
    BY <1>4, <1>5 DEF Pull, TypeOK, PCs, Images
  <1>6. CASE Compare \/ Verify
    BY <1>4, <1>6 DEF Compare, Verify, TypeOK, PCs, host
  <1>7. CASE WriteOverride
    <2>1. override' \in [Instances -> Refs \cup {"none"}]
      BY <1>7 DEF WriteOverride, TypeOK, Refs, Images
    <2> QED
      BY <1>4, <1>7, <2>1 DEF WriteOverride, TypeOK, PCs
  <1>8. CASE StartUpgrade
    <2>1. CASE container[inst] # "none" /\ Goto("idle") /\ UNCHANGED <<container, found>>
      BY <1>4, <1>8, <2>1 DEF StartUpgrade, TypeOK, PCs, host, database
    <2>2. CASE ~(container[inst] # "none" /\ Goto("idle") /\ UNCHANGED <<container, found>>)
      <3>1. /\ container' = [container EXCEPT ![inst] = "created_at"]
            /\ found' = [found EXCEPT ![inst] = columns[inst]]
            /\ Goto("migrating") /\ UNCHANGED <<host, columns, failures>>
            /\ inst \in Instances
        BY <1>8, <2>2 DEF StartUpgrade, AtInstance
      <3>2. pc' = "migrating" /\ UNCHANGED script
        BY <3>1 DEF Goto
      <3>3. TypeOK'
        BY <3>1, <3>2 DEF TypeOK, host, script, Columns
      <3>4. AtInstance' /\ UpgradedBeforeRestart'
        BY <3>1, <3>2 DEF AtInstance, UpgradedBeforeRestart, script
      <3>5. Migrations'
        BY <3>1 DEF Migrations, TypeOK
      <3> QED
        BY <3>3, <3>4, <3>5
    <2> QED
      BY <2>1, <2>2
  <1>9. CASE Reload
    BY <1>4, <1>9, Named DEF Reload, TypeOK, UpgradedBeforeRestart, PCs
  <1>10. CASE Restart
    BY <1>4, <1>10, Named DEF Restart, TypeOK, UpgradedBeforeRestart, AtInstance, PCs
  <1>11. CASE Abort
    BY <1>4, <1>11, Counted DEF Abort, TypeOK, PCs
  <1>12. CASE Reboot
    <2>1. /\ pc' = "idle" /\ mode' = "dry_run" /\ ref' = "latest"
          /\ todo' = {} /\ inst' = "none" /\ before' = "down"
      BY <1>12 DEF Reboot, Goto
    <2>2. TypeOK'
      BY <1>12, <2>1, Named, Counted DEF Reboot, TypeOK, AllModes
    <2>3. Migrations'
      BY <1>12 DEF Reboot, Migrations
    <2> QED
      BY <2>1, <2>2, <2>3 DEF AtInstance, UpgradedBeforeRestart
  <1>13. ASSUME NEW i \in Instances, UpgradeFails(i)
        PROVE  RolloutInv'
    BY <1>13, ContainerStep, Counted DEF UpgradeFails, TypeOK
  <1>14. ASSUME NEW i \in Instances, ServiceCrashes(i) \/ ServiceStarts(i)
        PROVE  RolloutInv'
    <2>1. UNCHANGED <<latest, override, unit, database, pc, script>>
      BY <1>14 DEF ServiceCrashes, ServiceStarts
    <2>2. running' \in [Instances -> Images \cup {"down"}] /\ failures' \in 0..MaxFailures
      BY <1>14, Named, Counted DEF ServiceCrashes, ServiceStarts, TypeOK
    <2>3. TypeOK'
      BY <2>1, <2>2 DEF TypeOK, database, script
    <2> QED
      BY <1>1, <2>1, <2>3 DEF AtInstance, UpgradedBeforeRestart, database, script
  <1>15. ASSUME NEW i \in Instances, UpgradeByHand(i)
         PROVE  RolloutInv'
    <2>1. /\ columns' \in [Instances -> SUBSET Columns]
          /\ \A j \in Instances : columns[j] \subseteq columns'[j]
      BY <1>15 DEF UpgradeByHand, missing, TypeOK
    <2>2. UNCHANGED <<host, container, found, pc, script>> /\ failures' \in 0..MaxFailures
      BY <1>15, Counted DEF UpgradeByHand
    <2>3. TypeOK'
      BY <2>1, <2>2 DEF TypeOK, host, script
    <2>4. Migrations'
      BY <2>1, <2>2 DEF Migrations
    <2>5. AtInstance'
      BY <2>2 DEF AtInstance, script
    <2>6. UpgradedBeforeRestart'
      <3>1. SUFFICES ASSUME mode = "upgrade", pc \in {"reload", "restart", "verify"}
                     PROVE  columns'[inst] = Columns
        BY <2>2 DEF UpgradedBeforeRestart, script
      <3>2. inst \in Instances /\ columns[inst] = Columns
        BY <3>1 DEF AtInstance, UpgradedBeforeRestart
      <3> QED
        BY <2>1, <3>2
    <2> QED
      BY <2>3, <2>4, <2>5, <2>6
  <1>16. CASE UNCHANGED vars
    BY <1>16
    DEF vars, host, database, script, TypeOK, AtInstance, Migrations, UpgradedBeforeRestart
  <1> QED
    BY <1>2, <1>3, <1>5, <1>6, <1>7, <1>8, <1>9, <1>10, <1>11, <1>12, <1>13, <1>14, <1>15,
       <1>16, AlterStep
    DEF Next, Script

LEMMA RolloutInvHolds == Spec => []RolloutInv
  <1>1. RolloutInv /\ [Next]_vars => RolloutInv'
    BY RolloutStep
  <1> QED
    BY <1>1, RolloutInit, PTL DEF Spec

\* Every variable of a rollout keeps its type: services run an image that
\* exists and units name one.
THEOREM TypeCorrect == Spec => []TypeOK
  BY RolloutInvHolds, PTL DEF RolloutInv

\* However many rollouts were interrupted, and wherever, --upgrade restarts a
\* service only once its database is complete.
THEOREM UpgradesComeFirst == Spec => []UpgradedBeforeRestart
  BY RolloutInvHolds, PTL DEF RolloutInv
=============================================================================
