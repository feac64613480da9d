------------------------------- MODULE Rollout -------------------------------
(***************************************************************************)
(* Rolling out a release that needs two more columns of the tokens table:  *)
(* deploy/upgrade.sh, the upgradedb command it runs in a container of its  *)
(* own (db.upgrade()), and the services it restarts.                       *)
(*                                                                         *)
(* There are two images, "old" and "new".  A service is started from the   *)
(* image its unit names, and the unit is generated from the quadlet, which *)
(* names the tag :latest, and its drop-in whenever systemd reloads.        *)
(* Every instance has a database of its own.                               *)
(***************************************************************************)
EXTENDS Naturals

CONSTANTS
  Instances,     \* instances of the service
  Modes,         \* what the script is asked to do; a subset of AllModes
  MaxFailures    \* bound: failing commands, crashes, reboots, and columns
                 \* that the operator adds by hand

Columns == {"created_at", "last_updated_at"}
AllModes == {"dry_run", "check", "plain", "upgrade"}
Images == {"old", "new"}
Refs == Images \cup {"latest"}

ASSUME RolloutAssumption ==
  "none" \notin Instances /\ Modes \subseteq AllModes /\ MaxFailures \in Nat

VARIABLES
  latest,      \* the local image the tag :latest refers to
  override,    \* what the drop-in of each instance names, or "none"
  unit,        \* what the generated unit of each instance names
  running,     \* the image each service runs, or "down"
  columns,     \* those of Columns that each database has
  container,   \* the column the upgradedb container of each instance is at, or "none"
  found,       \* the columns it found
  failures,
  pc, mode,    \* where the script is, and how it was called
  ref,         \* IMAGE_REF: the tag, or the digest of the new image
  todo, inst,  \* instances it has yet to do, and the one it is at
  before       \* before_id: the image that ran when --check looked

host == <<latest, override, unit, running>>
database == <<columns, container, found>>
script == <<mode, ref, todo, inst, before>>
vars == <<host, database, failures, pc, script>>

\* Services run the old release: from :latest, or pinned by an earlier rollout.
Init ==
  /\ latest = "old"
  /\ override \in [Instances -> {"none", "old"}]
  /\ unit = [i \in Instances |-> IF override[i] = "none" THEN "latest" ELSE "old"]
  /\ running = [i \in Instances |-> "old"]
  /\ columns = [i \in Instances |-> {}]
  /\ container = [i \in Instances |-> "none"]
  /\ found = [i \in Instances |-> {}]
  /\ failures = 0
  /\ pc = "idle"
  /\ mode = "dry_run"
  /\ ref = "latest"
  /\ todo = {}
  /\ inst = "none"
  /\ before = "down"

-----------------------------------------------------------------------------
(* podman and systemd; external.                                           *)

Resolve(name) == IF name = "latest" THEN latest ELSE name

Generated ==
  [i \in Instances |-> IF override[i] = "none" THEN "latest" ELSE override[i]]

Failure == failures < MaxFailures /\ failures' = failures + 1

\* The script goes on, or ends, and with it all that it knew.
Goto(label) ==
  /\ pc' = label
  /\ IF label = "idle"
       THEN /\ mode' = "dry_run" /\ ref' = "latest"
            /\ todo' = {} /\ inst' = "none" /\ before' = "down"
       ELSE UNCHANGED script

ServiceCrashes(i) ==
  /\ running[i] # "down"
  /\ Failure
  /\ running' = [running EXCEPT ![i] = "down"]
  /\ UNCHANGED <<latest, override, unit, database, pc, script>>

\* Restart=always.
ServiceStarts(i) ==
  /\ running[i] = "down"
  /\ running' = [running EXCEPT ![i] = Resolve(unit[i])]
  /\ UNCHANGED <<latest, override, unit, database, failures, pc, script>>

Reboot ==
  /\ Failure
  /\ unit' = Generated
  /\ running' = [i \in Instances |-> "down"]
  /\ container' = [i \in Instances |-> "none"]
  /\ found' = [i \in Instances |-> {}]
  /\ Goto("idle")
  /\ UNCHANGED <<latest, override, columns>>

-----------------------------------------------------------------------------
(* db.upgrade(), in the container that run_db_upgrade() starts.            *)

\* Mutant: the second column is taken for granted with the first.
missing_unless_created(cols) == IF "created_at" \in cols THEN {} ELSE Columns

\* Mutant: the columns are added without looking.
missing_always(cols) == Columns

missing(cols) == Columns \ cols

\* The container ends; the script goes on if it waits for it.
ContainerEnds(i, next) ==
  /\ container' = [container EXCEPT ![i] = "none"]
  /\ found' = [found EXCEPT ![i] = {}]
  /\ Goto(IF pc = "migrating" /\ inst = i THEN next ELSE pc)
  /\ UNCHANGED host

\* On to the other column.
Proceed(i) ==
  \/ /\ container[i] = "created_at"
     /\ container' = [container EXCEPT ![i] = "last_updated_at"]
     /\ UNCHANGED <<found, host, pc, script>>
  \/ /\ container[i] = "last_updated_at"
     /\ ContainerEnds(i, "reload")

\* ALTER TABLE commits by itself, and fails if the column is there.
Alter(i) ==
  /\ container[i] # "none"
  /\ LET column == container[i]
     IN  \/ /\ column \notin missing(found[i])
            /\ Proceed(i)
            /\ UNCHANGED columns
         \/ /\ column \in missing(found[i]) \ columns[i]
            /\ columns' = [columns EXCEPT ![i] = @ \cup {column}]
            /\ Proceed(i)
         \/ /\ column \in missing(found[i]) \cap columns[i]
            /\ ContainerEnds(i, "idle")
            /\ UNCHANGED columns
  /\ UNCHANGED failures

\* The service holds the lock for too long, or the container is killed.
UpgradeFails(i) ==
  /\ container[i] # "none"
  /\ Failure
  /\ ContainerEnds(i, "idle")
  /\ UNCHANGED columns

\* The operator runs upgradedb by hand at the same time; the name of the
\* script's container does not keep this run out.  It commits the columns it
\* found missing in the same order, and whether it fails at one that the
\* container has added meanwhile makes no difference to anyone else.
UpgradeByHand(i) ==
  /\ Failure
  /\ \E column \in missing(columns[i]) :
       /\ column = "created_at" \/ "created_at" \in columns[i]
       /\ columns' = [columns EXCEPT ![i] = @ \cup {column}]
  /\ UNCHANGED <<host, container, found, pc, script>>

-----------------------------------------------------------------------------
(* deploy/upgrade.sh.  It runs with set -e.                                *)

Begin(m, r) ==
  /\ pc = "idle"
  /\ pc' = "instance"
  /\ mode' = m /\ ref' = r
  /\ \E chosen \in SUBSET Instances \ {{}} : todo' = chosen
  /\ UNCHANGED <<host, database, failures, inst, before>>

\* The next instance of the list; a dry run only prints what would be done.
NextInstance ==
  /\ pc = "instance"
  /\ \/ /\ todo = {} \/ mode = "dry_run"
        /\ Goto("idle")
     \/ /\ mode # "dry_run"
        /\ \E i \in todo :
             /\ inst' = i /\ todo' = todo \ {i}
             /\ before' = IF mode = "check" THEN running[i] ELSE before
        /\ pc' = "pull"
        /\ UNCHANGED <<mode, ref>>
  /\ UNCHANGED <<host, database, failures>>

Pull ==
  /\ pc = "pull"
  /\ latest' = IF ref = "latest" THEN "new" ELSE latest
  /\ Goto(IF mode = "check" THEN "compare" ELSE "write")
  /\ UNCHANGED <<override, unit, running, database, failures>>

\* --check exits with an error at the first instance that differs.
Compare ==
  /\ pc = "compare"
  /\ Goto(IF before = "new" THEN "instance" ELSE "idle")
  /\ UNCHANGED <<host, database, failures>>

\* Mutant: an image without a digest leaves Image= empty.
WriteOverrideNoFallback ==
  /\ pc = "write"
  /\ \E pin \in {"", "new"} : override' = [override EXCEPT ![inst] = pin]
  /\ Goto(IF mode = "upgrade" THEN "upgrade" ELSE "reload")
  /\ UNCHANGED <<latest, unit, running, database, failures>>

\* The drop-in names the digest of the image, or IMAGE_REF if it has none.
WriteOverride ==
  /\ pc = "write"
  /\ \E pin \in {ref, "new"} : override' = [override EXCEPT ![inst] = pin]
  /\ Goto(IF mode = "upgrade" THEN "upgrade" ELSE "reload")
  /\ UNCHANGED <<latest, unit, running, database, failures>>

\* podman refuses a container whose name is in use.
StartUpgrade ==
  /\ pc = "upgrade"
  /\ \/ /\ container[inst] = "none"
        /\ container' = [container EXCEPT ![inst] = "created_at"]
        /\ found' = [found EXCEPT ![inst] = columns[inst]]
        /\ Goto("migrating")
     \/ /\ container[inst] # "none"
        /\ Goto("idle")
        /\ UNCHANGED <<container, found>>
  /\ UNCHANGED <<host, columns, failures>>

\* daemon-reload generates the units of all instances again.
Reload ==
  /\ pc = "reload"
  /\ unit' = Generated
  /\ Goto("restart")
  /\ UNCHANGED <<latest, override, running, database, failures>>

Restart ==
  /\ pc = "restart"
  /\ running' = [running EXCEPT ![inst] = Resolve(unit[inst])]
  /\ Goto("verify")
  /\ UNCHANGED <<latest, override, unit, database, failures>>

\* The service is active and runs the target, or the script gives up.
Verify ==
  /\ pc = "verify"
  /\ Goto(IF running[inst] = "new" THEN "instance" ELSE "idle")
  /\ UNCHANGED <<host, database, failures>>

\* A command fails or the script is interrupted, leaving behind what it has
\* done so far: maybe an empty drop-in if it was about to write it, or a
\* service that is down if it was about to restart it.
Abort ==
  /\ pc # "idle"
  /\ Failure
  /\ Goto("idle")
  /\ \/ UNCHANGED <<override, running>>
     \/ /\ pc = "write"
        /\ override' = [override EXCEPT ![inst] = "none"]
        /\ UNCHANGED running
     \/ /\ pc = "restart"
        /\ running' = [running EXCEPT ![inst] = "down"]
        /\ UNCHANGED override
  /\ UNCHANGED <<latest, unit, database>>

-----------------------------------------------------------------------------
Script ==
  \/ NextInstance \/ Pull \/ Compare \/ WriteOverride \/ StartUpgrade
  \/ Reload \/ Restart \/ Verify

Next ==
  \/ \E m \in Modes, r \in {"latest", "new"} : Begin(m, r)
  \/ Script \/ Abort \/ Reboot
  \/ \E i \in Instances :
       \/ Alter(i) \/ UpgradeFails(i) \/ UpgradeByHand(i)
       \/ ServiceCrashes(i) \/ ServiceStarts(i)

Spec == Init /\ [][Next]_vars

\* Commands end, services are started again, and the operator comes back to a
\* rollout of all instances.
Fairness ==
  /\ WF_vars(Script)
  /\ \A i \in Instances : WF_vars(Alter(i)) /\ WF_vars(ServiceStarts(i))
  /\ SF_vars(Begin("upgrade", "latest") /\ todo' = Instances)

FairSpec == Spec /\ Fairness

-----------------------------------------------------------------------------
TypeOK ==
  /\ latest \in Images
  /\ override \in [Instances -> Refs \cup {"none"}]
  /\ unit \in [Instances -> Refs]
  /\ running \in [Instances -> Images \cup {"down"}]
  /\ columns \in [Instances -> SUBSET Columns]
  /\ container \in [Instances -> Columns \cup {"none"}]
  /\ found \in [Instances -> SUBSET Columns]
  /\ failures \in 0..MaxFailures
  /\ pc \in {"idle", "instance", "pull", "compare", "write", "upgrade", "migrating",
             "reload", "restart", "verify"}
  /\ mode \in AllModes /\ ref \in {"latest", "new"}
  /\ todo \in SUBSET Instances /\ inst \in Instances \cup {"none"}
  /\ before \in Images \cup {"down"}

\* With --upgrade the script restarts a service only once its database has
\* every column, also if an earlier upgradedb died between its two ALTERs
\* (upgrade.sh:14 "Run one-off DB upgrade before restart"; db.py:58-67).
UpgradedBeforeRestart ==
  mode = "upgrade" /\ pc \in {"reload", "restart", "verify"} =>
    columns[inst] = Columns

\* A rollout can be finished after any failure, also one that another run of
\* upgradedb causes: if it is tried again, every service ends up with a
\* complete database and runs the new release, also after a restart.
RolloutCompletes ==
  <>[](\A i \in Instances :
         columns[i] = Columns /\ running[i] = "new" /\ Resolve(unit[i]) = "new")

\* The new release never runs on a database without its columns, on which
\* every lookup, insert and update fails (db.py:196, 219, 244).
NewReleaseFindsItsColumns ==
  \A i \in Instances : running[i] = "new" => columns[i] = Columns
=============================================================================
