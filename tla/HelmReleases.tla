---------------------------- MODULE HelmReleases ----------------------------
(***************************************************************************)
(* The revisions of one Helm release: the records that Helm stores them    *)
(* in, the requests that install, upgrade, roll back and uninstall the     *)
(* release (api/server/handlers/release) through the agent of internal/    *)
(* helm, which forces its way past an operation that is stuck, and the     *)
(* tracker job that moves old revisions to a bucket                        *)
(* (workers/jobs/helm_revisions_count_tracker.go).                         *)
(*                                                                         *)
(* Helm itself is modelled by what its actions do to the records and the   *)
(* cluster: an operation makes a record that is pending, applies it, and   *)
(* records the outcome. A record is kept under its revision, and says      *)
(* itself which revision it is.                                            *)
(***************************************************************************)
EXTENDS Integers, FiniteSets

CONSTANTS
  Change,   \* the requests that clients make
  Job,      \* the tracker jobs that may run at a time, each again and again
  Keep,     \* the revisions that the tracker keeps, 100 in the code
  Initial,  \* the configuration before any change
  Pausing,  \* what clients may send for whether jobs are paused
  Hazard,   \* what may go wrong, of Hazards
  MaxInFlight   \* bound: the requests and jobs under way at a time

Hazards ==
  { "failure",   \* Kubernetes refuses a change, or the bucket a file
    "crash",     \* a server or worker goes down
    "removed" }  \* the cluster no longer has an API that the release uses

ASSUME KeepAssumption == Keep \in Nat \ {0}
ASSUME HazardAssumption == Hazard \subseteq Hazards /\ Pausing \subseteq BOOLEAN
ASSUME FlightAssumption == MaxInFlight \in Nat \ {0} /\ Initial \notin Change

VARIABLES
  records,    \* the record under each revision
  runs,       \* the configuration that the cluster runs
  backup,     \* the records in the bucket, by revision
  pc, req,    \* of each request: where it is, and its local variables
  jobPc, listed, todo,  \* of each job: where it is, the records it has read, what it has to move
  made,       \* the configuration that each revision was made with (history)
  happened    \* what has disturbed the requests so far (history)

vars == <<records, runs, backup, pc, req, jobPc, listed, todo, made, happened>>
jobs == <<jobPc, listed, todo, backup>>

\* The values of a release, one of the chart "job": its settings, the image that a deploy
\* changes, and whether its jobs are paused.
Value == Change \cup {Initial}
Config == [settings : Value, image : Value, paused : BOOLEAN]
First == [settings |-> Initial, image |-> Initial, paused |-> FALSE]
Nothing == [settings |-> Initial, image |-> "none", paused |-> TRUE]    \* a cluster without it

Record == [revision : Nat, status : {"pending", "deployed", "superseded", "failed", "uninstalling"},
           config : Config, old : BOOLEAN]
NoRecord == [revision |-> 0, status |-> "superseded", config |-> First, old |-> FALSE]
MakeRecord(n, status, config) ==
  [revision |-> n, status |-> status, config |-> config, old |-> FALSE]

\* The revision that the client has seen or wants, the values it sends, the release as the
\* agent has read it, the revision it makes and the one it replaces.
Request == [op : {"none", "upgrade", "deploy", "batch", "rollback", "install", "uninstall"},
            view : Nat, config : Config, rel : Record, revision : Nat, base : Record, seen : SUBSET Nat]
Blank == [op |-> "none", view |-> 0, config |-> First, rel |-> NoRecord, revision |-> 0,
          base |-> NoRecord, seen |-> {}]

Put(f, n, v) == [m \in DOMAIN f \cup {n} |-> IF m = n THEN v ELSE f[m]]
Without(f, S) == [m \in DOMAIN f \ S |-> f[m]]

\* The release is not installed, or has been upgraded a few times; the last upgrade may have
\* failed, or its server have gone down before it did anything to the cluster.
Init ==
  /\ \E n \in 0..Keep + 1, last \in {"deployed", "failed", "pending"} :
       /\ n < 2 => last = "deployed"
       /\ records = [m \in 1..n |->
            MakeRecord(m, IF m = n THEN last
                          ELSE IF m = n - 1 /\ last # "deployed" THEN "deployed" ELSE "superseded", First)]
       /\ runs = IF n = 0 THEN Nothing ELSE First
       /\ made = [m \in 1..n |-> First]
  /\ backup = << >>
  /\ pc = [c \in Change |-> "new"] /\ req = [c \in Change |-> Blank]
  /\ jobPc = [j \in Job |-> "idle"] /\ listed = [j \in Job |-> << >>] /\ todo = [j \in Job |-> {}]
  /\ happened = {}

\* Helm's Last: by what the records say.
Newest(S) == CHOOSE n \in S : \A m \in S : records[m].revision <= records[n].revision
Last == Newest(DOMAIN records)
Having(status) == {n \in DOMAIN records : records[n].status = status}

InFlight == {c \in Change : pc[c] \notin {"new", "ended"}}
Moving == {j \in Job : jobPc[j] # "idle"}

\* A deploy is an upgrade, and an install one when there is nothing yet.
KindOf(op) == IF op \in {"deploy", "batch", "install"} THEN "upgrade" ELSE op

\* A request begins: what it is, and what is under way, overlap. So do an uninstall and a job.
Begins(what) ==
  /\ Cardinality(InFlight) + Cardinality(Moving) < MaxInFlight
  /\ LET others == {KindOf(req[c].op) : c \in InFlight} IN
       happened' = happened \cup 
         IF others = {} /\ (what # "uninstall" \/ Moving = {}) THEN {} ELSE {KindOf(what)} \cup others

At(c, place) == pc' = [pc EXCEPT ![c] = place]

\* The request is over, with its local variables.
Ends(c) == At(c, "ended") /\ req' = [req EXCEPT ![c] = Blank]

\* What Helm writes is written only where there is a record.
Update(f, r) == IF r.revision \in DOMAIN f THEN [f EXCEPT ![r.revision] = r] ELSE f

-----------------------------------------------------------------------------
(* The handlers.                                                           *)

\* UpgradeReleaseHandler: all values, from the revision that the client has on its page, which
\* may not be the latest any more, or from the latest without a check.
Upgrade(c) ==
  /\ pc[c] = "new" /\ records # << >> /\ Begins("upgrade")
  /\ \E paused \in Pausing :
       \/ \E view \in DOMAIN records :
            /\ req' = [req EXCEPT ![c] = [Blank EXCEPT !.op = "upgrade", !.view = view, !.config =
                         [settings |-> c, image |-> records[view].config.image, paused |-> paused]]]
            /\ At(c, "checking")
       \/ /\ req' = [req EXCEPT ![c] = [Blank EXCEPT !.op = "upgrade", !.config =
                       [settings |-> c, image |-> records[Last].config.image, paused |-> paused]]]
          /\ At(c, "reading")
  /\ UNCHANGED <<records, runs, jobs, made>>

Latest(n) == records # << >> /\ records[Last].revision = n

\* Faulty: any revision will do.
CheckRevisionAny(c) ==
  /\ pc[c] = "checking"
  /\ At(c, "reading")
  /\ UNCHANGED <<records, runs, req, jobs, made, happened>>

CheckRevision(c) ==
  /\ pc[c] = "checking"
  /\ \/ Latest(req[c].view) /\ At(c, "reading") /\ UNCHANGED req
     \/ ~Latest(req[c].view) /\ Ends(c)
  /\ UNCHANGED <<records, runs, jobs, made, happened>>

\* Faulty: the image alone is sent, the other values are those of the chart.
DeployImageOnly(c) ==
  /\ pc[c] = "new" /\ records # << >> /\ Begins("deploy")
  /\ req' = [req EXCEPT ![c] = [Blank EXCEPT !.op = "deploy", !.config = [First EXCEPT !.image = c]]]
  /\ At(c, "reading")
  /\ UNCHANGED <<records, runs, jobs, made>>

\* WebhookHandler: another image in the values of the latest revision.
Deploy(c) ==
  /\ pc[c] = "new" /\ records # << >> /\ Begins("deploy")
  /\ req' = [req EXCEPT ![c] = [Blank EXCEPT !.op = "deploy",
               !.config = [records[Last].config EXCEPT !.image = c]]]
  /\ At(c, "reading")
  /\ UNCHANGED <<records, runs, jobs, made>>

\* UpdateImageBatchHandler: the jobs are paused besides, so that none starts by the upgrade.
DeployBatch(c) ==
  /\ pc[c] = "new" /\ records # << >> /\ Begins("batch")
  /\ req' = [req EXCEPT ![c] = [Blank EXCEPT !.op = "batch",
               !.config = [records[Last].config EXCEPT !.image = c, !.paused = TRUE]]]
  /\ At(c, "reading")
  /\ UNCHANGED <<records, runs, jobs, made>>

Rollback(c, n) ==
  /\ pc[c] = "new" /\ n \in DOMAIN records /\ Begins("rollback")
  /\ req' = [req EXCEPT ![c] = [Blank EXCEPT !.op = "rollback", !.view = n]]
  /\ At(c, "rolling")
  /\ UNCHANGED <<records, runs, jobs, made>>

-----------------------------------------------------------------------------
(* UpgradeReleaseByValues of the agent, around Helm's upgrade.             *)

ReadRelease(c) ==
  /\ pc[c] = "reading"
  /\ \/ records # << >> /\ req' = [req EXCEPT ![c].rel = records[Last]] /\ At(c, "preparing")
     \/ records = << >> /\ Ends(c)
  /\ UNCHANGED <<records, runs, jobs, made, happened>>

\* Helm makes the next revision, of which there must be no record yet, in place of base.
Makes(c, config, base) ==
  LET next == records[Last].revision + 1 IN
    IF next \in DOMAIN records THEN Ends(c) /\ UNCHANGED <<records, made>>
    ELSE /\ records' = Put(records, next, MakeRecord(next, "pending", config))
         /\ made' = Put(made, next, config)
         /\ req' = [req EXCEPT ![c].revision = next, ![c].config = config, ![c].base = base]
         /\ At(c, "applying")

\* What Helm upgrades from: the revision deployed, or else the latest.
Base == IF Having("deployed") = {} THEN Last ELSE Newest(Having("deployed"))

Upgradable == records # << >> /\ records[Base].status # "uninstalling"

Prepare(c) ==
  /\ pc[c] \in {"preparing", "retrying"} /\ Upgradable
  /\ records[Last].status # "pending"
  /\ Makes(c, req[c].config, records[Base])
  /\ UNCHANGED <<runs, jobs, happened>>

\* Helm refuses: another operation is in progress, an API was removed, or there is nothing to
\* upgrade. For the first two the agent has a remedy, once.
Refused(c) ==
  /\ pc[c] \in {"preparing", "retrying"}
  /\ \/ /\ records # << >> /\ records[Last].status = "pending"
        /\ pc[c] = "preparing" /\ At(c, "stuck") /\ UNCHANGED req
     \/ /\ "removed" \in Hazard /\ Upgradable /\ records[Last].status # "pending"
        /\ pc[c] = "preparing" /\ At(c, "mapping") /\ UNCHANGED req
     \/ (pc[c] = "retrying" \/ ~Upgradable) /\ Ends(c)
  /\ UNCHANGED <<records, runs, jobs, made, happened>>

\* The release that c has read is put over the record of another one.
Overwrites(c, n) == IF req[c].rel.revision = n THEN {} ELSE {"overwritten"}

Working(n) == {c \in Change : pc[c] \in {"applying", "replacing", "recording"} /\ req[c].revision = n}

\* Faulty: the operation is declared failed at once.
TakeOverAtOnce(c) ==
  /\ pc[c] = "stuck"
  /\ LET pending == Having("pending") IN
       IF pending # {} THEN
         /\ records' = [records EXCEPT ![Newest(pending)] = [req[c].rel EXCEPT !.status = "failed", !.old = FALSE]]
         /\ At(c, "retrying") /\ UNCHANGED req
         /\ happened' = happened \cup Overwrites(c, Newest(pending))
       ELSE Ends(c) /\ UNCHANGED <<records, happened>>
  /\ UNCHANGED <<runs, jobs, made>>

\* The latest of the pending operations is declared failed when it is a minute old: its record
\* gets the release that was read at the start.
TakeOver(c) ==
  /\ pc[c] = "stuck"
  /\ LET pending == Having("pending") IN
       IF pending # {} /\ records[Newest(pending)].old THEN
         /\ records' = [records EXCEPT ![Newest(pending)] = [req[c].rel EXCEPT !.status = "failed", !.old = FALSE]]
         /\ At(c, "retrying") /\ UNCHANGED req
         /\ happened' = happened \cup Overwrites(c, Newest(pending))
       ELSE Ends(c) /\ UNCHANGED <<records, happened>>
  /\ UNCHANGED <<runs, jobs, made>>

\* Faulty: the record of the revision deployed is written.
RemapDeployed(c) ==
  /\ pc[c] = "mapping"
  /\ IF records = << >> THEN UNCHANGED <<records, happened>>
     ELSE records' = [records EXCEPT ![Base] = req[c].rel] /\ UNCHANGED happened
  /\ At(c, "retrying")
  /\ UNCHANGED <<runs, req, jobs, made>>

\* The release that was read at the start, with a manifest of newer APIs, is written to the
\* record of the latest revision.
RemapAPIs(c) ==
  /\ pc[c] = "mapping"
  /\ IF records = << >> THEN UNCHANGED <<records, happened>>
     ELSE /\ records' = [records EXCEPT ![Last] = req[c].rel]
          /\ happened' = happened \cup Overwrites(c, Last)
  /\ At(c, "retrying")
  /\ UNCHANGED <<runs, req, jobs, made>>

-----------------------------------------------------------------------------
(* Helm.                                                                   *)

\* To the values of the revision that is wanted, whatever is pending.
PrepareRollback(c) ==
  /\ pc[c] = "rolling"
  /\ IF req[c].view \in DOMAIN records THEN Makes(c, records[req[c].view].config, records[Last])
     ELSE Ends(c) /\ UNCHANGED <<records, made>>
  /\ UNCHANGED <<runs, jobs, happened>>

Install(c) ==
  /\ pc[c] = "new" /\ records = << >> /\ Begins("install")
  /\ LET config == [settings |-> c, image |-> c, paused |-> FALSE] IN
       /\ records' = [n \in {1} |-> MakeRecord(1, "pending", config)]
       /\ made' = [n \in {1} |-> config]
       /\ req' = [req EXCEPT ![c] = [Blank EXCEPT !.op = "install", !.revision = 1, !.config = config]]
  /\ At(c, "applying")
  /\ UNCHANGED <<runs, jobs>>

Apply(c) ==
  /\ pc[c] = "applying"
  /\ runs' = req[c].config
  /\ At(c, "replacing")
  /\ UNCHANGED <<records, req, jobs, made, happened>>

\* A rollback that fails replaces the latest revision all the same.
ApplyFails(c) ==
  /\ "failure" \in Hazard /\ pc[c] = "applying"
  /\ runs' \in {runs, req[c].config}
  /\ LET failed == Update(records, MakeRecord(req[c].revision, "failed", req[c].config)) IN
       records' = IF req[c].op = "rollback"
                  THEN Update(failed, [req[c].base EXCEPT !.status = "superseded"]) ELSE failed
  /\ Ends(c)
  /\ happened' = happened \cup {"failure"}
  /\ UNCHANGED <<jobs, made>>

\* What was deployed is superseded: by an upgrade its base, by a rollback all there is.
Supersede(c) ==
  /\ pc[c] = "replacing"
  /\ records' = IF req[c].op = "rollback"
                THEN [n \in DOMAIN records |->
                        IF n \in Having("deployed") THEN [records[n] EXCEPT !.status = "superseded"]
                        ELSE records[n]]
                ELSE Update(records, [req[c].base EXCEPT !.status = "superseded"])
  /\ At(c, "recording")
  /\ UNCHANGED <<runs, req, jobs, made, happened>>

RecordDeployed(c) ==
  /\ pc[c] = "recording"
  /\ records' = Update(records, MakeRecord(req[c].revision, "deployed", req[c].config))
  /\ Ends(c)
  /\ UNCHANGED <<runs, jobs, made, happened>>

\* An uninstall marks the latest record, and removes the revisions it has read at the end.
Uninstall(c) ==
  /\ pc[c] = "new" /\ records # << >> /\ Begins("uninstall")
  /\ req' = [req EXCEPT ![c] = [Blank EXCEPT !.op = "uninstall", !.seen = DOMAIN records]]
  /\ records' = [records EXCEPT ![Last].status = "uninstalling"]
  /\ At(c, "uninstalling")
  /\ UNCHANGED <<runs, jobs, made>>

Purge(c) ==
  /\ pc[c] = "uninstalling"
  /\ runs' = Nothing
  /\ records' = Without(records, req[c].seen)
  /\ made' = Without(made, {n \in DOMAIN made : \E m \in req[c].seen : n <= m})
  /\ Ends(c)
  /\ UNCHANGED <<jobs, happened>>

-----------------------------------------------------------------------------
(* The tracker job.                                                        *)

requests == <<runs, pc, req>>

\* ListReleases: a release is in the list for any record with one of the statuses asked for,
\* also one that is older than the record an uninstall has marked. Then the job and the
\* uninstall overlap.
List(j) ==
  /\ jobPc[j] = "idle" /\ Cardinality(InFlight) + Cardinality(Moving) < MaxInFlight
  /\ \E n \in DOMAIN records : records[n].status \in {"deployed", "pending", "failed"}
  /\ jobPc' = [jobPc EXCEPT ![j] = "listed"]
  /\ happened' = happened \cup
       IF \E c \in InFlight : req[c].op = "uninstall" THEN {"uninstall"} ELSE {}
  /\ UNCHANGED <<records, requests, backup, listed, todo, made>>

\* Not among the newest that it keeps, so to be moved.
Exceeding == {n \in DOMAIN records :
  Cardinality({m \in DOMAIN records : records[m].revision > records[n].revision}) >= Keep}

\* GetReleaseHistory: of the revisions, if there are more than it keeps, the job remembers
\* those it will move.
ReadHistory(j) ==
  /\ jobPc[j] = "listed" /\ Cardinality(DOMAIN records) > Keep
  /\ jobPc' = [jobPc EXCEPT ![j] = "moving"]
  /\ listed' = [listed EXCEPT ![j] = [n \in Exceeding |-> records[n]]]
  /\ todo' = [todo EXCEPT ![j] = Exceeding]
  /\ UNCHANGED <<records, requests, backup, made, happened>>

NextToMove(j) == CHOOSE n \in todo[j] : \A m \in todo[j] : m <= n

BackUp(j) ==
  /\ jobPc[j] = "moving" /\ todo[j] # {}
  /\ LET n == NextToMove(j) IN backup' = Put(backup, n, listed[j][n])
  /\ jobPc' = [jobPc EXCEPT ![j] = "deleting"]
  /\ UNCHANGED <<records, requests, listed, todo, made, happened>>

Skips(j) ==
  /\ jobPc' = [jobPc EXCEPT ![j] = "moving"]
  /\ todo' = [todo EXCEPT ![j] = @ \ {NextToMove(j)}]

\* DeleteReleaseRevision; a record that is not there is an error.
DeleteRevision(j) ==
  /\ jobPc[j] = "deleting"
  /\ records' = Without(records, {NextToMove(j)})
  /\ Skips(j)
  /\ UNCHANGED <<requests, backup, listed, made, happened>>

\* Faulty: a file that is not written has its record deleted all the same.
MoveFailsUnseen(j) ==
  /\ "failure" \in Hazard /\ jobPc[j] = "moving" /\ todo[j] # {}
  /\ jobPc' = [jobPc EXCEPT ![j] = "deleting"]
  /\ UNCHANGED <<records, requests, backup, listed, todo, made, happened>>

\* A file that is not written, or a record not deleted, is left to the next job.
MoveFails(j) ==
  /\ "failure" \in Hazard /\ jobPc[j] \in {"moving", "deleting"} /\ todo[j] # {}
  /\ Skips(j)
  /\ UNCHANGED <<records, requests, backup, listed, made, happened>>

\* A release of no more revisions, or whose history is not read, is skipped.
JobEnds(j) ==
  /\ \/ jobPc[j] = "listed" /\ (Cardinality(DOMAIN records) <= Keep \/ "failure" \in Hazard)
     \/ jobPc[j] = "moving" /\ todo[j] = {}
     \/ jobPc[j] # "idle" /\ "crash" \in Hazard
  /\ jobPc' = [jobPc EXCEPT ![j] = "idle"]
  /\ listed' = [listed EXCEPT ![j] = << >>] /\ todo' = [todo EXCEPT ![j] = {}]
  /\ UNCHANGED <<records, requests, backup, made, happened>>

-----------------------------------------------------------------------------

\* A minute has passed since the operation began. Bound: one that is at work takes less.
Ages(n) ==
  /\ n \in Having("pending") /\ ~records[n].old
  /\ Working(n) = {}
  /\ records' = [records EXCEPT ![n].old = TRUE]
  /\ UNCHANGED <<requests, jobs, made, happened>>

Crash(c) ==
  /\ "crash" \in Hazard /\ c \in InFlight
  /\ Ends(c)
  /\ happened' = happened \cup {"crash"}
  /\ UNCHANGED <<records, runs, jobs, made>>

Next ==
  \/ \E c \in Change :
       \/ Upgrade(c) \/ CheckRevision(c) \/ Deploy(c) \/ DeployBatch(c) \/ ReadRelease(c) \/ Prepare(c)
       \/ Refused(c) \/ TakeOver(c) \/ RemapAPIs(c) \/ PrepareRollback(c) \/ Install(c) \/ Apply(c)
       \/ ApplyFails(c) \/ Supersede(c) \/ RecordDeployed(c) \/ Uninstall(c) \/ Purge(c) \/ Crash(c)
       \/ \E n \in DOMAIN records : Rollback(c, n)
  \/ \E j \in Job : List(j) \/ ReadHistory(j) \/ BackUp(j) \/ DeleteRevision(j) \/ MoveFails(j) \/ JobEnds(j)
  \/ \E n \in DOMAIN records : Ages(n)

Spec == Init /\ [][Next]_vars

-----------------------------------------------------------------------------
(* Properties.                                                             *)

Quiet == InFlight = {}
Disturbed(by) == by \cap happened # {}

\* Every variable has its type.
TypeOK ==
  /\ \A n \in DOMAIN records : n \in Nat \ {0} /\ records[n] \in Record
  /\ runs \in Config \cup {Nothing}
  /\ \A n \in DOMAIN backup : n \in Nat \ {0} /\ backup[n] \in Record
  /\ pc \in [Change -> {"new", "checking", "reading", "preparing", "retrying", "stuck", "mapping",
                        "rolling", "applying", "replacing", "recording", "uninstalling", "ended"}]
  /\ req \in [Change -> Request]
  /\ jobPc \in [Job -> {"idle", "listed", "moving", "deleting"}]
  /\ \A j \in Job : todo[j] \subseteq DOMAIN listed[j]
  /\ happened \subseteq {"upgrade", "rollback", "uninstall", "overwritten", "failure", "crash"}

\* One upgrade or install at a time is applied, and at most one revision deployed: Helm refuses
\* while another is pending, and the agent declares only those failed that are a minute old.
OneAtATime ==
  ~Disturbed({"rollback", "uninstall", "overwritten"}) =>
    /\ Cardinality({c \in Change : pc[c] \in {"applying", "replacing", "recording"}}) <= 1
    /\ Cardinality(Having("deployed")) <= 1

\* When nothing is under way, the cluster runs what the revision deployed says, if nothing
\* went wrong: however upgrades, deploys and the tracker overlap.
DeployedIsWhatRuns ==
  Quiet /\ ~Disturbed({"rollback", "uninstall", "overwritten", "failure", "crash"}) =>
    \A n \in Having("deployed") : records[n].config = runs

\* The record of a revision is of that revision, with the values it was made with: neither
\* TakeOver nor RemapAPIs puts the release it has read over another one.
RecordsOwn ==
  ~Disturbed({"upgrade", "uninstall"}) =>
    \A n \in DOMAIN records : records[n].revision = n /\ records[n].config = made[n]

\* types/release.go: "there hasn't been an upgrade in the meantime": an upgrade from a revision
\* makes the next one, if nothing overlaps with it, and no job has outlived the release it
\* listed: its DeleteRevision removes the revisions of the next release of the name.
UpgradesFromView ==
  ~Disturbed({"upgrade", "uninstall"}) =>
    \A c \in Change : pc[c] = "applying" /\ req[c].op = "upgrade" /\ req[c].view # 0 =>
      req[c].revision = req[c].view + 1

\* A deploy changes the image of what is deployed and no other value, and one of many releases
\* pauses the jobs besides, if nothing overlaps with it and no upgrade has failed, whose values
\* it would take along.
DeployKeepsSettings ==
  ~Disturbed({"upgrade", "rollback", "uninstall", "failure", "crash"}) =>
    \A c \in Change : pc[c] = "applying" /\ req[c].op \in {"deploy", "batch"} =>
      /\ req[c].config.settings = req[c].base.config.settings
      /\ req[c].config.paused <=> req[c].base.config.paused \/ req[c].op = "batch"

\* "the older revisions are first backed up to an S3 bucket and then deleted": no revision is
\* lost, with its values, however the job, a crash and requests interleave. "We intend to only
\* keep the most recent 100 revisions": and those are kept.
KeptOrBackedUp ==
  ~Disturbed({"uninstall", "overwritten"}) =>
    \A n \in DOMAIN made \ DOMAIN records :
      /\ n \in DOMAIN backup /\ backup[n].config = made[n]
      /\ Cardinality({m \in DOMAIN records : m > n}) >= Keep
=============================================================================
