------------------------- MODULE HelmReleasesProofs -------------------------
(***************************************************************************)
(* Proofs about HelmReleases, for any requests and tracker jobs, any       *)
(* number of them at a time, any number of revisions kept, and whatever    *)
(* goes wrong.                                                             *)
(***************************************************************************)
EXTENDS HelmReleases, TLAPS, FiniteSetTheorems, WellFoundedInduction

-----------------------------------------------------------------------------
(* The invariant.                                                          *)

\* Where an upgrade is before it has made its revision, and any operation after it has.
Before == {"checking", "reading", "preparing", "retrying", "stuck", "mapping"}
After == {"applying", "replacing", "recording"}

\* The place of a request tells its operation.
OpOf(c) ==
  /\ pc[c] \in Before => req[c].op \in {"upgrade", "deploy", "batch"}
  /\ pc[c] = "rolling" => req[c].op = "rollback"
  /\ pc[c] \in After => req[c].op \in {"upgrade", "deploy", "batch", "install", "rollback"}
  /\ pc[c] = "uninstalling" => req[c].op = "uninstall"

\* What a bound is needed for: that there is a newest record.
Bounded(f) == \E b \in Nat : \A n \in DOMAIN f : n <= b /\ f[n].revision <= b

Typed(f) == Bounded(f) /\ \A n \in DOMAIN f : n \in Nat \ {0} /\ f[n] \in Record

JobOf(j) ==
  /\ Typed(listed[j])
  /\ jobPc[j] \in {"idle", "listed"} => todo[j] = {}
  /\ jobPc[j] = "deleting" => todo[j] # {}

IsFunction(f) == f = [n \in DOMAIN f |-> f[n]]

JobFunctions == todo = [j \in Job |-> todo[j]] /\ listed = [j \in Job |-> listed[j]]

Types == TypeOK /\ Typed(records) /\ IsFunction(records)

Shapes ==
  /\ Types
  /\ \A c \in Change : OpOf(c)
  /\ JobFunctions /\ \A j \in Job : JobOf(j)

\* Nothing has overlapped with an upgrade or a deploy, and neither a request nor a job with an
\* uninstall.
Orderly == ~Disturbed({"upgrade", "uninstall"})

Alone == \A c, d \in InFlight : c # d => req[c].op = "rollback" /\ req[d].op = "rollback"

Own(n) == n \in DOMAIN made /\ records[n].revision = n /\ records[n].config = made[n]

\* The release that an upgrade has read is still the newest, and pending if Helm has refused
\* for that.
ReadOf(c) ==
  pc[c] \in {"preparing", "stuck", "mapping"} =>
    /\ req[c].rel.revision \in DOMAIN records /\ Own(req[c].rel.revision)
    /\ req[c].rel.config = made[req[c].rel.revision]
    /\ \A m \in DOMAIN records : m <= req[c].rel.revision
    /\ pc[c] = "stuck" => records[req[c].rel.revision].status = "pending"

\* So is the revision that the client has seen, until the next one is made.
ViewOf(c) ==
  req[c].op = "upgrade" /\ req[c].view # 0 =>
    /\ pc[c] \in Before \ {"checking"} =>
         req[c].view \in DOMAIN records /\ \A m \in DOMAIN records : m <= req[c].view
    /\ pc[c] \in After => req[c].revision = req[c].view + 1

\* What an operation is to write is of the revisions that it writes it to.
MakesOf(c) ==
  pc[c] \in After =>
    /\ req[c].revision \in DOMAIN made /\ req[c].config = made[req[c].revision]
    /\ req[c].base = NoRecord \/ /\ req[c].base.revision \in DOMAIN made
                                 /\ req[c].base.config = made[req[c].base.revision]
                                 /\ req[c].base.revision < req[c].revision
    /\ \E m \in DOMAIN records : req[c].revision <= m

\* Jobs leave what is being uninstalled alone, and there is nothing newer than what was read.
RemovesOf(c) ==
  pc[c] = "uninstalling" =>
    /\ Moving = {} /\ DOMAIN records \subseteq req[c].seen
    /\ \A n \in DOMAIN records :
         (\A m \in DOMAIN records : m <= n) => records[n].status = "uninstalling"

\* No job is to move the newest record.
Spares(j) == \A n \in todo[j] : \E m \in DOMAIN records : n < m

RecordsInvariant ==
  Orderly =>
    /\ Alone
    /\ \A n \in DOMAIN records : Own(n)
    /\ \A c \in Change : ReadOf(c) /\ ViewOf(c) /\ MakesOf(c) /\ RemovesOf(c)
    /\ \A j \in Job : Spares(j)

HelmInvariant == Shapes /\ RecordsInvariant

-----------------------------------------------------------------------------
(* Facts about records.                                                    *)

\* Numbers that are bounded have a greatest one.
LEMMA GreatestExists ==
  ASSUME NEW S, NEW f, S # {}, NEW b \in Nat, \A n \in S : f[n] \in Nat /\ f[n] <= b
  PROVE  \E n \in S : \A m \in S : f[m] <= f[n]
<1> DEFINE R == {s \in Nat \X Nat : s[1] < s[2]}
           T == {b - f[n] : n \in S}
<1>1. T \subseteq Nat /\ T # {}
  OBVIOUS
<1>2. IsWellFoundedOn(R, Nat)
  BY NatLessThanWellFounded DEF OpToRel
<1> HIDE DEF R, T
<1>3. PICK x \in T : \A y \in T : ~(<<y, x>> \in R)
  BY <1>1, <1>2, WFMin
<1>4. PICK n \in S : x = b - f[n]
  BY <1>3 DEF T
<1>5. ASSUME NEW m \in S
      PROVE  f[m] <= f[n]
  <2>1. b - f[m] \in T /\ b - f[m] \in Nat /\ x \in Nat
    BY <1>1, <1>3 DEF T
  <2>2. ~(b - f[m] < x)
    BY <2>1, <1>3 DEF R
  <2> QED
    BY <2>2, <1>4
<1> QED
  BY <1>4, <1>5

LEMMA NewestFacts ==
  ASSUME Typed(records), NEW S \in SUBSET DOMAIN records, S # {}
  PROVE  /\ Newest(S) \in S
         /\ \A m \in S : records[m].revision <= records[Newest(S)].revision
<1>1. PICK b \in Nat : \A n \in DOMAIN records : n <= b /\ records[n].revision <= b
  BY DEF Typed, Bounded
<1> DEFINE f == [n \in S |-> records[n].revision]
<1>2. \A n \in S : f[n] \in Nat /\ f[n] <= b
  BY <1>1 DEF Typed, Record
<1>3. \E n \in S : \A m \in S : f[m] <= f[n]
  <2> HIDE DEF f
  <2> QED
    BY <1>2, GreatestExists
<1>4. \E n \in S : \A m \in S : records[m].revision <= records[n].revision
  BY <1>3
<1> QED
  BY <1>4 DEF Newest

LEMMA EmptyRecords ==
  ASSUME IsFunction(records)
  PROVE  records = << >> <=> DOMAIN records = {}
BY DEF IsFunction

\* The latest record, by what the records say.
LEMMA LastFacts ==
  ASSUME Types, DOMAIN records # {}
  PROVE  /\ Last \in DOMAIN records /\ Last \in Nat \ {0}
         /\ records[Last] \in Record
         /\ \A m \in DOMAIN records : records[m].revision <= records[Last].revision
<1>1. /\ Last \in DOMAIN records
      /\ \A m \in DOMAIN records : records[m].revision <= records[Last].revision
  BY NewestFacts DEF Types, Last
<1> QED
  BY <1>1 DEF Types, Typed

\* By the revisions themselves, if each record is of its own.
LEMMA LastIsGreatest ==
  ASSUME Types, DOMAIN records # {}, \A n \in DOMAIN records : Own(n)
  PROVE  /\ Last \in DOMAIN records /\ records[Last].revision = Last
         /\ \A m \in DOMAIN records : m <= Last
BY LastFacts DEF Own

LEMMA BaseFacts ==
  ASSUME Types, DOMAIN records # {}
  PROVE  Base \in DOMAIN records /\ records[Base] \in Record
<1>1. Having("deployed") \in SUBSET DOMAIN records
  BY DEF Having
<1>2. Base \in DOMAIN records
  BY <1>1, LastFacts, NewestFacts DEF Base, Types
<1> QED
  BY <1>2 DEF Types, Typed

\* Records that are written or removed one at a time keep their types.
LEMMA TypedStep ==
  ASSUME Typed(records), NEW k \in Nat \ {0}, NEW r \in Nat,
         DOMAIN records' \subseteq DOMAIN records \cup {k},
         \A n \in DOMAIN records' :
           /\ records'[n] \in Record
           /\ \/ records'[n].revision <= r
              \/ n \in DOMAIN records /\ records'[n].revision = records[n].revision
  PROVE  Typed(records)'
<1>1. PICK b \in Nat : \A n \in DOMAIN records : n <= b /\ records[n].revision <= b
  BY DEF Typed, Bounded
<1>2. b + k + r \in Nat
  BY <1>1
<1>3. ASSUME NEW n \in DOMAIN records'
      PROVE  n <= b + k + r /\ records'[n].revision <= b + k + r
  <2>1. n <= b \/ n = k
    BY <1>1
  <2>2. /\ records'[n].revision \in Nat /\ n \in Nat
        /\ records'[n].revision <= r \/ records'[n].revision <= b
    BY <1>1 DEF Typed, Record
  <2> QED
    BY <2>1, <2>2
<1>4. \E a \in Nat : \A n \in DOMAIN records' : n <= a /\ records'[n].revision <= a
  BY <1>2, <1>3
<1>5. \A n \in DOMAIN records' : n \in Nat \ {0} /\ records'[n] \in Record
  BY DEF Typed
<1> QED
  BY <1>4, <1>5 DEF Typed, Bounded

\* What a job moves next is one of what it has to move, and it has listed it.
LEMMA NextToMoveFacts ==
  ASSUME NEW j \in Job, Types, JobOf(j), todo[j] # {}
  PROVE  /\ NextToMove(j) \in todo[j] /\ \A m \in todo[j] : m <= NextToMove(j)
         /\ NextToMove(j) \in Nat \ {0} /\ listed[j][NextToMove(j)] \in Record
<1>1. todo[j] \subseteq DOMAIN listed[j] /\ Typed(listed[j])
  BY DEF Types, TypeOK, JobOf
<1>2. PICK b \in Nat : \A n \in DOMAIN listed[j] : n <= b
  BY <1>1 DEF Typed, Bounded
<1> DEFINE f == [n \in todo[j] |-> n]
<1>3. \A n \in todo[j] : f[n] \in Nat /\ f[n] <= b
  BY <1>1, <1>2 DEF Typed
<1>4. \E n \in todo[j] : \A m \in todo[j] : f[m] <= f[n]
  <2> HIDE DEF f
  <2> QED
    BY <1>3, GreatestExists
<1>5. NextToMove(j) \in todo[j] /\ \A m \in todo[j] : m <= NextToMove(j)
  BY <1>4 DEF NextToMove
<1> QED
  BY <1>1, <1>5 DEF Typed

-----------------------------------------------------------------------------
(* Types.                                                                  *)

Operations == {"upgrade", "deploy", "batch", "install", "rollback", "uninstall"}

LEMMA InFlightOp ==
  ASSUME Types, NEW c \in InFlight, OpOf(c)
  PROVE  /\ req[c].op \in Operations
         /\ KindOf(req[c].op) \in {"upgrade", "rollback", "uninstall"}
<1>1. c \in Change /\ pc[c] \in Before \cup After \cup {"rolling", "uninstalling"}
  BY DEF InFlight, Types, TypeOK, Before, After
<1>2. req[c].op \in Operations
  BY <1>1 DEF OpOf, Operations
<1> QED
  BY <1>2 DEF KindOf, Operations

\* What begins may disturb others, and undoes nothing that has happened.
LEMMA BeginsFacts ==
  ASSUME Types, \A c \in Change : OpOf(c), NEW what \in Operations, Begins(what)
  PROVE  /\ happened \subseteq happened'
         /\ happened' \subseteq happened \cup {"upgrade", "rollback", "uninstall"}
<1> DEFINE others == {KindOf(req[c].op) : c \in InFlight}
<1>1. others \subseteq {"upgrade", "rollback", "uninstall"}
  <2>1. \A c \in InFlight : OpOf(c)
    BY DEF InFlight
  <2> QED
    BY <2>1, InFlightOp
<1>2. KindOf(what) \in {"upgrade", "rollback", "uninstall"}
  BY DEF KindOf, Operations
<1>3. \/ happened' = happened
      \/ happened' = happened \cup {KindOf(what)} \cup others
  BY DEF Begins
<1> QED
  BY <1>1, <1>2, <1>3

\* A record that is written over one that there is keeps the types.
LEMMA UpdateTyped ==
  ASSUME Types, NEW r \in Record, NEW n \in DOMAIN records, records' = [records EXCEPT ![n] = r]
  PROVE  Typed(records)' /\ IsFunction(records)'
<1>1. r.revision \in Nat /\ n \in Nat \ {0} /\ Typed(records)
  BY DEF Types, Typed, Record
<1>2. DOMAIN records' \subseteq DOMAIN records \cup {n}
  OBVIOUS
<1>3. \A m \in DOMAIN records' :
        /\ records'[m] \in Record
        /\ \/ records'[m].revision <= r.revision
           \/ m \in DOMAIN records /\ records'[m].revision = records[m].revision
  <2> TAKE m \in DOMAIN records'
  <2>1. CASE m = n
    BY <1>1, <2>1
  <2>2. CASE m # n
    BY <1>1, <2>2 DEF Typed
  <2> QED
    BY <2>1, <2>2
<1>4. Typed(records)'
  BY <1>1, <1>2, <1>3, TypedStep
<1> QED
  BY <1>4 DEF Typed, Bounded, IsFunction, Types

LEMMA UpdateInPlace ==
  ASSUME Types, NEW r \in Record, records' = Update(records, r)
  PROVE  Typed(records)' /\ IsFunction(records)'
<1>1. CASE r.revision \in DOMAIN records
  BY <1>1, UpdateTyped DEF Update
<1>2. CASE r.revision \notin DOMAIN records
  <2>1. records' = records
    BY <1>2 DEF Update
  <2> QED
    BY <2>1 DEF Typed, Bounded, IsFunction, Types
<1> QED
  BY <1>1, <1>2

\* Records that are removed, too.
LEMMA WithoutTyped ==
  ASSUME Types, NEW S, records' = Without(records, S)
  PROVE  Typed(records)' /\ IsFunction(records)'
<1>1. /\ DOMAIN records' = DOMAIN records \ S
      /\ \A m \in DOMAIN records' : records'[m] = records[m]
  BY DEF Without
<1>2. Typed(records)
  BY DEF Types
<1>3. \A m \in DOMAIN records' :
        /\ records'[m] \in Record
        /\ \/ records'[m].revision <= 1
           \/ m \in DOMAIN records /\ records'[m].revision = records[m].revision
  BY <1>1, <1>2 DEF Typed
<1>4. DOMAIN records' \subseteq DOMAIN records \cup {1} /\ 1 \in Nat /\ 1 \in Nat \ {0}
  BY <1>1
<1>5. Typed(records)'
  BY <1>2, <1>3, <1>4, TypedStep
<1>6. IsFunction(records')
  BY DEF IsFunction, Without
<1> QED
  BY <1>5, <1>6 DEF Typed, Bounded, IsFunction

\* What an operation makes is the next revision.
LEMMA MakesTyped ==
  ASSUME Types, DOMAIN records # {}, NEW c \in Change, NEW config \in Config, NEW base \in Record,
         Makes(c, config, base)
  PROVE  /\ Typed(records)' /\ IsFunction(records)'
         /\ req' \in [Change -> Request]
<1> DEFINE next == records[Last].revision + 1
<1>1. records[Last] \in Record /\ next \in Nat \ {0}
  BY LastFacts DEF Record
<1> HIDE DEF next
<1>2. CASE next \in DOMAIN records
  <2>1. records' = records /\ req' = [req EXCEPT ![c] = Blank]
    BY <1>2 DEF Makes, Ends, next
  <2>2. Blank \in Request
    BY DEF Blank, Request, NoRecord, Record, Config, First, Value
  <2> QED
    BY <2>1, <2>2 DEF Types, TypeOK, Typed, Bounded, IsFunction
<1>3. CASE next \notin DOMAIN records
  <2> DEFINE r == MakeRecord(next, "pending", config)
  <2>1. /\ records' = Put(records, next, r)
        /\ req' = [req EXCEPT ![c].revision = next, ![c].config = config, ![c].base = base]
    BY <1>3 DEF Makes, next
  <2>2. r \in Record /\ r.revision = next
    BY <1>1 DEF MakeRecord, Record
  <2> HIDE DEF r
  <2>3. /\ DOMAIN records' = DOMAIN records \cup {next}
        /\ records'[next] = r
        /\ \A m \in DOMAIN records : m # next => records'[m] = records[m]
    BY <2>1 DEF Put
  <2>4. Typed(records) /\ next \in Nat
    BY <1>1 DEF Types
  <2>5. \A m \in DOMAIN records' :
          /\ records'[m] \in Record
          /\ \/ records'[m].revision <= next
             \/ m \in DOMAIN records /\ records'[m].revision = records[m].revision
    BY <2>2, <2>3, <2>4 DEF Typed
  <2>6. Typed(records)'
    <3>1. DOMAIN records' \subseteq DOMAIN records \cup {next}
      BY <2>3
    <3> QED
      BY <1>1, <2>4, <2>5, <3>1, TypedStep
  <2>7. IsFunction(records')
    BY <2>1 DEF Put, IsFunction
  <2>8. req' \in [Change -> Request]
    <3>1. req \in [Change -> Request]
      BY DEF Types, TypeOK
    <3> QED
      BY <1>1, <2>1, <3>1, ZenonT(40) DEF Request
  <2> QED
    BY <2>6, <2>7, <2>8 DEF Typed, Bounded, IsFunction
<1> QED
  BY <1>2, <1>3

LEMMA BlankTyped == Blank \in Request /\ NoRecord \in Record /\ First \in Config
BY DEF Blank, Request, NoRecord, Record, Config, First, Value

\* What is left of the types when the jobs do nothing.
Places == Before \cup After \cup {"new", "rolling", "uninstalling", "ended"}
Disturbances == {"upgrade", "rollback", "uninstall", "overwritten", "failure", "crash"}

LEMMA RequestTyped ==
  ASSUME Types, UNCHANGED jobs, Typed(records)', IsFunction(records)',
         runs' \in Config \cup {Nothing}, pc' \in [Change -> Places],
         req' \in [Change -> Request], happened' \subseteq Disturbances
  PROVE  Types'
<1>1. \A n \in DOMAIN records' : n \in Nat \ {0} /\ records'[n] \in Record
  BY DEF Typed
<1>2. /\ \A n \in DOMAIN backup' : n \in Nat \ {0} /\ backup'[n] \in Record
      /\ jobPc' \in [Job -> {"idle", "listed", "moving", "deleting"}]
      /\ \A j \in Job : todo'[j] \subseteq DOMAIN listed'[j]
  BY DEF Types, TypeOK, jobs
<1> QED
  BY <1>1, <1>2 DEF Types, TypeOK, Places, Before, After, Disturbances

LEMMA TypesAsSets ==
  ASSUME Types
  PROVE  /\ Typed(records) /\ IsFunction(records)
         /\ runs \in Config \cup {Nothing} /\ pc \in [Change -> Places]
         /\ req \in [Change -> Request] /\ happened \subseteq Disturbances
BY DEF Types, TypeOK, Places, Before, After, Disturbances

LEMMA SameRecordsTyped ==
  ASSUME Types, records' = records
  PROVE  Typed(records)' /\ IsFunction(records)'
BY DEF Types, Typed, Bounded, IsFunction

\* A request begins.
LEMMA BeginsTyped ==
  ASSUME Types, \A d \in Change : OpOf(d), NEW c \in Change, NEW what \in Operations, Begins(what),
         NEW r \in Request, req' = [req EXCEPT ![c] = r], NEW place \in Places, At(c, place)
  PROVE  /\ pc' \in [Change -> Places] /\ req' \in [Change -> Request]
         /\ happened' \subseteq Disturbances
<1>1. happened' \subseteq Disturbances
  BY BeginsFacts, TypesAsSets DEF Disturbances
<1> QED
  BY <1>1, TypesAsSets DEF At

LEMMA EndsTyped ==
  ASSUME Types, NEW c \in Change, Ends(c)
  PROVE  pc' \in [Change -> Places] /\ req' \in [Change -> Request]
BY TypesAsSets, BlankTyped DEF Ends, At, Places

LEMMA AtTyped ==
  ASSUME Types, NEW c \in Change, NEW place \in Places, At(c, place)
  PROVE  pc' \in [Change -> Places]
BY TypesAsSets DEF At

LEMMA RequestFields ==
  ASSUME Types, NEW c \in Change
  PROVE  /\ req[c] \in Request /\ req[c].config \in Config /\ req[c].rel \in Record
         /\ req[c].base \in Record /\ req[c].revision \in Nat /\ req[c].view \in Nat
BY TypesAsSets DEF Request

LEMMA RecordFields ==
  ASSUME Types, NEW n \in DOMAIN records
  PROVE  /\ n \in Nat \ {0} /\ records[n] \in Record /\ records[n].revision \in Nat
         /\ records[n].config \in Config /\ records[n].config.settings \in Value
         /\ records[n].config.image \in Value /\ records[n].config.paused \in BOOLEAN
BY DEF Types, Typed, Record, Config

\* A deploy sends the values of the newest revision, with another image, and paused or not.
LEMMA DeployFacts ==
  ASSUME Types, NEW c \in Change, Deploy(c) \/ DeployBatch(c)
  PROVE  /\ Last \in DOMAIN records /\ pc[c] = "new" /\ At(c, "reading") /\ records' = records
         /\ \E op \in {"deploy", "batch"}, r \in Request :
              /\ Begins(op) /\ req' = [req EXCEPT ![c] = r] /\ r.op = op
              /\ r.config.settings = records[Last].config.settings
              /\ r.config.paused <=> records[Last].config.paused \/ op = "batch"
<1>1. Last \in DOMAIN records
  BY EmptyRecords, LastFacts DEF Deploy, DeployBatch, Types
<1>2. /\ records[Last].config \in Config
      /\ records[Last].config.paused \in BOOLEAN
  BY <1>1, RecordFields
<1>3. ASSUME NEW config \in Config, NEW op \in {"deploy", "batch"}
      PROVE  /\ [Blank EXCEPT !.op = op, !.config = config] \in Request
             /\ [Blank EXCEPT !.op = op, !.config = config].op = op
             /\ [Blank EXCEPT !.op = op, !.config = config].config = config
  BY <1>3, BlankTyped DEF Request, Blank
<1>4. CASE Deploy(c)
  <2> DEFINE config == [records[Last].config EXCEPT !.image = c]
             r == [Blank EXCEPT !.op = "deploy", !.config = config]
  <2>1. /\ config \in Config /\ config.settings = records[Last].config.settings
        /\ config.paused <=> records[Last].config.paused
    BY <1>2 DEF Config, Value
  <2> HIDE DEF config
  <2>2. Begins("deploy") /\ req' = [req EXCEPT ![c] = r]
    BY <1>4 DEF Deploy, config
  <2>3. r \in Request /\ r.op = "deploy" /\ r.config = config
    BY <1>3, <2>1
  <2> HIDE DEF r
  <2> QED
    BY <1>1, <1>4, <2>1, <2>2, <2>3 DEF Deploy
<1>5. CASE DeployBatch(c)
  <2> DEFINE config == [records[Last].config EXCEPT !.image = c, !.paused = TRUE]
             r == [Blank EXCEPT !.op = "batch", !.config = config]
  <2>1. /\ config \in Config /\ config.settings = records[Last].config.settings
        /\ config.paused
    BY <1>2 DEF Config, Value
  <2> HIDE DEF config
  <2>2. Begins("batch") /\ req' = [req EXCEPT ![c] = r]
    BY <1>5 DEF DeployBatch, config
  <2>3. r \in Request /\ r.op = "batch" /\ r.config = config
    BY <1>3, <2>1
  <2> HIDE DEF r
  <2> QED
    BY <1>1, <1>5, <2>1, <2>2, <2>3 DEF DeployBatch
<1> QED
  BY <1>4, <1>5

\* The handlers.
LEMMA HandlersTyped ==
  ASSUME Types, \A d \in Change : OpOf(d), NEW c \in Change,
         Upgrade(c) \/ CheckRevision(c) \/ Deploy(c) \/ DeployBatch(c) \/ (\E n \in DOMAIN records : Rollback(c, n))
  PROVE  Types'
<1> USE DEF Operations, Places, Before, After
<1>1. /\ Typed(records)' /\ IsFunction(records)' /\ runs' \in Config \cup {Nothing} /\ UNCHANGED jobs
  <2>1. records' = records /\ runs' = runs /\ UNCHANGED jobs
    BY DEF Upgrade, CheckRevision, Deploy, DeployBatch, Rollback
  <2> QED
    BY <2>1, SameRecordsTyped, TypesAsSets
<1>2. CASE Upgrade(c)
  <2>1. PICK paused \in Pausing :
          \/ \E view \in DOMAIN records :
               /\ req' = [req EXCEPT ![c] = [Blank EXCEPT !.op = "upgrade", !.view = view, !.config =
                            [settings |-> c, image |-> records[view].config.image, paused |-> paused]]]
               /\ At(c, "checking")
          \/ /\ req' = [req EXCEPT ![c] = [Blank EXCEPT !.op = "upgrade", !.config =
                          [settings |-> c, image |-> records[Last].config.image, paused |-> paused]]]
             /\ At(c, "reading")
    BY <1>2 DEF Upgrade
  <2>2. paused \in BOOLEAN
    BY HazardAssumption
  <2> DEFINE config(n) == [settings |-> c, image |-> records[n].config.image, paused |-> paused]
  <2>3. \A n \in DOMAIN records : n \in Nat /\ config(n) \in Config
    BY <2>2, RecordFields DEF Config, Value
  <2>4. Last \in DOMAIN records
    BY <1>2, EmptyRecords, LastFacts DEF Upgrade, Types
  <2>5. PICK r \in Request, place \in {"checking", "reading"} :
          req' = [req EXCEPT ![c] = r] /\ At(c, place)
    <3>1. CASE \E view \in DOMAIN records :
                 /\ req' = [req EXCEPT ![c] = [Blank EXCEPT !.op = "upgrade", !.view = view,
                                                           !.config = config(view)]]
                 /\ At(c, "checking")
      <4>1. PICK view \in DOMAIN records :
              /\ req' = [req EXCEPT ![c] = [Blank EXCEPT !.op = "upgrade", !.view = view,
                                                        !.config = config(view)]]
              /\ At(c, "checking")
        BY <3>1
      <4> HIDE DEF config
      <4>2. [Blank EXCEPT !.op = "upgrade", !.view = view, !.config = config(view)] \in Request
        BY <2>3, BlankTyped DEF Request
      <4> QED
        BY <4>1, <4>2
    <3>2. CASE /\ req' = [req EXCEPT ![c] = [Blank EXCEPT !.op = "upgrade", !.config = config(Last)]]
               /\ At(c, "reading")
      <4> HIDE DEF config
      <4>1. [Blank EXCEPT !.op = "upgrade", !.config = config(Last)] \in Request
        BY <2>3, <2>4, BlankTyped DEF Request
      <4> QED
        BY <3>2, <4>1
    <3> QED
      BY <2>1, <3>1, <3>2
  <2>6. Begins("upgrade")
    BY <1>2 DEF Upgrade
  <2> QED
    BY <2>5, <2>6, <1>1, BeginsTyped, RequestTyped
<1>3. CASE CheckRevision(c)
  <2>1. happened' = happened
    BY <1>3 DEF CheckRevision
  <2>2. \/ At(c, "reading") /\ req' = req
        \/ Ends(c)
    BY <1>3 DEF CheckRevision
  <2> QED
    BY <2>1, <2>2, <1>1, AtTyped, EndsTyped, TypesAsSets, RequestTyped
<1>4. CASE Deploy(c) \/ DeployBatch(c)
  <2>1. PICK op \in {"deploy", "batch"}, r \in Request :
          Begins(op) /\ req' = [req EXCEPT ![c] = r] /\ At(c, "reading")
    BY <1>4, DeployFacts
  <2> QED
    BY <2>1, <1>1, BeginsTyped, RequestTyped
<1>5. CASE \E n \in DOMAIN records : Rollback(c, n)
  <2>1. PICK n \in DOMAIN records : Rollback(c, n)
    BY <1>5
  <2> DEFINE r == [Blank EXCEPT !.op = "rollback", !.view = n]
  <2>2. r \in Request
    BY RecordFields, BlankTyped DEF Request
  <2> HIDE DEF r
  <2>3. Begins("rollback") /\ req' = [req EXCEPT ![c] = r] /\ At(c, "rolling")
    BY <2>1 DEF Rollback, r
  <2> QED
    BY <2>2, <2>3, <1>1, BeginsTyped, RequestTyped
<1> QED
  BY <1>2, <1>3, <1>4, <1>5

\* The agent.
LEMMA AgentTyped ==
  ASSUME Types, NEW c \in Change,
         ReadRelease(c) \/ Prepare(c) \/ Refused(c) \/ TakeOver(c) \/ RemapAPIs(c)
  PROVE  Types'
<1> USE DEF Places, Before, After
<1>1. UNCHANGED jobs /\ runs' = runs /\ runs' \in Config \cup {Nothing}
  BY TypesAsSets DEF ReadRelease, Prepare, Refused, TakeOver, RemapAPIs
<1>2. CASE ReadRelease(c)
  <2>1. records' = records /\ happened' = happened
    BY <1>2 DEF ReadRelease
  <2>2. CASE records # << >> /\ req' = [req EXCEPT ![c].rel = records[Last]] /\ At(c, "preparing")
    <3>1. records[Last] \in Record
      BY <2>2, EmptyRecords, LastFacts DEF Types
    <3>2. req' \in [Change -> Request]
      BY <2>2, <3>1, TypesAsSets, ZenonT(40) DEF Request
    <3> QED
      BY <1>1, <2>1, <2>2, <3>2, AtTyped, SameRecordsTyped, TypesAsSets, RequestTyped
  <2>3. CASE Ends(c)
    BY <1>1, <2>1, <2>3, EndsTyped, SameRecordsTyped, TypesAsSets, RequestTyped
  <2> QED
    BY <1>2, <2>2, <2>3 DEF ReadRelease
<1>3. CASE Prepare(c)
  <2>1. Makes(c, req[c].config, records[Base]) /\ happened' = happened /\ DOMAIN records # {}
    BY <1>3, EmptyRecords DEF Prepare, Upgradable, Types
  <2>2. req[c].config \in Config /\ records[Base] \in Record
    BY <2>1, BaseFacts, RequestFields
  <2>3. Typed(records)' /\ IsFunction(records)' /\ req' \in [Change -> Request]
    BY <2>1, <2>2, MakesTyped
  <2>4. pc' \in [Change -> Places]
    <3>1. At(c, "applying") \/ Ends(c)
      BY <2>1 DEF Makes
    <3> QED
      BY <3>1, AtTyped, EndsTyped
  <2> QED
    BY <1>1, <2>1, <2>3, <2>4, TypesAsSets, RequestTyped
<1>4. CASE Refused(c)
  <2>1. records' = records /\ happened' = happened
    BY <1>4 DEF Refused
  <2>2. \/ At(c, "stuck") /\ req' = req
        \/ At(c, "mapping") /\ req' = req
        \/ Ends(c)
    BY <1>4 DEF Refused
  <2> QED
    BY <1>1, <2>1, <2>2, AtTyped, EndsTyped, SameRecordsTyped, TypesAsSets, RequestTyped
<1>5. CASE TakeOver(c)
  <2> DEFINE n == Newest(Having("pending"))
             r == [req[c].rel EXCEPT !.status = "failed", !.old = FALSE]
  <2>1. r \in Record
    BY RequestFields DEF Record
  <2>2. CASE /\ Having("pending") # {}
             /\ records' = [records EXCEPT ![n] = r]
             /\ At(c, "retrying") /\ UNCHANGED req
             /\ happened' = happened \cup Overwrites(c, n)
    <3>1. Having("pending") \in SUBSET DOMAIN records
      BY DEF Having
    <3>2. n \in DOMAIN records
      BY <2>2, <3>1, NewestFacts, TypesAsSets
    <3>3. happened' \subseteq Disturbances
      BY <2>2, TypesAsSets DEF Overwrites, Disturbances
    <3>4. Typed(records)' /\ IsFunction(records)'
      <4> HIDE DEF r, n
      <4> QED
        BY <2>1, <2>2, <3>2, UpdateTyped
    <3> QED
      BY <1>1, <2>2, <3>3, <3>4, AtTyped, TypesAsSets, RequestTyped
  <2>3. CASE Ends(c) /\ UNCHANGED <<records, happened>>
    BY <1>1, <2>3, EndsTyped, SameRecordsTyped, TypesAsSets, RequestTyped
  <2> QED
    BY <1>5, <2>2, <2>3 DEF TakeOver
<1>6. CASE RemapAPIs(c)
  <2>1. At(c, "retrying") /\ req' = req
    BY <1>6 DEF RemapAPIs
  <2>2. Typed(records)' /\ IsFunction(records)' /\ happened' \subseteq Disturbances
    <3>1. CASE records = << >>
      BY <1>6, <3>1, SameRecordsTyped, TypesAsSets DEF RemapAPIs
    <3>2. CASE records # << >>
      <4>1. Last \in DOMAIN records
        BY <3>2, EmptyRecords, LastFacts DEF Types
      <4>2. /\ records' = [records EXCEPT ![Last] = req[c].rel]
            /\ happened' = happened \cup Overwrites(c, Last)
        BY <1>6, <3>2 DEF RemapAPIs
      <4>3. happened' \subseteq Disturbances
        BY <4>2, TypesAsSets DEF Overwrites, Disturbances
      <4> QED
        BY <4>1, <4>2, <4>3, RequestFields, UpdateTyped
    <3> QED
      BY <3>1, <3>2
  <2> QED
    BY <1>1, <2>1, <2>2, AtTyped, TypesAsSets, RequestTyped
<1> QED
  BY <1>2, <1>3, <1>4, <1>5, <1>6

\* Helm.
LEMMA MadeTyped ==
  ASSUME NEW n \in Nat, NEW status \in {"pending", "deployed", "superseded", "failed", "uninstalling"},
         NEW config \in Config
  PROVE  MakeRecord(n, status, config) \in Record /\ MakeRecord(n, status, config).revision = n
BY DEF MakeRecord, Record

LEMMA HelmTyped ==
  ASSUME Types, \A d \in Change : OpOf(d), NEW c \in Change,
         \/ PrepareRollback(c) \/ Install(c) \/ Apply(c) \/ ApplyFails(c) \/ Supersede(c)
         \/ RecordDeployed(c)
  PROVE  Types'
<1> USE DEF Places, Before, After
<1>1. UNCHANGED jobs
  BY DEF PrepareRollback, Install, Apply, ApplyFails, Supersede, RecordDeployed
<1>2. CASE PrepareRollback(c)
  <2>1. runs' = runs /\ happened' = happened
    BY <1>2 DEF PrepareRollback
  <2>2. CASE req[c].view \in DOMAIN records
    <3>1. Makes(c, records[req[c].view].config, records[Last])
      BY <1>2, <2>2 DEF PrepareRollback
    <3>2. records[req[c].view].config \in Config /\ records[Last] \in Record
      BY <2>2, RecordFields, LastFacts
    <3>3. Typed(records)' /\ IsFunction(records)' /\ req' \in [Change -> Request]
      BY <2>2, <3>1, <3>2, MakesTyped
    <3>4. pc' \in [Change -> Places]
      <4>1. At(c, "applying") \/ Ends(c)
        BY <3>1 DEF Makes
      <4> QED
        BY <4>1, AtTyped, EndsTyped
    <3> QED
      BY <1>1, <2>1, <3>3, <3>4, TypesAsSets, RequestTyped
  <2>3. CASE Ends(c) /\ UNCHANGED records
    BY <1>1, <2>1, <2>3, EndsTyped, SameRecordsTyped, TypesAsSets, RequestTyped
  <2> QED
    BY <1>2, <2>2, <2>3 DEF PrepareRollback
<1>3. CASE Install(c)
  <2> DEFINE config == [settings |-> c, image |-> c, paused |-> FALSE]
             r == [Blank EXCEPT !.op = "install", !.revision = 1, !.config = config]
             first == MakeRecord(1, "pending", config)
  <2>1. config \in Config
    BY DEF Config, Value
  <2>2. first \in Record /\ first.revision = 1
    <3> HIDE DEF config
    <3> QED
      BY <2>1, MadeTyped
  <2>3. r \in Request
    <3> HIDE DEF config
    <3> QED
      BY <2>1, BlankTyped DEF Request
  <2>4. /\ Begins("install") /\ At(c, "applying") /\ runs' = runs
        /\ records' = [n \in {1} |-> first] /\ req' = [req EXCEPT ![c] = r]
    BY <1>3 DEF Install
  <2> HIDE DEF r, first
  <2>5. Typed(records)' /\ IsFunction(records)'
    BY <2>2, <2>4 DEF Typed, Bounded, IsFunction
  <2>6. /\ pc' \in [Change -> Places] /\ req' \in [Change -> Request]
        /\ happened' \subseteq Disturbances
    BY <2>3, <2>4, BeginsTyped DEF Operations
  <2> QED
    BY <1>1, <2>4, <2>5, <2>6, TypesAsSets, RequestTyped
<1>4. CASE Apply(c)
  <2>1. /\ records' = records /\ req' = req /\ happened' = happened /\ At(c, "replacing")
        /\ runs' \in Config
    BY <1>4, RequestFields DEF Apply
  <2> QED
    BY <1>1, <2>1, AtTyped, SameRecordsTyped, TypesAsSets, RequestTyped
<1>5. CASE ApplyFails(c)
  <2> DEFINE r == MakeRecord(req[c].revision, "failed", req[c].config)
             failed == Update(records, r)
             s == [req[c].base EXCEPT !.status = "superseded"]
  <2>1. r \in Record /\ s \in Record
    <3>1. s \in Record
      BY RequestFields DEF Record
    <3> QED
      BY <3>1, MadeTyped, RequestFields
  <2>2. /\ Ends(c) /\ happened' = happened \cup {"failure"}
        /\ runs' \in {runs, req[c].config}
        /\ records' = IF req[c].op = "rollback" THEN Update(failed, s) ELSE failed
    BY <1>5 DEF ApplyFails
  <2> HIDE DEF r, s
  <2>3. Typed(records)' /\ IsFunction(records)'
    <3>1. /\ DOMAIN records' = DOMAIN records
          /\ \A n \in DOMAIN records : records'[n] \in {records[n], r, s}
      BY <2>2 DEF Update
    <3>2. r.revision \in Nat /\ s.revision \in Nat /\ Typed(records)
      BY <2>1, TypesAsSets DEF Record
    <3> DEFINE sum == r.revision + s.revision
    <3>3. \A n \in DOMAIN records' :
            /\ records'[n] \in Record
            /\ \/ records'[n].revision <= sum
               \/ n \in DOMAIN records /\ records'[n].revision = records[n].revision
      <4> TAKE n \in DOMAIN records'
      <4>1. records'[n] = records[n] \/ records'[n] = r \/ records'[n] = s
        BY <3>1
      <4>2. n \in DOMAIN records /\ records[n] \in Record
        BY <3>1, <3>2 DEF Typed
      <4> QED
        BY <2>1, <3>2, <4>1, <4>2
    <3>4. DOMAIN records' \subseteq DOMAIN records \cup {1} /\ 1 \in Nat \ {0}
      BY <3>1
    <3>5. Typed(records)'
      <4>1. sum \in Nat
        BY <3>2
      <4> HIDE DEF sum
      <4> QED
        BY <3>2, <3>3, <3>4, <4>1, TypedStep
    <3>6. IsFunction(records)'
      BY <2>2, TypesAsSets DEF Update, IsFunction
    <3> QED
      BY <3>5, <3>6
  <2>4. runs' \in Config \cup {Nothing} /\ happened' \subseteq Disturbances
    BY <2>2, TypesAsSets, RequestFields DEF Disturbances
  <2> QED
    BY <1>1, <2>2, <2>3, <2>4, EndsTyped, RequestTyped
<1>6. CASE Supersede(c)
  <2>1. req' = req /\ runs' = runs /\ happened' = happened /\ At(c, "recording")
    BY <1>6 DEF Supersede
  <2>2. Typed(records)' /\ IsFunction(records)'
    <3>1. CASE req[c].op = "rollback"
      <4>1. records' = [n \in DOMAIN records |->
                          IF n \in Having("deployed") THEN [records[n] EXCEPT !.status = "superseded"]
                          ELSE records[n]]
        BY <1>6, <3>1 DEF Supersede
      <4>2. DOMAIN records' = DOMAIN records /\ IsFunction(records)'
        BY <4>1 DEF IsFunction
      <4>3. \A n \in DOMAIN records' :
              /\ records'[n] \in Record
              /\ \/ records'[n].revision <= 0
                 \/ n \in DOMAIN records /\ records'[n].revision = records[n].revision
        <5> TAKE n \in DOMAIN records'
        <5>1. n \in DOMAIN records /\ records[n] \in Record
          BY <4>2, RecordFields
        <5>2. \/ records'[n] = [records[n] EXCEPT !.status = "superseded"]
              \/ records'[n] = records[n]
          BY <4>1, <5>1
        <5> QED
          BY <5>1, <5>2 DEF Record
      <4>4. DOMAIN records' \subseteq DOMAIN records \cup {1} /\ 1 \in Nat \ {0} /\ 0 \in Nat
        BY <4>2
      <4> QED
        BY <4>2, <4>3, <4>4, TypedStep, TypesAsSets
    <3>2. CASE req[c].op # "rollback"
      <4> DEFINE s == [req[c].base EXCEPT !.status = "superseded"]
      <4>1. s \in Record
        BY RequestFields DEF Record
      <4>2. records' = Update(records, s)
        BY <1>6, <3>2 DEF Supersede
      <4> HIDE DEF s
      <4> QED
        BY <4>1, <4>2, UpdateInPlace
    <3> QED
      BY <3>1, <3>2
  <2> QED
    BY <1>1, <2>1, <2>2, AtTyped, TypesAsSets, RequestTyped
<1>7. CASE RecordDeployed(c)
  <2> DEFINE r == MakeRecord(req[c].revision, "deployed", req[c].config)
  <2>1. r \in Record
    BY MadeTyped, RequestFields
  <2>2. records' = Update(records, r) /\ Ends(c) /\ runs' = runs /\ happened' = happened
    BY <1>7 DEF RecordDeployed
  <2> HIDE DEF r
  <2> QED
    BY <1>1, <2>1, <2>2, UpdateInPlace, EndsTyped, TypesAsSets, RequestTyped
<1> QED
  BY <1>2, <1>3, <1>4, <1>5, <1>6, <1>7

LEMMA RemovalTyped ==
  ASSUME Types, \A d \in Change : OpOf(d), NEW c \in Change, Uninstall(c) \/ Purge(c) \/ Crash(c)
  PROVE  Types'
<1> USE DEF Places, Before, After
<1>1. UNCHANGED jobs
  BY DEF Uninstall, Purge, Crash
<1>2. CASE Uninstall(c)
  <2> DEFINE r == [Blank EXCEPT !.op = "uninstall", !.seen = DOMAIN records]
             s == [records[Last] EXCEPT !.status = "uninstalling"]
  <2>1. Last \in DOMAIN records
    BY <1>2, EmptyRecords, LastFacts DEF Uninstall, Types
  <2>2. DOMAIN records \subseteq Nat
    BY RecordFields
  <2>3. r \in Request /\ s \in Record
    <3>1. r \in Request
      BY <2>2, BlankTyped DEF Request
    <3>2. s \in Record
      BY <2>1, RecordFields DEF Record
    <3> QED
      BY <3>1, <3>2
  <2>4. /\ Begins("uninstall") /\ At(c, "uninstalling") /\ runs' = runs
        /\ req' = [req EXCEPT ![c] = r] /\ records' = [records EXCEPT ![Last] = s]
    BY <1>2 DEF Uninstall
  <2> HIDE DEF r, s
  <2>5. Typed(records)' /\ IsFunction(records)'
    BY <2>1, <2>3, <2>4, UpdateTyped
  <2>6. /\ pc' \in [Change -> Places] /\ req' \in [Change -> Request]
        /\ happened' \subseteq Disturbances
    BY <2>3, <2>4, BeginsTyped DEF Operations
  <2> QED
    BY <1>1, <2>4, <2>5, <2>6, TypesAsSets, RequestTyped
<1>3. CASE Purge(c)
  <2>1. /\ records' = Without(records, req[c].seen) /\ Ends(c)
        /\ runs' = Nothing /\ happened' = happened
    BY <1>3 DEF Purge
  <2> QED
    BY <1>1, <2>1, WithoutTyped, EndsTyped, TypesAsSets, RequestTyped
<1>4. CASE Crash(c)
  <2>1. records' = records /\ runs' = runs /\ Ends(c) /\ happened' = happened \cup {"crash"}
    BY <1>4 DEF Crash
  <2>2. happened' \subseteq Disturbances
    BY <2>1, TypesAsSets DEF Disturbances
  <2> QED
    BY <1>1, <2>1, <2>2, SameRecordsTyped, EndsTyped, TypesAsSets, RequestTyped
<1> QED
  BY <1>2, <1>3, <1>4

\* The jobs.
LEMMA JobTyped ==
  ASSUME Types, UNCHANGED <<requests, happened>>, Typed(records)', IsFunction(records)',
         \A n \in DOMAIN backup' : n \in Nat \ {0} /\ backup'[n] \in Record,
         jobPc' \in [Job -> {"idle", "listed", "moving", "deleting"}],
         \A j \in Job : todo'[j] \subseteq DOMAIN listed'[j]
  PROVE  Types'
<1>1. \A n \in DOMAIN records' : n \in Nat \ {0} /\ records'[n] \in Record
  BY DEF Typed
<1> QED
  BY <1>1 DEF Types, TypeOK, requests

LEMMA JobFields ==
  ASSUME Types
  PROVE  /\ jobPc \in [Job -> {"idle", "listed", "moving", "deleting"}]
         /\ \A j \in Job : todo[j] \subseteq DOMAIN listed[j]
         /\ \A n \in DOMAIN backup : n \in Nat \ {0} /\ backup[n] \in Record
BY DEF Types, TypeOK

LEMMA JobsTyped ==
  ASSUME Types, JobFunctions, \A j \in Job : JobOf(j), NEW j \in Job,
         List(j) \/ ReadHistory(j) \/ BackUp(j) \/ DeleteRevision(j) \/ MoveFails(j) \/ JobEnds(j)
  PROVE  Types' /\ JobFunctions' /\ \A i \in Job : JobOf(i)'
<1>1. CASE ReadHistory(j)
  <2> DEFINE S == Exceeding
             f == [n \in S |-> records[n]]
  <2>1. /\ jobPc' = [jobPc EXCEPT ![j] = "moving"] /\ listed' = [listed EXCEPT ![j] = f]
        /\ todo' = [todo EXCEPT ![j] = S]
        /\ UNCHANGED <<records, requests, backup, made, happened>>
    BY <1>1 DEF ReadHistory
  <2>2. S \subseteq DOMAIN records
    BY DEF Exceeding
  <2>8. DOMAIN f = S /\ Typed(f)
    BY <2>2, TypesAsSets DEF Typed, Bounded
  <2> HIDE DEF S, f
  <2>3. JobFunctions'
    BY <2>1 DEF JobFunctions
  <2>4. /\ listed'[j] = f /\ todo'[j] = S /\ jobPc'[j] = "moving"
        /\ \A i \in Job \ {j} : listed'[i] = listed[i] /\ todo'[i] = todo[i] /\ jobPc'[i] = jobPc[i]
    BY <2>1, JobFields DEF JobFunctions
  <2>5. \A i \in Job : todo'[i] \subseteq DOMAIN listed'[i]
    BY <2>4, <2>8, JobFields
  <2>6. Types'
    BY <2>1, <2>5, SameRecordsTyped, JobFields, JobTyped
  <2>7. \A i \in Job : JobOf(i)'
    BY <2>4, <2>8, TypesAsSets DEF JobOf, Typed, Bounded
  <2> QED
    BY <2>3, <2>6, <2>7
<1>2. CASE BackUp(j)
  <2> DEFINE n == NextToMove(j)
  <2>1. /\ todo[j] # {} /\ backup' = Put(backup, n, listed[j][n])
        /\ jobPc' = [jobPc EXCEPT ![j] = "deleting"]
        /\ UNCHANGED <<records, requests, listed, todo, made, happened>>
    BY <1>2 DEF BackUp
  <2>2. n \in Nat \ {0} /\ listed[j][n] \in Record
    BY <2>1, NextToMoveFacts
  <2> HIDE DEF n
  <2>3. \A m \in DOMAIN backup' : m \in Nat \ {0} /\ backup'[m] \in Record
    BY <2>1, <2>2, JobFields DEF Put
  <2>4. Types'
    BY <2>1, <2>3, SameRecordsTyped, JobFields, JobTyped
  <2>5. JobFunctions' /\ \A i \in Job : JobOf(i)'
    BY <2>1, JobFields DEF JobFunctions, JobOf, Typed, Bounded
  <2> QED
    BY <2>4, <2>5
<1>3. CASE DeleteRevision(j) \/ MoveFails(j)
  <2> DEFINE n == NextToMove(j)
  <2>1. /\ jobPc' = [jobPc EXCEPT ![j] = "moving"]
        /\ todo' = [todo EXCEPT ![j] = @ \ {n}]
        /\ UNCHANGED <<requests, backup, listed, made, happened>>
    BY <1>3 DEF DeleteRevision, MoveFails, Skips
  <2>2. records' = records \/ records' = Without(records, {n})
    BY <1>3 DEF DeleteRevision, MoveFails
  <2> HIDE DEF n
  <2>3. JobFunctions' /\ \A i \in Job : todo'[i] \subseteq todo[i]
    BY <2>1 DEF JobFunctions
  <2>4. Typed(records)' /\ IsFunction(records)'
    BY <2>2, SameRecordsTyped, WithoutTyped
  <2>5. Types'
    BY <2>1, <2>3, <2>4, JobFields, JobTyped
  <2>6. \A i \in Job : JobOf(i)'
    BY <2>1, JobFields DEF JobFunctions, JobOf, Typed, Bounded
  <2> QED
    BY <2>3, <2>5, <2>6
<1>4. CASE JobEnds(j)
  <2>1. /\ jobPc' = [jobPc EXCEPT ![j] = "idle"]
        /\ listed' = [listed EXCEPT ![j] = << >>] /\ todo' = [todo EXCEPT ![j] = {}]
        /\ UNCHANGED <<records, requests, backup, made, happened>>
    BY <1>4 DEF JobEnds
  <2>2. JobFunctions'
    BY <2>1 DEF JobFunctions
  <2>3. /\ listed'[j] = << >> /\ todo'[j] = {} /\ jobPc'[j] = "idle"
        /\ \A i \in Job \ {j} : listed'[i] = listed[i] /\ todo'[i] = todo[i] /\ jobPc'[i] = jobPc[i]
    BY <2>1, JobFields DEF JobFunctions
  <2>4. \A i \in Job : todo'[i] \subseteq DOMAIN listed'[i]
    BY <2>3, JobFields
  <2>5. Types'
    BY <2>1, <2>4, SameRecordsTyped, JobFields, JobTyped
  <2>6. ASSUME NEW i \in Job
        PROVE  JobOf(i)'
    <3>1. CASE i = j
      <4>1. DOMAIN listed'[i] = {}
        BY <2>3, <3>1
      <4>2. \E b \in Nat : \A m \in DOMAIN listed'[i] : m <= b /\ listed'[i][m].revision <= b
        BY <4>1
      <4> QED
        BY <2>3, <3>1, <4>1, <4>2 DEF JobOf, Typed, Bounded
    <3>2. CASE i # j
      BY <2>3, <3>2 DEF JobOf, Typed, Bounded
    <3> QED
      BY <3>1, <3>2
  <2> QED
    BY <2>2, <2>5, <2>6
<1>5. CASE List(j)
  <2>1. /\ jobPc' = [jobPc EXCEPT ![j] = "listed"] /\ jobPc[j] = "idle"
        /\ UNCHANGED <<records, requests, backup, listed, todo, made>>
    BY <1>5 DEF List
  <2>2. happened' \subseteq Disturbances
    BY <1>5, TypesAsSets DEF List, Disturbances
  <2>3. Types'
    BY <2>1, <2>2, SameRecordsTyped, JobFields DEF Types, TypeOK, requests, Disturbances
  <2>4. JobFunctions' /\ \A i \in Job : JobOf(i)'
    BY <2>1, JobFields DEF JobFunctions, JobOf, Typed, Bounded
  <2> QED
    BY <2>3, <2>4
<1> QED
  BY <1>1, <1>2, <1>3, <1>4, <1>5

LEMMA AgesTyped ==
  ASSUME Types, NEW n \in DOMAIN records, Ages(n)
  PROVE  Types'
<1> DEFINE r == [records[n] EXCEPT !.old = TRUE]
<1>1. r \in Record
  BY RecordFields DEF Record
<1>2. records' = [records EXCEPT ![n] = r] /\ UNCHANGED <<requests, jobs, happened>>
  BY DEF Ages
<1> HIDE DEF r
<1>3. Typed(records)' /\ IsFunction(records)'
  BY <1>1, <1>2, UpdateTyped
<1> QED
  BY <1>2, <1>3, TypesAsSets, RequestTyped DEF requests

LEMMA SameJobs ==
  ASSUME JobFunctions, \A j \in Job : JobOf(j), UNCHANGED jobs
  PROVE  JobFunctions' /\ \A j \in Job : JobOf(j)'
BY DEF JobFunctions, JobOf, Typed, Bounded, jobs

-----------------------------------------------------------------------------
(* The steps.                                                              *)

Step(c) ==
  \/ Upgrade(c) \/ CheckRevision(c) \/ Deploy(c) \/ DeployBatch(c) \/ ReadRelease(c) \/ Prepare(c) \/ Refused(c)
  \/ TakeOver(c) \/ RemapAPIs(c) \/ PrepareRollback(c) \/ Install(c) \/ Apply(c)
  \/ ApplyFails(c) \/ Supersede(c) \/ RecordDeployed(c) \/ Uninstall(c) \/ Purge(c) \/ Crash(c)
  \/ \E n \in DOMAIN records : Rollback(c, n)

JobStep(j) == List(j) \/ ReadHistory(j) \/ BackUp(j) \/ DeleteRevision(j) \/ MoveFails(j) \/ JobEnds(j)

LEMMA NextSteps ==
  ASSUME Next
  PROVE  \/ \E c \in Change : Step(c)
         \/ \E j \in Job : JobStep(j)
         \/ \E n \in DOMAIN records : Ages(n)
BY DEF Next, Step, JobStep

\* A request changes nothing of another one.
LEMMA OthersUnchanged ==
  ASSUME Types, NEW c \in Change, Step(c), NEW d \in Change, c # d
  PROVE  pc'[d] = pc[d] /\ req'[d] = req[d]
<1>1. pc \in [Change -> Places] /\ req \in [Change -> Request]
  BY TypesAsSets
<1>2. CASE Upgrade(c) \/ CheckRevision(c) \/ Deploy(c) \/ DeployBatch(c) \/ ReadRelease(c) \/ Refused(c)
  BY <1>1, <1>2 DEF Upgrade, CheckRevision, Deploy, DeployBatch, ReadRelease, Refused, At, Ends
<1>3. CASE Prepare(c) \/ PrepareRollback(c) \/ TakeOver(c) \/ RemapAPIs(c)
  BY <1>1, <1>3 DEF Prepare, PrepareRollback, Makes, TakeOver, RemapAPIs, At, Ends
<1>4. CASE Install(c) \/ Apply(c) \/ ApplyFails(c) \/ Supersede(c) \/ RecordDeployed(c)
  BY <1>1, <1>4 DEF Install, Apply, ApplyFails, Supersede, RecordDeployed, At, Ends
<1>5. CASE Uninstall(c) \/ Purge(c) \/ Crash(c) \/ \E n \in DOMAIN records : Rollback(c, n)
  BY <1>1, <1>5 DEF Uninstall, Purge, Crash, Rollback, At, Ends
<1> QED
  BY <1>2, <1>3, <1>4, <1>5 DEF Step

\* Each place is reached from one of the same operation.
LEMMA OpKept ==
  ASSUME Types, NEW c \in Change, OpOf(c), Step(c)
  PROVE  OpOf(c)'
<1> USE DEF OpOf, Before, After
<1>1. pc \in [Change -> Places] /\ req \in [Change -> Request]
  BY TypesAsSets
<1>2. CASE Upgrade(c)
  BY <1>1, <1>2 DEF Upgrade, At, Blank
<1>3. CASE Deploy(c) \/ DeployBatch(c) \/ (\E n \in DOMAIN records : Rollback(c, n)) \/ Install(c) \/ Uninstall(c)
  BY <1>1, <1>3 DEF Deploy, DeployBatch, Rollback, Install, Uninstall, At, Blank
<1>4. CASE CheckRevision(c) \/ ReadRelease(c) \/ Refused(c)
  BY <1>1, <1>4 DEF CheckRevision, ReadRelease, Refused, At, Ends, Request
<1>5. CASE TakeOver(c) \/ RemapAPIs(c) \/ Apply(c) \/ Supersede(c)
  BY <1>1, <1>5 DEF TakeOver, RemapAPIs, Apply, Supersede, At, Ends
<1>6. CASE ApplyFails(c) \/ RecordDeployed(c) \/ Purge(c) \/ Crash(c)
  BY <1>1, <1>6 DEF ApplyFails, RecordDeployed, Purge, Crash, At, Ends
<1>7. CASE Prepare(c)
  <2>1. Makes(c, req[c].config, records[Base])
    BY <1>7 DEF Prepare
  <2>2. pc'[c] = "ended" \/ (pc'[c] = "applying" /\ req'[c].op = req[c].op)
    BY <1>1, <2>1 DEF Makes, At, Ends, Request
  <2>3. req[c].op \in {"upgrade", "deploy", "batch"}
    BY <1>7 DEF Prepare
  <2> QED
    BY <2>2, <2>3
<1>8. CASE PrepareRollback(c)
  <2>1. pc'[c] = "ended" \/ (pc'[c] = "applying" /\ req'[c].op = req[c].op)
    BY <1>1, <1>8 DEF PrepareRollback, Makes, At, Ends, Request
  <2> QED
    BY <1>8, <2>1 DEF PrepareRollback
<1> QED
  BY <1>2, <1>3, <1>4, <1>5, <1>6, <1>7, <1>8 DEF Step

LEMMA StepKeepsShapes ==
  ASSUME Shapes, NEW c \in Change, Step(c)
  PROVE  Shapes'
<1>1. Types /\ (\A d \in Change : OpOf(d)) /\ JobFunctions /\ \A j \in Job : JobOf(j)
  BY DEF Shapes
<1>2. Types'
  <2>1. CASE Upgrade(c) \/ CheckRevision(c) \/ Deploy(c) \/ DeployBatch(c) \/ (\E n \in DOMAIN records : Rollback(c, n))
    BY <1>1, <2>1, HandlersTyped
  <2>2. CASE ReadRelease(c) \/ Prepare(c) \/ Refused(c) \/ TakeOver(c) \/ RemapAPIs(c)
    BY <1>1, <2>2, AgentTyped
  <2>3. CASE \/ PrepareRollback(c) \/ Install(c) \/ Apply(c) \/ ApplyFails(c) \/ Supersede(c)
             \/ RecordDeployed(c)
    BY <1>1, <2>3, HelmTyped
  <2>4. CASE Uninstall(c) \/ Purge(c) \/ Crash(c)
    BY <1>1, <2>4, RemovalTyped
  <2> QED
    BY <2>1, <2>2, <2>3, <2>4 DEF Step
<1>3. ASSUME NEW d \in Change
      PROVE  OpOf(d)'
  <2>1. CASE d = c
    BY <1>1, <2>1, OpKept
  <2>2. CASE d # c
    <3>1. pc'[d] = pc[d] /\ req'[d] = req[d]
      BY <1>1, <2>2, OthersUnchanged
    <3> QED
      BY <1>1, <3>1 DEF OpOf
  <2> QED
    BY <2>1, <2>2
<1>4. UNCHANGED jobs
  BY DEF Step, Upgrade, CheckRevision, Deploy, DeployBatch, ReadRelease, Prepare, Refused, TakeOver, RemapAPIs,
         PrepareRollback, Install, Apply, ApplyFails, Supersede, RecordDeployed, Uninstall, Purge,
         Crash, Rollback
<1> QED
  BY <1>1, <1>2, <1>3, <1>4, SameJobs DEF Shapes

LEMMA ShapesKept ==
  ASSUME Shapes, [Next]_vars
  PROVE  Shapes'
<1>1. Types /\ (\A d \in Change : OpOf(d)) /\ JobFunctions /\ \A j \in Job : JobOf(j)
  BY DEF Shapes
<1>2. ASSUME NEW j \in Job, JobStep(j)
      PROVE  Shapes'
  <2>1. Types' /\ JobFunctions' /\ \A i \in Job : JobOf(i)'
    BY <1>1, <1>2, JobsTyped DEF JobStep
  <2>2. UNCHANGED requests
    BY <1>2 DEF JobStep, List, ReadHistory, BackUp, DeleteRevision, MoveFails, JobEnds
  <2> QED
    BY <1>1, <2>1, <2>2 DEF Shapes, OpOf, requests
<1>3. ASSUME NEW n \in DOMAIN records, Ages(n)
      PROVE  Shapes'
  <2>1. Types' /\ UNCHANGED <<requests, jobs>>
    BY <1>1, <1>3, AgesTyped DEF Ages
  <2> QED
    BY <1>1, <2>1, SameJobs DEF Shapes, OpOf, requests
<1>4. CASE UNCHANGED vars
  <2>1. TypeOK'
    BY <1>1, <1>4 DEF Types, TypeOK, vars
  <2> QED
    BY <1>1, <1>4, <2>1, SameRecordsTyped, SameJobs DEF Shapes, Types, OpOf, vars, jobs
<1> QED
  BY <1>2, <1>3, <1>4, NextSteps, StepKeepsShapes

LEMMA InitShapes ==
  ASSUME Init
  PROVE  Shapes
<1>1. PICK n \in 0..Keep + 1, last \in {"deployed", "failed", "pending"} :
        records = [m \in 1..n |->
            MakeRecord(m, IF m = n THEN last
                          ELSE IF m = n - 1 /\ last # "deployed" THEN "deployed" ELSE "superseded", First)]
  BY DEF Init
<1>2. Typed(records) /\ IsFunction(records)
  <2>1. \A m \in DOMAIN records :
          m \in Nat \ {0} /\ records[m] \in Record /\ records[m].revision = m /\ m <= n
    <3> TAKE m \in DOMAIN records
    <3>1. m \in Nat /\ m # 0 /\ m <= n
      BY <1>1, KeepAssumption
    <3>2. PICK status \in {"pending", "deployed", "superseded", "failed", "uninstalling"} :
            records[m] = MakeRecord(m, status, First)
      BY <1>1
    <3> QED
      BY <3>1, <3>2, MadeTyped, BlankTyped
  <2>2. n \in Nat
    BY KeepAssumption
  <2>3. Bounded(records)
    <3>1. \A m \in DOMAIN records : m <= n /\ records[m].revision <= n
      BY <2>1
    <3> QED
      BY <2>2, <3>1 DEF Bounded
  <2>4. IsFunction(records)
    BY <1>1 DEF IsFunction
  <2> QED
    BY <2>1, <2>3, <2>4 DEF Typed
<1>3. Types
  <2>1. DOMAIN backup = {}
    BY DEF Init
  <2>2. \A m \in DOMAIN records : m \in Nat \ {0} /\ records[m] \in Record
    BY <1>2 DEF Typed
  <2>3. runs \in Config \cup {Nothing}
    BY BlankTyped DEF Init
  <2>4. /\ pc = [c \in Change |-> "new"] /\ req = [c \in Change |-> Blank]
        /\ jobPc = [j \in Job |-> "idle"] /\ todo = [j \in Job |-> {}] /\ happened = {}
    BY DEF Init
  <2> QED
    BY <1>2, <2>1, <2>2, <2>3, <2>4, BlankTyped DEF Types, TypeOK
<1>4. \A c \in Change : OpOf(c)
  BY DEF Init, OpOf, Before, After
<1>5. JobFunctions
  BY DEF Init, JobFunctions
<1>6. ASSUME NEW j \in Job
      PROVE  JobOf(j)
  <2>1. DOMAIN listed[j] = {} /\ todo[j] = {} /\ jobPc[j] = "idle"
    BY DEF Init
  <2>2. \E b \in Nat : \A m \in DOMAIN listed[j] : m <= b /\ listed[j][m].revision <= b
    BY <2>1
  <2> QED
    BY <2>1, <2>2 DEF JobOf, Typed, Bounded
<1> QED
  BY <1>3, <1>4, <1>5, <1>6 DEF Shapes

-----------------------------------------------------------------------------
(* Records.                                                                *)

\* What begins while another request is under way has overlapped, unless both roll back.
LEMMA BeginsOrderly ==
  ASSUME Shapes, NEW what \in Operations, Begins(what), Orderly'
  PROVE  \/ InFlight = {} /\ (what = "uninstall" => Moving = {})
         \/ what = "rollback" /\ \A d \in InFlight : req[d].op = "rollback"
<1> DEFINE others == {KindOf(req[d].op) : d \in InFlight}
<1>1. {"upgrade", "uninstall"} \cap happened' = {}
  BY DEF Orderly, Disturbed
<1>2. CASE others = {} /\ (what # "uninstall" \/ Moving = {})
  BY <1>2
<1>3. CASE ~(others = {} /\ (what # "uninstall" \/ Moving = {}))
  <2>1. {KindOf(what)} \cup others \subseteq happened'
    BY <1>3 DEF Begins
  <2>2. KindOf(what) = "rollback" /\ what = "rollback"
    BY <1>1, <2>1 DEF KindOf, Operations
  <2>3. ASSUME NEW d \in InFlight
        PROVE  req[d].op = "rollback"
    <3>1. Types /\ OpOf(d) /\ KindOf(req[d].op) \in others
      BY DEF Shapes, InFlight
    <3>2. req[d].op \in Operations
      BY <3>1, InFlightOp
    <3> QED
      BY <1>1, <2>1, <3>1, <3>2 DEF KindOf, Operations
  <2> QED
    BY <2>2, <2>3
<1> QED
  BY <1>2, <1>3

\* A step begins a request, or takes one that is under way further.
LEMMA StepBegins ==
  ASSUME Shapes, NEW c \in Change, Step(c)
  PROVE  \/ pc[c] = "new" /\ pc'[c] # "new" /\ \E what \in Operations : Begins(what) /\ req'[c].op = what
         \/ /\ c \in InFlight /\ happened \subseteq happened'
            /\ pc'[c] = "ended" \/ req'[c].op = req[c].op
<1>1. Types /\ pc \in [Change -> Places] /\ req \in [Change -> Request]
  BY TypesAsSets DEF Shapes
<1>2. CASE Upgrade(c) \/ Deploy(c) \/ DeployBatch(c) \/ (\E n \in DOMAIN records : Rollback(c, n)) \/ Install(c) \/ Uninstall(c)
  <2>1. CASE Upgrade(c)
    BY <1>1, <2>1 DEF Upgrade, At, Blank, Operations
  <2>2. CASE Deploy(c) \/ DeployBatch(c)
    BY <1>1, <2>2 DEF Deploy, DeployBatch, At, Blank, Operations
  <2>3. CASE \E n \in DOMAIN records : Rollback(c, n)
    BY <1>1, <2>3 DEF Rollback, At, Blank, Operations
  <2>4. CASE Install(c)
    BY <1>1, <2>4 DEF Install, At, Blank, Operations
  <2>5. CASE Uninstall(c)
    BY <1>1, <2>5 DEF Uninstall, At, Blank, Operations
  <2> QED
    BY <1>2, <2>1, <2>2, <2>3, <2>4, <2>5
<1>3. CASE CheckRevision(c) \/ ReadRelease(c) \/ Refused(c) \/ Apply(c)
  BY <1>1, <1>3 DEF CheckRevision, ReadRelease, Refused, Apply, At, Ends, InFlight, Request
<1>4. CASE TakeOver(c) \/ RemapAPIs(c) \/ Supersede(c) \/ RecordDeployed(c)
  BY <1>1, <1>4 DEF TakeOver, RemapAPIs, Supersede, RecordDeployed, At, Ends, InFlight
<1>5. CASE ApplyFails(c) \/ Purge(c) \/ Crash(c)
  BY <1>1, <1>5 DEF ApplyFails, Purge, Crash, At, Ends, InFlight
<1>6. CASE Prepare(c) \/ PrepareRollback(c)
  <2>1. pc'[c] = "ended" \/ req'[c].op = req[c].op
    BY <1>1, <1>6 DEF Prepare, PrepareRollback, Makes, At, Ends, Request
  <2>2. c \in InFlight /\ happened' = happened
    BY <1>6 DEF Prepare, PrepareRollback, InFlight
  <2> QED
    BY <2>1, <2>2
<1> QED
  BY <1>2, <1>3, <1>4, <1>5, <1>6 DEF Step

\* What has happened stays.
LEMMA HappenedGrows ==
  ASSUME Shapes, [Next]_vars
  PROVE  happened \subseteq happened'
<1>1. ASSUME NEW c \in Change, Step(c)
      PROVE  happened \subseteq happened'
  <2>1. Types /\ \A d \in Change : OpOf(d)
    BY DEF Shapes
  <2> QED
    BY <1>1, <2>1, StepBegins, BeginsFacts
<1>2. ASSUME NEW j \in Job, JobStep(j)
      PROVE  happened \subseteq happened'
  BY <1>2 DEF JobStep, List, ReadHistory, BackUp, DeleteRevision, MoveFails, JobEnds
<1>3. ASSUME NEW n \in DOMAIN records, Ages(n)
      PROVE  happened \subseteq happened'
  BY <1>3 DEF Ages
<1> QED
  BY <1>1, <1>2, <1>3, NextSteps DEF vars

LEMMA OrderlyBefore ==
  ASSUME Shapes, Orderly', [Next]_vars
  PROVE  Orderly
BY HappenedGrows DEF Orderly, Disturbed

LEMMA AloneKept ==
  ASSUME Shapes, Alone, Orderly', NEW c \in Change, Step(c)
  PROVE  Alone'
<1>1. \A d \in Change \ {c} : pc'[d] = pc[d] /\ req'[d] = req[d]
  BY OthersUnchanged DEF Shapes
<1>2. CASE c \in InFlight /\ (pc'[c] = "ended" \/ req'[c].op = req[c].op)
  BY <1>1, <1>2 DEF Alone, InFlight
<1>3. CASE pc[c] = "new" /\ \E what \in Operations : Begins(what) /\ req'[c].op = what
  <2>1. \/ InFlight = {}
        \/ req'[c].op = "rollback" /\ \A d \in InFlight : req[d].op = "rollback"
    BY <1>3, BeginsOrderly
  <2> QED
    BY <1>1, <2>1 DEF Alone, InFlight
<1> QED
  BY <1>2, <1>3, StepBegins

\* While a request is under way, others only roll back.
LEMMA OthersRollBack ==
  ASSUME Shapes, Alone, Orderly', NEW c \in Change, Step(c), NEW d \in Change, c # d
  PROVE  \/ pc[d] \in {"new", "ended"}
         \/ req[d].op = "rollback" /\ pc[d] \in After \cup {"rolling"}
<1>1. pc'[d] = pc[d] /\ req'[d] = req[d] /\ pc[d] \in Places /\ OpOf(d)
  BY OthersUnchanged, TypesAsSets DEF Shapes
<1>2. CASE c \in InFlight
  BY <1>1, <1>2 DEF Alone, InFlight, OpOf, Places, Before
<1>3. CASE pc[c] = "new" /\ \E what \in Operations : Begins(what) /\ req'[c].op = what
  <2>1. InFlight = {} \/ \A e \in InFlight : req[e].op = "rollback"
    BY <1>3, BeginsOrderly
  <2> QED
    BY <1>1, <2>1 DEF InFlight, OpOf, Places, Before
<1> QED
  BY <1>2, <1>3, StepBegins

\* A request that leaves every record its revision and its values.
LEMMA RequestStep ==
  ASSUME HelmInvariant, Orderly, Orderly', NEW c \in Change, Step(c),
         made' = made, UNCHANGED jobs, DOMAIN records' = DOMAIN records,
         \A n \in DOMAIN records : /\ records'[n].revision = records[n].revision
                                   /\ records'[n].config = records[n].config,
         ReadOf(c)', ViewOf(c)', MakesOf(c)', RemovesOf(c)'
  PROVE  RecordsInvariant'
<1>1. /\ Shapes /\ Alone /\ (\A n \in DOMAIN records : Own(n))
      /\ \A d \in Change : MakesOf(d)
      /\ \A j \in Job : Spares(j)
  BY DEF HelmInvariant, RecordsInvariant
<1>2. Alone'
  BY <1>1, AloneKept
<1>3. \A n \in DOMAIN records' : Own(n)'
  BY <1>1 DEF Own
<1>4. ASSUME NEW d \in Change, d # c
      PROVE  (ReadOf(d) /\ ViewOf(d) /\ MakesOf(d) /\ RemovesOf(d))'
  <2>1. pc'[d] = pc[d] /\ req'[d] = req[d]
    BY <1>1, <1>4, OthersUnchanged DEF Shapes
  <2>2. \/ pc[d] \in {"new", "ended"}
        \/ req[d].op = "rollback" /\ pc[d] \in After \cup {"rolling"}
    BY <1>1, <1>4, OthersRollBack
  <2>3. ReadOf(d)' /\ RemovesOf(d)'
    BY <2>1, <2>2 DEF ReadOf, RemovesOf, After
  <2>4. ViewOf(d)'
    BY <2>1, <2>2 DEF ViewOf, After, Before
  <2>5. MakesOf(d)'
    BY <1>1, <2>1 DEF MakesOf
  <2> QED
    BY <2>3, <2>4, <2>5
<1>5. \A j \in Job : Spares(j)'
  BY <1>1 DEF Spares, jobs
<1> QED
  BY <1>2, <1>3, <1>4, <1>5 DEF RecordsInvariant

\* What the invariant says of c when nothing disturbed it.
LEMMA OrderlyFacts ==
  ASSUME HelmInvariant, Orderly
  PROVE  /\ Shapes /\ Types /\ Alone /\ (\A n \in DOMAIN records : Own(n))
         /\ \A c \in Change : ReadOf(c) /\ ViewOf(c) /\ MakesOf(c) /\ RemovesOf(c)
         /\ \A j \in Job : Spares(j)
BY DEF HelmInvariant, RecordsInvariant, Shapes

\* The steps that only read the records.
LEMMA ReadersInvariant ==
  ASSUME HelmInvariant, Orderly, Orderly', NEW c \in Change,
         \/ Upgrade(c) \/ CheckRevision(c) \/ Deploy(c) \/ DeployBatch(c) \/ (\E n \in DOMAIN records : Rollback(c, n))
         \/ ReadRelease(c) \/ Refused(c) \/ Apply(c) \/ Crash(c)
  PROVE  RecordsInvariant'
<1> USE DEF Before, After
<1>1. /\ pc \in [Change -> Places] /\ req \in [Change -> Request] /\ Types
      /\ ReadOf(c) /\ ViewOf(c) /\ MakesOf(c) /\ \A n \in DOMAIN records : Own(n)
  BY OrderlyFacts, TypesAsSets
<1>2. records' = records /\ made' = made /\ UNCHANGED jobs /\ Step(c)
  BY DEF Step, Upgrade, CheckRevision, Deploy, DeployBatch, Rollback, ReadRelease, Refused, Apply, Crash
<1>3. CASE Upgrade(c)
  <2>1. pc'[c] = "checking" \/ (pc'[c] = "reading" /\ req'[c].view = 0)
    BY <1>1, <1>3 DEF Upgrade, At, Blank
  <2> QED
    BY <1>2, <2>1, RequestStep DEF ReadOf, ViewOf, MakesOf, RemovesOf
<1>4. CASE Deploy(c) \/ DeployBatch(c)
  <2>1. pc'[c] = "reading" /\ req'[c].op \in {"deploy", "batch"}
    BY <1>1, <1>4 DEF Deploy, DeployBatch, At, Blank
  <2> QED
    BY <1>2, <2>1, RequestStep DEF ReadOf, ViewOf, MakesOf, RemovesOf
<1>5. CASE \E n \in DOMAIN records : Rollback(c, n)
  <2>1. pc'[c] = "rolling" /\ req'[c].op = "rollback"
    BY <1>1, <1>5 DEF Rollback, At, Blank
  <2> QED
    BY <1>2, <2>1, RequestStep DEF ReadOf, ViewOf, MakesOf, RemovesOf
<1>6. ASSUME Ends(c)
      PROVE  RecordsInvariant'
  <2>1. pc'[c] = "ended"
    BY <1>1, <1>6 DEF Ends, At
  <2> QED
    BY <1>2, <2>1, RequestStep DEF ReadOf, ViewOf, MakesOf, RemovesOf
<1>7. CASE CheckRevision(c)
  <2>1. CASE Latest(req[c].view) /\ At(c, "reading") /\ UNCHANGED req
    <3>1. pc'[c] = "reading" /\ req'[c] = req[c]
      BY <1>1, <2>1 DEF At
    <3>2. DOMAIN records # {}
      BY <1>1, <2>1, EmptyRecords DEF Latest, Types
    <3>3. req[c].view \in DOMAIN records /\ \A m \in DOMAIN records : m <= req[c].view
      BY <1>1, <2>1, <3>2, LastIsGreatest DEF Latest
    <3>4. ViewOf(c)'
      BY <1>2, <3>1, <3>3 DEF ViewOf
    <3> QED
      BY <1>2, <3>1, <3>4, RequestStep DEF ReadOf, MakesOf, RemovesOf
  <2> QED
    BY <1>6, <1>7, <2>1 DEF CheckRevision
<1>8. CASE ReadRelease(c)
  <2>1. CASE records # << >> /\ req' = [req EXCEPT ![c].rel = records[Last]] /\ At(c, "preparing")
    <3>1. /\ pc'[c] = "preparing" /\ req'[c].rel = records[Last]
          /\ req'[c].op = req[c].op /\ req'[c].view = req[c].view
      BY <1>1, <2>1 DEF At, Request
    <3>2. DOMAIN records # {}
      BY <1>1, <2>1, EmptyRecords DEF Types
    <3>3. /\ Last \in DOMAIN records /\ records[Last].revision = Last
          /\ \A m \in DOMAIN records : m <= Last
      BY <1>1, <3>2, LastIsGreatest
    <3>4. ReadOf(c)'
      BY <1>1, <1>2, <3>1, <3>3 DEF ReadOf, Own
    <3>5. ViewOf(c)'
      BY <1>1, <1>2, <1>8, <3>1 DEF ViewOf, ReadRelease
    <3> QED
      BY <1>2, <3>1, <3>4, <3>5, RequestStep DEF MakesOf, RemovesOf
  <2> QED
    BY <1>6, <1>8, <2>1 DEF ReadRelease
<1>9. CASE Refused(c)
  <2>1. CASE pc[c] = "preparing" /\ At(c, "stuck") /\ UNCHANGED req
             /\ records # << >> /\ records[Last].status = "pending"
    <3>1. pc'[c] = "stuck" /\ req'[c] = req[c]
      BY <1>1, <2>1 DEF At
    <3>2. DOMAIN records # {}
      BY <1>1, <2>1, EmptyRecords DEF Types
    <3>3. Last \in DOMAIN records /\ \A m \in DOMAIN records : m <= Last
      BY <1>1, <3>2, LastIsGreatest
    <3>4. req[c].rel.revision = Last
      BY <1>1, <2>1, <3>3, RequestFields, RecordFields DEF ReadOf
    <3>5. ReadOf(c)'
      BY <1>1, <1>2, <2>1, <3>1, <3>4 DEF ReadOf, Own
    <3>6. ViewOf(c)'
      BY <1>1, <1>2, <2>1, <3>1 DEF ViewOf
    <3> QED
      BY <1>2, <3>1, <3>5, <3>6, RequestStep DEF MakesOf, RemovesOf
  <2>2. CASE pc[c] = "preparing" /\ At(c, "mapping") /\ UNCHANGED req
    <3>1. pc'[c] = "mapping" /\ req'[c] = req[c]
      BY <1>1, <2>2 DEF At
    <3>2. ReadOf(c)' /\ ViewOf(c)'
      BY <1>1, <1>2, <2>2, <3>1 DEF ReadOf, ViewOf, Own
    <3> QED
      BY <1>2, <3>1, <3>2, RequestStep DEF MakesOf, RemovesOf
  <2> QED
    BY <1>6, <1>9, <2>1, <2>2 DEF Refused
<1>10. CASE Apply(c)
  <2>1. pc[c] = "applying" /\ pc'[c] = "replacing" /\ req'[c] = req[c]
    BY <1>1, <1>10 DEF Apply, At
  <2>2. ViewOf(c)' /\ MakesOf(c)'
    BY <1>1, <1>2, <2>1 DEF ViewOf, MakesOf
  <2> QED
    BY <1>2, <2>1, <2>2, RequestStep DEF ReadOf, RemovesOf
<1>11. CASE Crash(c)
  BY <1>6, <1>11 DEF Crash
<1> QED
  BY <1>3, <1>4, <1>5, <1>7, <1>8, <1>9, <1>10, <1>11

\* Each remedy writes to the record of the revision that was read, which is the newest.
LEMMA RemedyKeeps ==
  ASSUME HelmInvariant, Orderly, NEW c \in Change, TakeOver(c) \/ RemapAPIs(c)
  PROVE  /\ happened' = happened /\ DOMAIN records' = DOMAIN records
         /\ \A n \in DOMAIN records : /\ records'[n].revision = records[n].revision
                                      /\ records'[n].config = records[n].config
<1> DEFINE k == req[c].rel.revision
<1>1. /\ req \in [Change -> Request] /\ Types /\ ReadOf(c) /\ \A n \in DOMAIN records : Own(n)
      /\ req[c].rel \in Record
  BY OrderlyFacts, TypesAsSets, RequestFields
<1>2. pc[c] \in {"stuck", "mapping"}
  BY DEF TakeOver, RemapAPIs
<1>3. /\ k \in DOMAIN records /\ k \in Nat /\ req[c].rel.config = made[k]
      /\ records[k].revision = k /\ records[k].config = made[k]
      /\ \A m \in DOMAIN records : m <= k
      /\ pc[c] = "stuck" => records[k].status = "pending"
  BY <1>1, <1>2, RecordFields DEF ReadOf, Own
<1>4. CASE TakeOver(c)
  <2> DEFINE n == Newest(Having("pending"))
             r == [req[c].rel EXCEPT !.status = "failed", !.old = FALSE]
  <2>1. Having("pending") \in SUBSET DOMAIN records /\ k \in Having("pending")
    BY <1>3, <1>4 DEF TakeOver, Having
  <2>2. n \in Having("pending") /\ records[k].revision <= records[n].revision
    BY <1>1, <2>1, NewestFacts, TypesAsSets
  <2>3. n = k
    BY <1>1, <1>3, <2>1, <2>2, RecordFields DEF Own
  <2>4. r.revision = k /\ r.config = made[k] /\ Overwrites(c, k) = {}
    BY <1>1, <1>3 DEF Record, Overwrites
  <2>5. \/ records' = [records EXCEPT ![n] = r] /\ happened' = happened \cup Overwrites(c, n)
        \/ UNCHANGED <<records, happened>>
    BY <1>4 DEF TakeOver
  <2> HIDE DEF n, r, k
  <2> QED
    BY <1>3, <2>3, <2>4, <2>5
<1>5. CASE RemapAPIs(c)
  <2>1. Last = k
    <3>1. Last \in DOMAIN records /\ Last \in Nat /\ \A m \in DOMAIN records : m <= Last
      BY <1>1, <1>3, LastIsGreatest, RecordFields
    <3> QED
      BY <1>3, <3>1
  <2>2. records' = [records EXCEPT ![Last] = req[c].rel] /\ happened' = happened \cup Overwrites(c, Last)
    BY <1>1, <1>3, <1>5, EmptyRecords DEF RemapAPIs, Types
  <2>3. Overwrites(c, Last) = {}
    BY <2>1 DEF Overwrites
  <2> QED
    BY <1>3, <2>1, <2>2, <2>3
<1> QED
  BY <1>4, <1>5

\* The steps that write over records.
LEMMA WritersInvariant ==
  ASSUME HelmInvariant, Orderly, Orderly', NEW c \in Change,
         TakeOver(c) \/ RemapAPIs(c) \/ ApplyFails(c) \/ Supersede(c) \/ RecordDeployed(c)
  PROVE  RecordsInvariant'
<1> USE DEF Before, After
<1>1. /\ pc \in [Change -> Places] /\ req \in [Change -> Request] /\ Types
      /\ ReadOf(c) /\ ViewOf(c) /\ MakesOf(c) /\ \A n \in DOMAIN records : Own(n)
  BY OrderlyFacts, TypesAsSets
<1>2. made' = made /\ UNCHANGED jobs /\ Step(c)
  BY DEF Step, TakeOver, RemapAPIs, ApplyFails, Supersede, RecordDeployed
<1> DEFINE Kept == /\ DOMAIN records' = DOMAIN records
                   /\ \A n \in DOMAIN records : /\ records'[n].revision = records[n].revision
                                                /\ records'[n].config = records[n].config
<1>3. ASSUME Ends(c), Kept
      PROVE  RecordsInvariant'
  <2>1. pc'[c] = "ended"
    BY <1>1, <1>3 DEF Ends, At
  <2> QED
    BY <1>2, <1>3, <2>1, RequestStep DEF ReadOf, ViewOf, MakesOf, RemovesOf
<1>4. ASSUME pc[c] \in {"stuck", "mapping"}, At(c, "retrying"), req' = req, Kept
      PROVE  RecordsInvariant'
  <2>1. pc'[c] = "retrying"
    BY <1>1, <1>4 DEF At
  <2>2. ViewOf(c)'
    BY <1>1, <1>4, <2>1 DEF ViewOf
  <2> QED
    BY <1>2, <1>4, <2>1, <2>2, RequestStep DEF ReadOf, MakesOf, RemovesOf
<1>5. CASE TakeOver(c) \/ RemapAPIs(c)
  <2>1. Kept /\ pc[c] \in {"stuck", "mapping"}
    BY <1>5, RemedyKeeps DEF TakeOver, RemapAPIs
  <2>2. Ends(c) \/ (At(c, "retrying") /\ req' = req)
    BY <1>5 DEF TakeOver, RemapAPIs
  <2> HIDE DEF Kept
  <2> QED
    BY <1>3, <1>4, <2>1, <2>2
<1>6. ASSUME pc[c] \in After
      PROVE  /\ \A status \in {"deployed", "failed"} : 
                  LET r == MakeRecord(req[c].revision, status, req[c].config) IN
                    r.revision \in DOMAIN records =>
                      /\ records[r.revision].revision = r.revision
                      /\ records[r.revision].config = r.config
             /\ LET s == [req[c].base EXCEPT !.status = "superseded"] IN
                  s.revision \in DOMAIN records =>
                    /\ records[s.revision].revision = s.revision
                    /\ records[s.revision].config = s.config
  <2>1. /\ req[c].config = made[req[c].revision]
        /\ req[c].base = NoRecord \/ req[c].base.config = made[req[c].base.revision]
    BY <1>1, <1>6 DEF MakesOf
  <2>2. req[c].base \in Record /\ \A n \in DOMAIN records : n # 0
    BY <1>1, RequestFields, RecordFields
  <2>3. NoRecord.revision = 0
    BY DEF NoRecord
  <2>4. LET s == [req[c].base EXCEPT !.status = "superseded"] IN
          s.revision = req[c].base.revision /\ s.config = req[c].base.config
    BY <2>2 DEF Record
  <2> QED
    BY <1>1, <2>1, <2>2, <2>3, <2>4 DEF Own, MakeRecord
<1>7. CASE ApplyFails(c)
  <2> DEFINE r == MakeRecord(req[c].revision, "failed", req[c].config)
             s == [req[c].base EXCEPT !.status = "superseded"]
             failed == Update(records, r)
  <2>1. /\ r.revision \in DOMAIN records =>
             records[r.revision].revision = r.revision /\ records[r.revision].config = r.config
        /\ s.revision \in DOMAIN records =>
             records[s.revision].revision = s.revision /\ records[s.revision].config = s.config
    BY <1>6, <1>7 DEF ApplyFails
  <2>2. /\ Ends(c)
        /\ records' = IF req[c].op = "rollback" THEN Update(failed, s) ELSE failed
    BY <1>7 DEF ApplyFails
  <2> HIDE DEF r, s
  <2>3. Kept
    BY <2>1, <2>2 DEF Update
  <2> QED
    BY <1>3, <2>2, <2>3
<1>8. CASE Supersede(c)
  <2> DEFINE s == [req[c].base EXCEPT !.status = "superseded"]
  <2>1. pc[c] = "replacing" /\ pc'[c] = "recording" /\ req' = req
    BY <1>1, <1>8 DEF Supersede, At
  <2>2. s.revision \in DOMAIN records =>
          records[s.revision].revision = s.revision /\ records[s.revision].config = s.config
    BY <1>6, <2>1
  <2>3. ASSUME req[c].op = "rollback"
        PROVE  Kept
    <3>1. records' = [n \in DOMAIN records |->
                        IF n \in Having("deployed") THEN [records[n] EXCEPT !.status = "superseded"]
                        ELSE records[n]]
      BY <1>8, <2>3 DEF Supersede
    <3>2. \A n \in DOMAIN records : records[n] \in Record
      BY <1>1, RecordFields
    <3> QED
      BY <3>1, <3>2 DEF Record
  <2>4. ASSUME req[c].op # "rollback"
        PROVE  Kept
    <3>1. records' = Update(records, s)
      BY <1>8, <2>4 DEF Supersede
    <3> HIDE DEF s
    <3> QED
      BY <2>2, <3>1 DEF Update
  <2>5. Kept
    BY <2>3, <2>4
  <2>6. ViewOf(c)' /\ MakesOf(c)'
    BY <1>1, <1>2, <2>1, <2>5 DEF ViewOf, MakesOf
  <2> QED
    BY <1>2, <2>1, <2>5, <2>6, RequestStep DEF ReadOf, RemovesOf
<1>9. CASE RecordDeployed(c)
  <2> DEFINE r == MakeRecord(req[c].revision, "deployed", req[c].config)
  <2>1. r.revision \in DOMAIN records =>
          records[r.revision].revision = r.revision /\ records[r.revision].config = r.config
    BY <1>6, <1>9 DEF RecordDeployed
  <2>2. Ends(c) /\ records' = Update(records, r)
    BY <1>9 DEF RecordDeployed
  <2> HIDE DEF r
  <2>3. Kept
    BY <2>1, <2>2 DEF Update
  <2> QED
    BY <1>3, <2>2, <2>3
<1> QED
  BY <1>5, <1>7, <1>8, <1>9

\* The steps that make the next revision.
LEMMA MakersInvariant ==
  ASSUME HelmInvariant, Orderly, Orderly', NEW c \in Change, Prepare(c) \/ PrepareRollback(c)
  PROVE  RecordsInvariant'
<1> USE DEF Before, After
<1>1. /\ pc \in [Change -> Places] /\ req \in [Change -> Request] /\ Types /\ Shapes /\ Alone
      /\ ViewOf(c) /\ \A n \in DOMAIN records : Own(n)
      /\ \A d \in Change : MakesOf(d)
      /\ \A j \in Job : Spares(j)
  BY OrderlyFacts, TypesAsSets
<1>2. UNCHANGED jobs /\ Step(c)
  BY DEF Step, Prepare, PrepareRollback
<1>3. ASSUME Ends(c), UNCHANGED <<records, made>>
      PROVE  RecordsInvariant'
  <2>1. pc'[c] = "ended"
    BY <1>1, <1>3 DEF Ends, At
  <2> QED
    BY <1>2, <1>3, <2>1, RequestStep DEF ReadOf, ViewOf, MakesOf, RemovesOf
<1>4. ASSUME NEW config, NEW n \in DOMAIN records, Makes(c, config, records[n]),
             \/ pc[c] \in {"preparing", "retrying"}
             \/ req[c].op = "rollback"
      PROVE  RecordsInvariant'
  <2> DEFINE next == records[Last].revision + 1
  <2>1. /\ Last \in DOMAIN records /\ records[Last].revision = Last /\ Last \in Nat
        /\ \A m \in DOMAIN records : m <= Last
    BY <1>1, <1>4, LastIsGreatest, RecordFields
  <2>2. next = Last + 1 /\ next \in Nat /\ \A m \in DOMAIN records : m \in Nat /\ m < next
    BY <1>1, <2>1, RecordFields
  <2>3. next \notin DOMAIN records
    BY <2>2
  <2> DEFINE r == MakeRecord(next, "pending", config)
  <2>4. /\ records' = Put(records, next, r) /\ made' = Put(made, next, config)
        /\ req' = [req EXCEPT ![c].revision = next, ![c].config = config, ![c].base = records[n]]
        /\ At(c, "applying")
    BY <1>4, <2>3 DEF Makes
  <2>5. r.revision = next /\ r.config = config
    BY DEF MakeRecord
  <2> HIDE DEF r, next
  <2>6. /\ DOMAIN records' = DOMAIN records \cup {next} /\ records'[next] = r
        /\ \A m \in DOMAIN records : records'[m] = records[m]
    BY <2>3, <2>4 DEF Put
  <2>7. /\ DOMAIN made' = DOMAIN made \cup {next} /\ made'[next] = config
        /\ \A m \in DOMAIN made \ {next} : made'[m] = made[m]
    BY <2>4 DEF Put
  <2>8. /\ pc'[c] = "applying" /\ req'[c].revision = next /\ req'[c].config = config
        /\ req'[c].base = records[n] /\ req'[c].op = req[c].op /\ req'[c].view = req[c].view
    BY <1>1, <2>4 DEF At, Request
  <2>9. Alone'
    BY <1>1, <1>2, AloneKept
  <2>10. ASSUME NEW m \in DOMAIN records'
         PROVE  Own(m)'
    <3>1. CASE m = next
      BY <2>5, <2>6, <2>7, <3>1 DEF Own
    <3>2. CASE m # next
      BY <1>1, <2>6, <2>7, <3>2 DEF Own
    <3> QED
      BY <3>1, <3>2
  <2>11. (ReadOf(c) /\ ViewOf(c) /\ MakesOf(c) /\ RemovesOf(c))'
    <3>1. ReadOf(c)' /\ RemovesOf(c)'
      BY <2>8 DEF ReadOf, RemovesOf
    <3>2. ViewOf(c)'
      <4>1. ASSUME req[c].op = "upgrade", req[c].view # 0
            PROVE  next = req[c].view + 1
        <5>1. req[c].view \in DOMAIN records /\ \A m \in DOMAIN records : m <= req[c].view
          BY <1>1, <1>4, <4>1 DEF ViewOf
        <5>2. req[c].view = Last
          BY <1>1, <2>1, <5>1, RecordFields
        <5> QED
          BY <2>2, <5>2
      <4> QED
        BY <2>8, <4>1 DEF ViewOf
    <3>3. MakesOf(c)'
      <4>1. /\ records[n].revision = n /\ n \in DOMAIN made /\ records[n].config = made[n]
            /\ n < next /\ n # next
        BY <1>1, <2>2 DEF Own
      <4>2. made'[n] = made[n]
        BY <2>7, <4>1
      <4>3. \E m \in DOMAIN records' : next <= m
        BY <2>2, <2>6
      <4> QED
        BY <2>7, <2>8, <4>1, <4>2, <4>3 DEF MakesOf
    <3> QED
      BY <3>1, <3>2, <3>3
  <2>12. ASSUME NEW d \in Change, d # c
         PROVE  (ReadOf(d) /\ ViewOf(d) /\ MakesOf(d) /\ RemovesOf(d))'
    <3>1. pc'[d] = pc[d] /\ req'[d] = req[d]
      BY <1>1, <1>2, <2>12, OthersUnchanged
    <3>2. \/ pc[d] \in {"new", "ended"}
          \/ req[d].op = "rollback" /\ pc[d] \in After \cup {"rolling"}
      BY <1>1, <1>2, <2>12, OthersRollBack
    <3>3. (ReadOf(d) /\ ViewOf(d) /\ RemovesOf(d))'
      BY <3>1, <3>2 DEF ReadOf, ViewOf, RemovesOf
    <3>4. MakesOf(d)'
      <4>1. CASE pc[d] \in After
        <5>1. /\ req[d].revision \in DOMAIN made /\ req[d].config = made[req[d].revision]
              /\ \/ req[d].base = NoRecord
                 \/ /\ req[d].base.revision \in DOMAIN made
                    /\ req[d].base.config = made[req[d].base.revision]
                    /\ req[d].base.revision < req[d].revision
          BY <1>1, <4>1 DEF MakesOf
        <5>2. PICK m \in DOMAIN records : req[d].revision <= m
          BY <1>1, <4>1 DEF MakesOf
        <5>3. req[d].revision \in Nat /\ req[d].base.revision \in Nat
          BY <1>1, RequestFields DEF Record
        <5>4. req[d].revision < next
          BY <2>2, <5>2, <5>3
        <5>5. req[d].base.revision < req[d].revision => req[d].base.revision < next
          BY <2>2, <5>3, <5>4
        <5>6. req[d].revision # next
          BY <2>2, <5>3, <5>4
        <5>7. req[d].base.revision < req[d].revision => req[d].base.revision # next
          BY <2>2, <5>3, <5>5
        <5>8. m \in DOMAIN records'
          BY <2>6
        <5> QED
          BY <2>7, <3>1, <5>1, <5>2, <5>6, <5>7, <5>8 DEF MakesOf
      <4>2. CASE pc[d] \notin After
        BY <3>1, <4>2 DEF MakesOf
      <4> QED
        BY <4>1, <4>2
    <3> QED
      BY <3>3, <3>4
  <2>13. \A j \in Job : Spares(j)'
    BY <1>1, <1>2, <2>6 DEF Spares, jobs
  <2> QED
    BY <2>9, <2>10, <2>11, <2>12, <2>13 DEF RecordsInvariant
<1>5. CASE Prepare(c)
  <2>1. DOMAIN records # {}
    BY <1>1, <1>5, EmptyRecords DEF Prepare, Upgradable, Types
  <2>2. Base \in DOMAIN records
    BY <1>1, <2>1, BaseFacts
  <2> QED
    BY <1>4, <1>5, <2>2 DEF Prepare
<1>6. CASE PrepareRollback(c)
  <2>1. CASE req[c].view \in DOMAIN records
    <3>1. Last \in DOMAIN records
      BY <1>1, <2>1, LastFacts
    <3>2. req[c].op = "rollback"
      BY <1>1, <1>6 DEF PrepareRollback, Shapes, OpOf
    <3> QED
      BY <1>4, <1>6, <2>1, <3>1, <3>2 DEF PrepareRollback
  <2>2. CASE req[c].view \notin DOMAIN records
    BY <1>3, <1>6, <2>2 DEF PrepareRollback
  <2> QED
    BY <2>1, <2>2
<1> QED
  BY <1>5, <1>6

\* The steps that begin or end a release.
LEMMA EndpointsInvariant ==
  ASSUME HelmInvariant, Orderly, Orderly', NEW c \in Change, Install(c) \/ Uninstall(c) \/ Purge(c)
  PROVE  RecordsInvariant'
<1> USE DEF Before, After
<1>1. /\ pc \in [Change -> Places] /\ req \in [Change -> Request] /\ Types /\ Shapes /\ Alone
      /\ RemovesOf(c) /\ \A n \in DOMAIN records : Own(n)
      /\ \A j \in Job : Spares(j)
  BY OrderlyFacts, TypesAsSets
<1>2. UNCHANGED jobs /\ Step(c) /\ Alone'
  <2>1. UNCHANGED jobs /\ Step(c)
    BY DEF Step, Install, Uninstall, Purge
  <2> QED
    BY <1>1, <2>1, AloneKept
<1>3. ASSUME NEW d \in Change, d # c, pc[d] \in {"new", "ended"}
      PROVE  (ReadOf(d) /\ ViewOf(d) /\ MakesOf(d) /\ RemovesOf(d))'
  <2>1. pc'[d] = pc[d]
    BY <1>1, <1>2, <1>3, OthersUnchanged
  <2> QED
    BY <1>3, <2>1 DEF ReadOf, ViewOf, MakesOf, RemovesOf
<1>4. CASE Install(c)
  <2> DEFINE config == [settings |-> c, image |-> c, paused |-> FALSE]
             r == MakeRecord(1, "pending", config)
  <2>1. /\ records = << >> /\ Begins("install") /\ At(c, "applying")
        /\ records' = [n \in {1} |-> r] /\ made' = [n \in {1} |-> config]
        /\ req' = [req EXCEPT ![c] = [Blank EXCEPT !.op = "install", !.revision = 1, !.config = config]]
    BY <1>4 DEF Install
  <2>2. r.revision = 1 /\ r.config = config
    BY DEF MakeRecord
  <2> HIDE DEF r, config
  <2>3. /\ pc'[c] = "applying" /\ req'[c].op = "install" /\ req'[c].revision = 1
        /\ req'[c].config = config /\ req'[c].base = NoRecord
    BY <1>1, <2>1 DEF At, Blank
  <2>4. InFlight = {}
    BY <1>1, <2>1, BeginsOrderly DEF Operations
  <2>5. \A d \in Change : pc[d] \in {"new", "ended"}
    BY <2>4 DEF InFlight
  <2>6. \A n \in DOMAIN records' : Own(n)'
    BY <2>1, <2>2 DEF Own
  <2>7. (ReadOf(c) /\ ViewOf(c) /\ RemovesOf(c))'
    BY <2>3 DEF ReadOf, ViewOf, RemovesOf
  <2>8. MakesOf(c)'
    BY <2>1, <2>3 DEF MakesOf
  <2>9. DOMAIN records = {}
    BY <1>1, <2>1, EmptyRecords DEF Types
  <2>10. \A j \in Job : Spares(j)'
    BY <1>1, <1>2, <2>9 DEF Spares, jobs
  <2> QED
    BY <1>2, <1>3, <2>5, <2>6, <2>7, <2>8, <2>10 DEF RecordsInvariant
<1>5. CASE Uninstall(c)
  <2>1. /\ records # << >> /\ Begins("uninstall") /\ At(c, "uninstalling") /\ made' = made
        /\ records' = [records EXCEPT ![Last].status = "uninstalling"]
        /\ req' = [req EXCEPT ![c] = [Blank EXCEPT !.op = "uninstall", !.seen = DOMAIN records]]
    BY <1>5 DEF Uninstall
  <2>2. InFlight = {} /\ Moving = {}
    BY <1>1, <2>1, BeginsOrderly DEF Operations
  <2>3. DOMAIN records # {}
    BY <1>1, <2>1, EmptyRecords DEF Types
  <2>4. /\ Last \in DOMAIN records /\ Last \in Nat /\ records[Last] \in Record
        /\ \A m \in DOMAIN records : m <= Last /\ m \in Nat
    BY <1>1, <2>3, LastIsGreatest, RecordFields
  <2>5. pc'[c] = "uninstalling" /\ req'[c].seen = DOMAIN records
    BY <1>1, <2>1 DEF At, Blank
  <2>6. /\ DOMAIN records' = DOMAIN records /\ records'[Last].status = "uninstalling"
        /\ \A n \in DOMAIN records : /\ records'[n].revision = records[n].revision
                                     /\ records'[n].config = records[n].config
    BY <2>1, <2>4 DEF Record
  <2>7. RemovesOf(c)'
    <3>1. Moving' = {}
      BY <1>2, <2>2 DEF Moving, jobs
    <3>2. ASSUME NEW n \in DOMAIN records', \A m \in DOMAIN records' : m <= n
          PROVE  records'[n].status = "uninstalling"
      <4>1. n = Last
        BY <2>4, <2>6, <3>2
      <4> QED
        BY <2>6, <4>1
    <3> QED
      BY <2>5, <2>6, <3>1, <3>2 DEF RemovesOf
  <2> QED
    BY <1>2, <2>1, <2>5, <2>6, <2>7, RequestStep DEF ReadOf, ViewOf, MakesOf
<1>6. CASE Purge(c)
  <2>1. /\ pc[c] = "uninstalling" /\ records' = Without(records, req[c].seen) /\ Ends(c)
    BY <1>6 DEF Purge
  <2>2. DOMAIN records' = {} /\ pc'[c] = "ended"
    BY <1>1, <2>1 DEF RemovesOf, Without, Ends, At
  <2>3. c \in InFlight /\ req[c].op = "uninstall"
    BY <1>1, <2>1 DEF Shapes, OpOf, InFlight
  <2>4. \A d \in Change : d # c => pc[d] \in {"new", "ended"}
    BY <1>1, <2>3 DEF Alone, InFlight
  <2>5. (ReadOf(c) /\ ViewOf(c) /\ MakesOf(c) /\ RemovesOf(c))'
    BY <2>2 DEF ReadOf, ViewOf, MakesOf, RemovesOf
  <2>6. \A j \in Job : todo[j] = {}
    BY <1>1, <2>1, JobFields DEF RemovesOf, Moving, Shapes, JobOf
  <2>7. \A j \in Job : Spares(j)'
    BY <1>2, <2>6 DEF Spares, jobs
  <2> QED
    BY <1>2, <1>3, <2>2, <2>4, <2>5, <2>7 DEF RecordsInvariant
<1> QED
  BY <1>4, <1>5, <1>6

\* A tracker job removes at most one record, of which there is a newer one, and runs only
\* while nothing is being uninstalled.
LEMMA JobRemoves ==
  ASSUME Shapes, \A n \in DOMAIN records : records[n].revision = n,
         \A c \in Change : RemovesOf(c), \A i \in Job : Spares(i), NEW j \in Job, JobStep(j),
         "uninstall" \notin happened'
  PROVE  /\ \A i \in Job : Spares(i)'
         /\ \A c \in Change : pc[c] # "uninstalling"
         /\ DOMAIN records' \subseteq DOMAIN records
         /\ \A n \in DOMAIN records' : records'[n] = records[n]
         /\ \A n \in DOMAIN records : \E m \in DOMAIN records' : n = m \/ n < m
<1>1. /\ Types /\ JobFunctions /\ (\A i \in Job : JobOf(i))
      /\ jobPc \in [Job -> {"idle", "listed", "moving", "deleting"}]
      /\ \A n \in DOMAIN records : n \in Nat
  <2>1. Types
    BY DEF Shapes
  <2> QED
    BY <2>1, RecordFields, JobFields DEF Shapes
<1>3. \A c \in Change : pc[c] # "uninstalling"
  <2>1. CASE List(j)
    BY <2>1 DEF List, Shapes, OpOf, InFlight
  <2>2. CASE ~List(j)
    <3>1. jobPc[j] # "idle"
      BY <2>2 DEF JobStep, ReadHistory, BackUp, DeleteRevision, MoveFails, JobEnds
    <3> QED
      BY <3>1 DEF RemovesOf, Moving
  <2> QED
    BY <2>1, <2>2
<1>2. CASE ReadHistory(j)
  <2>1. records' = records /\ todo' = [todo EXCEPT ![j] = Exceeding]
    BY <1>2 DEF ReadHistory
  <2>4. ASSUME NEW i \in Job
        PROVE  Spares(i)'
    <3>1. CASE i = j
      <4>1. ASSUME NEW n \in todo'[j]
            PROVE  \E m \in DOMAIN records : n < m
        <5> DEFINE newer == {m \in DOMAIN records : records[m].revision > records[n].revision}
        <5>1. n \in DOMAIN records /\ Cardinality(newer) >= Keep
          BY <1>1, <2>1, <4>1 DEF JobFunctions, Exceeding
        <5>2. newer # {}
          BY <5>1, KeepAssumption, FS_EmptySet
        <5>3. PICK m \in DOMAIN records : m > n
          BY <5>1, <5>2
        <5> QED
          BY <1>1, <5>1, <5>3
      <4> QED
        BY <2>1, <3>1, <4>1 DEF Spares
    <3>2. CASE i # j
      BY <1>1, <2>1, <3>2 DEF Spares, JobFunctions
    <3> QED
      BY <3>1, <3>2
  <2> QED
    BY <1>3, <2>1, <2>4
<1>4. CASE List(j) \/ BackUp(j) \/ MoveFails(j) \/ JobEnds(j)
  <2>1. records' = records
    BY <1>1, <1>4 DEF BackUp, MoveFails, JobEnds, List
  <2>2. \A i \in Job : todo'[i] \subseteq todo[i]
    BY <1>1, <1>4 DEF List, BackUp, MoveFails, JobEnds, Skips, JobFunctions
  <2>3. \A i \in Job : Spares(i)'
    BY <2>1, <2>2 DEF Spares
  <2> QED
    BY <1>3, <2>1, <2>3
<1>5. CASE DeleteRevision(j)
  <2> DEFINE k == NextToMove(j)
  <2>1. /\ jobPc[j] = "deleting" /\ records' = Without(records, {k})
        /\ todo' = [todo EXCEPT ![j] = @ \ {k}]
    BY <1>5 DEF DeleteRevision, Skips
  <2>2. k \in todo[j] /\ k \in Nat
    BY <1>1, <2>1, NextToMoveFacts DEF JobOf
  <2> HIDE DEF k
  <2>3. /\ DOMAIN records' = DOMAIN records \ {k}
        /\ \A n \in DOMAIN records' : records'[n] = records[n]
    BY <2>1 DEF Without
  <2>4. PICK m \in DOMAIN records' : k < m
    <3>1. PICK m \in DOMAIN records : k < m
      BY <2>2 DEF Spares
    <3> QED
      BY <1>1, <2>2, <2>3, <3>1
  <2>5. ASSUME NEW i \in Job
        PROVE  Spares(i)'
    <3>1. todo'[i] \subseteq todo[i]
      BY <1>1, <2>1 DEF JobFunctions
    <3>2. ASSUME NEW n \in todo'[i]
          PROVE  \E x \in DOMAIN records' : n < x
      <4>1. PICK x \in DOMAIN records : n < x
        BY <3>1, <3>2 DEF Spares
      <4>2. n \in Nat
        <5>1. n \in DOMAIN listed[i] /\ Typed(listed[i])
          BY <1>1, <3>1, <3>2, JobFields DEF JobOf
        <5> QED
          BY <5>1 DEF Typed
      <4>3. CASE x = k
        BY <1>1, <2>2, <2>3, <2>4, <4>1, <4>2, <4>3
      <4>4. CASE x # k
        BY <2>3, <4>1, <4>4
      <4> QED
        BY <4>3, <4>4
    <3> QED
      BY <3>2 DEF Spares
  <2> QED
    BY <1>3, <2>1, <2>3, <2>4, <2>5
<1> QED
  BY <1>2, <1>4, <1>5 DEF JobStep

\* What was the greatest record, or is no greater than some record, stays so.
LEMMA JobsInvariant ==
  ASSUME HelmInvariant, Orderly, Orderly', NEW j \in Job, JobStep(j)
  PROVE  RecordsInvariant'
<1>1. /\ Types /\ Alone /\ (\A n \in DOMAIN records : Own(n)) /\ Shapes
      /\ \A c \in Change : ReadOf(c) /\ ViewOf(c) /\ MakesOf(c) /\ RemovesOf(c)
      /\ \A i \in Job : Spares(i)
  BY OrderlyFacts
<1>2. pc' = pc /\ req' = req /\ made' = made /\ Alone'
  BY <1>1 DEF JobStep, List, ReadHistory, BackUp, DeleteRevision, MoveFails, JobEnds, requests, Alone, InFlight
<1>3. /\ \A i \in Job : Spares(i)'
      /\ \A c \in Change : pc[c] # "uninstalling"
      /\ DOMAIN records' \subseteq DOMAIN records
      /\ \A n \in DOMAIN records' : records'[n] = records[n]
      /\ \A n \in DOMAIN records : \E m \in DOMAIN records' : n = m \/ n < m
  BY <1>1, JobRemoves DEF Own, Orderly, Disturbed
<1>4. \A n \in DOMAIN records : n \in Nat
  BY <1>1, RecordFields
<1>5. \A n \in DOMAIN records : (\A m \in DOMAIN records : m <= n) => n \in DOMAIN records'
  BY <1>3, <1>4
<1>6. ASSUME NEW c \in Change
      PROVE  (ReadOf(c) /\ ViewOf(c) /\ MakesOf(c) /\ RemovesOf(c))'
  <2>1. ReadOf(c)'
    BY <1>1, <1>2, <1>3, <1>5 DEF ReadOf, Own
  <2>2. ViewOf(c)'
    BY <1>1, <1>2, <1>3, <1>5 DEF ViewOf
  <2>3. MakesOf(c)'
    <3>1. ASSUME pc[c] \in After
          PROVE  \E x \in DOMAIN records' : req[c].revision <= x
      <4>1. PICK n \in DOMAIN records : req[c].revision <= n
        BY <1>1, <3>1 DEF MakesOf
      <4>2. PICK m \in DOMAIN records' : n = m \/ n < m
        BY <1>3
      <4>3. req[c].revision \in Nat /\ n \in Nat /\ m \in Nat
        BY <1>1, <1>3, <1>4, RequestFields
      <4> QED
        BY <4>1, <4>2, <4>3
    <3> QED
      BY <1>1, <1>2, <3>1 DEF MakesOf
  <2>4. RemovesOf(c)'
    BY <1>2, <1>3 DEF RemovesOf
  <2> QED
    BY <2>1, <2>2, <2>3, <2>4
<1> QED
  BY <1>1, <1>2, <1>3, <1>6 DEF RecordsInvariant, Own

LEMMA AgesInvariant ==
  ASSUME HelmInvariant, Orderly, NEW n \in DOMAIN records, Ages(n)
  PROVE  RecordsInvariant'
<1>1. /\ Types /\ Alone /\ (\A m \in DOMAIN records : Own(m))
      /\ \A c \in Change : ReadOf(c) /\ ViewOf(c) /\ MakesOf(c) /\ RemovesOf(c)
      /\ \A j \in Job : Spares(j)
  BY OrderlyFacts
<1>2. /\ UNCHANGED <<requests, jobs, made>>
      /\ records' = [records EXCEPT ![n].old = TRUE]
  BY DEF Ages
<1>3. /\ DOMAIN records' = DOMAIN records
      /\ \A m \in DOMAIN records : /\ records'[m].revision = records[m].revision
                                   /\ records'[m].config = records[m].config
                                   /\ records'[m].status = records[m].status
  BY <1>1, <1>2, RecordFields DEF Record
<1>4. Alone' /\ (\A m \in DOMAIN records' : Own(m)')
  BY <1>1, <1>2, <1>3 DEF Alone, InFlight, requests, Own
<1>5. \A c \in Change : (ReadOf(c) /\ ViewOf(c) /\ MakesOf(c) /\ RemovesOf(c))'
  BY <1>1, <1>2, <1>3 DEF ReadOf, ViewOf, MakesOf, RemovesOf, Own, requests, jobs, Moving
<1>6. \A j \in Job : Spares(j)'
  BY <1>1, <1>2, <1>3 DEF Spares, jobs
<1> QED
  BY <1>4, <1>5, <1>6 DEF RecordsInvariant

-----------------------------------------------------------------------------
(* The invariant of mutual exclusion.                                      *)

\* Nothing has overlapped with a rollback or an uninstall, and no record was overwritten by
\* that of another revision.
Serial == ~Disturbed({"rollback", "uninstall", "overwritten"})

Apart == \A c, d \in InFlight : c # d => req[c].op \notin {"rollback", "uninstall"}

Greatest(n) == n \in DOMAIN records /\ \A m \in DOMAIN records : m <= n

\* What an upgrade has read is still pending if its operation is still at work, and still the
\* only one deployed if it was, until there is a newer revision.
HoldsOf(d) ==
  pc[d] \in {"preparing", "stuck", "mapping"} =>
    /\ \E m \in DOMAIN records : req[d].rel.revision <= m
    /\ \A c \in Change : pc[c] \in After /\ req[c].revision = req[d].rel.revision =>
         req[d].rel.status = "pending" /\ ~req[d].rel.old
    /\ req[d].rel.status = "deployed" /\ Greatest(req[d].rel.revision) =>
         \A n \in Having("deployed") : n = req[d].rel.revision

\* An operation at work has the newest record, which is pending and not old, and replaces
\* whatever is deployed.
WorkOf(c) ==
  pc[c] \in After =>
    /\ Greatest(req[c].revision)
    /\ records[req[c].revision].status = "pending" /\ ~records[req[c].revision].old
    /\ req[c].base.revision < req[c].revision
    /\ pc[c] = "recording" => Having("deployed") = {}
    /\ req[c].op # "rollback" => \A n \in Having("deployed") : n = req[c].base.revision

OneWorks == \A c, d \in Change : pc[c] \in After /\ pc[d] \in After => c = d
OneDeployed == \A m, n \in Having("deployed") : m = n

ExclusionInvariant ==
  Serial =>
    /\ Apart /\ OneWorks /\ OneDeployed
    /\ \A n \in DOMAIN records : records[n].revision = n
    /\ \A c \in Change : HoldsOf(c) /\ WorkOf(c) /\ RemovesOf(c)
    /\ \A j \in Job : Spares(j)

-----------------------------------------------------------------------------
(* Mutual exclusion.                                                       *)

LEMMA SerialFacts ==
  ASSUME Shapes, ExclusionInvariant, Serial
  PROVE  /\ Types /\ Apart /\ OneWorks /\ OneDeployed
         /\ \A n \in DOMAIN records : n \in Nat \ {0} /\ records[n].revision = n
         /\ \A c \in Change : HoldsOf(c) /\ WorkOf(c) /\ RemovesOf(c) /\ OpOf(c)
         /\ JobFunctions /\ \A j \in Job : Spares(j) /\ JobOf(j)
         /\ pc \in [Change -> Places] /\ req \in [Change -> Request]
<1>1. Types
  BY DEF Shapes
<1>2. \A n \in DOMAIN records : n \in Nat \ {0}
  BY <1>1, RecordFields
<1> QED
  BY <1>1, <1>2, TypesAsSets DEF Shapes, ExclusionInvariant

\* The newest record is the greatest one.
LEMMA LastGreatest ==
  ASSUME Types, records # << >>, \A n \in DOMAIN records : records[n].revision = n
  PROVE  Greatest(Last) /\ Last \in Nat \ {0} /\ records[Last] \in Record
<1>1. DOMAIN records # {}
  BY EmptyRecords DEF Types
<1> QED
  BY <1>1, LastFacts DEF Greatest

LEMMA GreatestUnique ==
  ASSUME Types, NEW m, NEW n, Greatest(m), Greatest(n)
  PROVE  m = n
<1>1. m \in Nat /\ n \in Nat /\ m <= n /\ n <= m
  BY RecordFields DEF Greatest
<1> QED
  BY <1>1

\* What begins while another request is under way has overlapped with it.
LEMMA BeginsSerial ==
  ASSUME Shapes, NEW what \in Operations, Begins(what), Serial'
  PROVE  \/ InFlight = {} /\ (what = "uninstall" => Moving = {})
         \/ /\ what \notin {"rollback", "uninstall"}
            /\ \A d \in InFlight : req[d].op \notin {"rollback", "uninstall"}
<1> DEFINE others == {KindOf(req[d].op) : d \in InFlight}
<1>1. {"rollback", "uninstall"} \cap happened' = {}
  BY DEF Serial, Disturbed
<1>2. CASE others = {} /\ (what # "uninstall" \/ Moving = {})
  BY <1>2
<1>3. CASE ~(others = {} /\ (what # "uninstall" \/ Moving = {}))
  <2>1. {KindOf(what)} \cup others \subseteq happened'
    BY <1>3 DEF Begins
  <2>2. what \notin {"rollback", "uninstall"}
    BY <1>1, <2>1 DEF KindOf, Operations
  <2>3. ASSUME NEW d \in InFlight
        PROVE  req[d].op \notin {"rollback", "uninstall"}
    <3>1. KindOf(req[d].op) \in happened'
      BY <2>1
    <3> QED
      BY <1>1, <3>1 DEF KindOf
  <2> QED
    BY <2>2, <2>3
<1> QED
  BY <1>2, <1>3

LEMMA ApartKept ==
  ASSUME Shapes, Apart, Serial', NEW c \in Change, Step(c)
  PROVE  Apart'
<1>1. \A d \in Change \ {c} : pc'[d] = pc[d] /\ req'[d] = req[d]
  BY OthersUnchanged DEF Shapes
<1>2. CASE c \in InFlight /\ (pc'[c] = "ended" \/ req'[c].op = req[c].op)
  BY <1>1, <1>2 DEF Apart, InFlight
<1>3. CASE pc[c] = "new" /\ \E what \in Operations : Begins(what) /\ req'[c].op = what
  <2>1. \/ InFlight = {}
        \/ /\ req'[c].op \notin {"rollback", "uninstall"}
           /\ \A d \in InFlight : req[d].op \notin {"rollback", "uninstall"}
    BY <1>3, BeginsSerial
  <2> QED
    BY <1>1, <2>1 DEF Apart, InFlight
<1> QED
  BY <1>2, <1>3, StepBegins

\* While a request is under way, no other one uninstalls.
LEMMA OthersStay ==
  ASSUME Shapes, Apart, Serial', NEW c \in Change, Step(c), NEW d \in Change, c # d
  PROVE  pc[d] # "uninstalling"
<1>1. OpOf(d)
  BY DEF Shapes
<1>2. CASE c \in InFlight
  BY <1>1, <1>2 DEF Apart, InFlight, OpOf
<1>3. CASE pc[c] = "new" /\ \E what \in Operations : Begins(what) /\ req'[c].op = what
  <2>1. InFlight = {} \/ \A e \in InFlight : req[e].op \notin {"rollback", "uninstall"}
    BY <1>3, BeginsSerial
  <2> QED
    BY <1>1, <2>1 DEF InFlight, OpOf
<1> QED
  BY <1>2, <1>3, StepBegins

\* A request that makes and removes no record: what it may do to those there are.
LEMMA ExclusionStep ==
  ASSUME Shapes, ExclusionInvariant, Serial, Serial', NEW c \in Change, Step(c), UNCHANGED jobs,
         DOMAIN records' = DOMAIN records,
         \A n \in DOMAIN records : records'[n].revision = records[n].revision,
         pc'[c] \in After => pc[c] \in After /\ req'[c].revision = req[c].revision,
         \A n \in Having("deployed")' \ Having("deployed") : Greatest(n),
         \A d \in Change \ {c} : pc[d] \in After =>
           /\ records'[req[d].revision].status = "pending" /\ ~records'[req[d].revision].old
           /\ Having("deployed")' \subseteq Having("deployed"),
         OneDeployed', HoldsOf(c)', WorkOf(c)', RemovesOf(c)'
  PROVE  ExclusionInvariant'
<1>1. /\ Types /\ Apart /\ OneWorks
      /\ \A n \in DOMAIN records : n \in Nat \ {0} /\ records[n].revision = n
      /\ \A d \in Change : HoldsOf(d) /\ WorkOf(d)
      /\ \A j \in Job : Spares(j)
  BY SerialFacts
<1>2. Apart'
  BY <1>1, ApartKept
<1>3. \A d \in Change \ {c} : pc'[d] = pc[d] /\ req'[d] = req[d] /\ pc[d] # "uninstalling"
  BY <1>1, OthersUnchanged, OthersStay
<1>4. OneWorks'
  BY <1>1, <1>3 DEF OneWorks
<1>5. ASSUME NEW d \in Change, d # c
      PROVE  (HoldsOf(d) /\ WorkOf(d) /\ RemovesOf(d))'
  <2>1. RemovesOf(d)'
    BY <1>3, <1>5 DEF RemovesOf
  <2>2. WorkOf(d)'
    BY <1>1, <1>3, <1>5 DEF WorkOf, Greatest
  <2>3. HoldsOf(d)'
    <3>1. SUFFICES ASSUME pc[d] \in {"preparing", "stuck", "mapping"}
                   PROVE  HoldsOf(d)'
      BY <1>3, <1>5 DEF HoldsOf
    <3>2. \E m \in DOMAIN records' : req[d].rel.revision <= m
      BY <1>1, <3>1 DEF HoldsOf
    <3>3. \A e \in Change : pc'[e] \in After /\ req'[e].revision = req[d].rel.revision =>
            req[d].rel.status = "pending" /\ ~req[d].rel.old
      BY <1>1, <1>3, <3>1 DEF HoldsOf
    <3>4. ASSUME req[d].rel.status = "deployed", Greatest(req[d].rel.revision)',
                 NEW n \in Having("deployed")'
          PROVE  n = req[d].rel.revision
      <4>1. Greatest(req[d].rel.revision)
        BY <1>3, <1>5, <3>4 DEF Greatest
      <4>2. CASE n \in Having("deployed")
        BY <1>1, <3>1, <3>4, <4>1, <4>2 DEF HoldsOf
      <4>3. CASE n \notin Having("deployed")
        BY <1>1, <3>4, <4>1, <4>3, GreatestUnique
      <4> QED
        BY <4>2, <4>3
    <3> QED
      BY <1>3, <1>5, <3>2, <3>3, <3>4 DEF HoldsOf
  <2> QED
    BY <2>1, <2>2, <2>3
<1>6. \A j \in Job : Spares(j)'
  BY <1>1 DEF Spares, jobs
<1> QED
  BY <1>1, <1>2, <1>4, <1>5, <1>6 DEF ExclusionInvariant

\* The steps that only read the records.
LEMMA ReadersExclusion ==
  ASSUME Shapes, ExclusionInvariant, Serial, Serial', NEW c \in Change,
         \/ Upgrade(c) \/ CheckRevision(c) \/ Deploy(c) \/ DeployBatch(c) \/ (\E n \in DOMAIN records : Rollback(c, n))
         \/ ReadRelease(c) \/ Refused(c) \/ Apply(c) \/ Crash(c)
  PROVE  ExclusionInvariant'
<1> USE DEF Before, After
<1>1. /\ pc \in [Change -> Places] /\ req \in [Change -> Request] /\ Types
      /\ OneDeployed /\ OneWorks
      /\ \A d \in Change : HoldsOf(d) /\ WorkOf(d)
      /\ \A n \in DOMAIN records : n \in Nat \ {0} /\ records[n].revision = n
  BY SerialFacts
<1>2. /\ records' = records /\ UNCHANGED jobs /\ Step(c) /\ Having("deployed")' = Having("deployed")
      /\ OneDeployed'
  BY <1>1 DEF Step, Upgrade, CheckRevision, Deploy, DeployBatch, Rollback, ReadRelease, Refused, Apply, Crash,
              Having, OneDeployed
<1>3. ASSUME pc'[c] \in After => pc[c] \in After /\ req'[c].revision = req[c].revision,
             HoldsOf(c)', WorkOf(c)', RemovesOf(c)'
      PROVE  ExclusionInvariant'
  <2>1. \A d \in Change \ {c} : pc[d] \in After =>
          /\ records'[req[d].revision].status = "pending" /\ ~records'[req[d].revision].old
          /\ Having("deployed")' \subseteq Having("deployed")
    BY <1>1, <1>2 DEF WorkOf
  <2> QED
    BY <1>2, <1>3, <2>1, ExclusionStep
<1>4. ASSUME pc'[c] \in {"checking", "reading", "rolling", "ended"}
      PROVE  ExclusionInvariant'
  BY <1>3, <1>4 DEF HoldsOf, WorkOf, RemovesOf
<1>5. CASE Upgrade(c) \/ CheckRevision(c) \/ Deploy(c) \/ DeployBatch(c) \/ (\E n \in DOMAIN records : Rollback(c, n)) \/ Crash(c)
  <2>1. pc'[c] \in {"checking", "reading", "rolling", "ended"}
    BY <1>1, <1>5 DEF Upgrade, CheckRevision, Deploy, DeployBatch, Rollback, Crash, At, Ends
  <2> QED
    BY <1>4, <2>1
<1>6. CASE ReadRelease(c)
  <2>1. CASE records # << >> /\ req' = [req EXCEPT ![c].rel = records[Last]] /\ At(c, "preparing")
    <3>1. pc'[c] = "preparing" /\ req'[c].rel = records[Last] /\ c \in Change
      BY <1>1, <2>1 DEF At, Request
    <3>2. Greatest(Last) /\ Last \in Nat \ {0} /\ records[Last].revision = Last
      BY <1>1, <2>1, LastGreatest DEF Greatest
    <3>3. \A d \in Change \ {c} : pc'[d] = pc[d] /\ req'[d] = req[d]
      BY <1>1, <1>2, OthersUnchanged
    <3>4. \E m \in DOMAIN records' : records[Last].revision <= m
      BY <1>2, <3>2 DEF Greatest
    <3>5. ASSUME NEW d \in Change, pc'[d] \in After, req'[d].revision = Last
          PROVE  records[Last].status = "pending" /\ ~records[Last].old
      BY <1>1, <3>1, <3>3, <3>5 DEF WorkOf
    <3>6. records[Last].status = "deployed" => \A n \in Having("deployed")' : n = Last
      BY <1>1, <1>2, <3>2 DEF OneDeployed, Having, Greatest
    <3>7. HoldsOf(c)'
      BY <3>1, <3>2, <3>4, <3>5, <3>6 DEF HoldsOf
    <3> QED
      BY <1>3, <3>1, <3>7 DEF WorkOf, RemovesOf
  <2>2. CASE Ends(c)
    <3>1. pc'[c] = "ended"
      BY <1>1, <2>2 DEF Ends, At
    <3> QED
      BY <1>4, <3>1
  <2> QED
    BY <1>6, <2>1, <2>2 DEF ReadRelease
<1>7. CASE Refused(c)
  <2>1. CASE pc[c] = "preparing" /\ UNCHANGED req /\ (At(c, "stuck") \/ At(c, "mapping"))
    <3>1. pc'[c] \in {"stuck", "mapping"} /\ req' = req
      BY <1>1, <2>1 DEF At
    <3>2. \A d \in Change \ {c} : pc'[d] = pc[d]
      BY <1>1, <1>2, OthersUnchanged
    <3>3. HoldsOf(c)
      BY <1>1
    <3>4. HoldsOf(c)'
      BY <1>2, <2>1, <3>1, <3>2, <3>3 DEF HoldsOf, Greatest
    <3> QED
      BY <1>3, <3>1, <3>4 DEF WorkOf, RemovesOf
  <2>2. CASE Ends(c)
    <3>1. pc'[c] = "ended"
      BY <1>1, <2>2 DEF Ends, At
    <3> QED
      BY <1>4, <3>1
  <2> QED
    BY <1>7, <2>1, <2>2 DEF Refused
<1>8. CASE Apply(c)
  <2>1. pc[c] = "applying" /\ pc'[c] = "replacing" /\ req' = req
    BY <1>1, <1>8 DEF Apply, At
  <2>2. WorkOf(c)'
    <3>1. WorkOf(c)
      BY <1>1
    <3> QED
      BY <1>2, <2>1, <3>1 DEF WorkOf, Greatest
  <2> QED
    BY <1>3, <2>1, <2>2 DEF HoldsOf, RemovesOf
<1> QED
  BY <1>5, <1>6, <1>7, <1>8 DEF Step

\* The steps of the operation at work.
LEMMA WorkersExclusion ==
  ASSUME Shapes, ExclusionInvariant, Serial, Serial', NEW c \in Change,
         ApplyFails(c) \/ Supersede(c) \/ RecordDeployed(c)
  PROVE  ExclusionInvariant'
<1> USE DEF Before, After
<1>1. /\ pc \in [Change -> Places] /\ req \in [Change -> Request] /\ Types
      /\ OneDeployed /\ OneWorks /\ WorkOf(c)
      /\ \A n \in DOMAIN records : n \in Nat \ {0} /\ records[n].revision = n
  BY SerialFacts
<1>2. UNCHANGED jobs /\ Step(c) /\ pc[c] \in After
  BY DEF Step, ApplyFails, Supersede, RecordDeployed
<1> DEFINE k == req[c].revision
           b == req[c].base.revision
<1>3. /\ Greatest(k) /\ k \in DOMAIN records /\ k \in Nat \ {0} /\ b \in Nat /\ b # k
      /\ records[k].status = "pending" /\ ~records[k].old
  <2>1. Greatest(k) /\ b < k /\ records[k].status = "pending" /\ ~records[k].old
    BY <1>1, <1>2 DEF WorkOf
  <2>2. b \in Nat
    BY <1>1, RequestFields DEF Record
  <2>3. k \in DOMAIN records /\ k \in Nat \ {0}
    BY <1>1, <2>1 DEF Greatest
  <2> QED
    BY <2>1, <2>2, <2>3
<1>4. \A d \in Change \ {c} : pc[d] \notin After
  BY <1>1, <1>2 DEF OneWorks
<1>5. ASSUME DOMAIN records' = DOMAIN records,
             \A n \in DOMAIN records : records'[n].revision = records[n].revision,
             \A n \in DOMAIN records \ {k} : records'[n].status = "deployed" => records[n].status = "deployed",
             OneDeployed', WorkOf(c)', pc'[c] \in {"recording", "ended"}, pc'[c] = "recording" => req' = req
      PROVE  ExclusionInvariant'
  <2>1. \A n \in Having("deployed")' \ Having("deployed") : Greatest(n)
    BY <1>3, <1>5 DEF Having
  <2>2. HoldsOf(c)' /\ RemovesOf(c)'
    BY <1>5 DEF HoldsOf, RemovesOf
  <2> QED
    BY <1>2, <1>4, <1>5, <2>1, <2>2, ExclusionStep
<1>6. [req[c].base EXCEPT !.status = "superseded"].revision = b
      /\ [req[c].base EXCEPT !.status = "superseded"].status = "superseded"
  BY <1>1, RequestFields DEF Record
<1>7. CASE ApplyFails(c)
  <2> DEFINE r == MakeRecord(k, "failed", req[c].config)
             s == [req[c].base EXCEPT !.status = "superseded"]
             failed == Update(records, r)
  <2>1. r.revision = k /\ r.status = "failed" /\ s.revision = b /\ s.status = "superseded"
    BY <1>6 DEF MakeRecord
  <2>2. Ends(c) /\ records' = IF req[c].op = "rollback" THEN Update(failed, s) ELSE failed
    BY <1>7 DEF ApplyFails
  <2> HIDE DEF r, s, k, b
  <2>3. /\ DOMAIN records' = DOMAIN records
        /\ \A n \in DOMAIN records :
             /\ records'[n].revision = records[n].revision
             /\ records'[n].status = "deployed" => records[n].status = "deployed"
    BY <1>1, <2>1, <2>2 DEF Update
  <2>4. OneDeployed'
    BY <1>1, <2>3 DEF OneDeployed, Having
  <2>5. pc'[c] = "ended"
    BY <1>1, <2>2 DEF Ends, At
  <2> QED
    BY <1>5, <2>3, <2>4, <2>5 DEF WorkOf
<1>8. CASE Supersede(c)
  <2>1. pc[c] = "replacing" /\ pc'[c] = "recording" /\ req' = req
    BY <1>1, <1>8 DEF Supersede, At
  <2>2. /\ DOMAIN records' = DOMAIN records
        /\ \A n \in DOMAIN records :
             /\ records'[n].revision = records[n].revision
             /\ records'[n].status # "deployed"
        /\ records'[k].status = "pending" /\ ~records'[k].old
    <3>1. CASE req[c].op = "rollback"
      <4>1. records' = [n \in DOMAIN records |->
                          IF n \in Having("deployed") THEN [records[n] EXCEPT !.status = "superseded"]
                          ELSE records[n]]
        BY <1>8, <3>1 DEF Supersede
      <4>2. \A n \in DOMAIN records : records[n] \in Record
        BY <1>1, RecordFields
      <4> QED
        BY <1>3, <4>1, <4>2 DEF Having, Record
    <3>2. CASE req[c].op # "rollback"
      <4> DEFINE s == [req[c].base EXCEPT !.status = "superseded"]
      <4>1. records' = Update(records, s)
        BY <1>8, <3>2 DEF Supersede
      <4>2. \A n \in DOMAIN records : records[n].status = "deployed" => n = b
        BY <1>1, <1>2, <3>2 DEF WorkOf, Having
      <4>3. s.revision = b /\ s.status = "superseded"
        BY <1>6
      <4> HIDE DEF s, k, b
      <4> QED
        BY <1>1, <1>3, <4>1, <4>2, <4>3 DEF Update
    <3> QED
      BY <3>1, <3>2
  <2>3. Having("deployed")' = {} /\ OneDeployed'
    BY <2>2 DEF Having, OneDeployed
  <2>4. WorkOf(c)'
    <3>1. WorkOf(c)
      BY <1>1
    <3> QED
      BY <1>3, <2>1, <2>2, <2>3, <3>1 DEF WorkOf, Greatest
  <2> QED
    BY <1>5, <2>1, <2>2, <2>3, <2>4
<1>9. CASE RecordDeployed(c)
  <2> DEFINE r == MakeRecord(k, "deployed", req[c].config)
  <2>1. records' = Update(records, r) /\ Ends(c) /\ pc[c] = "recording"
    BY <1>9 DEF RecordDeployed
  <2>2. r.revision = k
    BY DEF MakeRecord
  <2>3. \A n \in DOMAIN records : records[n].status # "deployed"
    BY <1>1, <2>1 DEF WorkOf, Having
  <2> HIDE DEF r, k
  <2>4. /\ DOMAIN records' = DOMAIN records
        /\ \A n \in DOMAIN records : records'[n].revision = records[n].revision
        /\ \A n \in DOMAIN records \ {k} : records'[n] = records[n]
    BY <1>1, <1>3, <2>1, <2>2 DEF Update
  <2>5. OneDeployed'
    BY <2>3, <2>4 DEF OneDeployed, Having
  <2>6. pc'[c] = "ended"
    BY <1>1, <2>1 DEF Ends, At
  <2> QED
    BY <1>5, <2>4, <2>5, <2>6 DEF WorkOf
<1> QED
  BY <1>7, <1>8, <1>9

\* The remedies of the agent: neither touches the operation at work.
LEMMA RemediesExclusion ==
  ASSUME Shapes, ExclusionInvariant, Serial, Serial', NEW c \in Change, TakeOver(c) \/ RemapAPIs(c)
  PROVE  ExclusionInvariant'
<1> USE DEF Before, After
<1>1. /\ pc \in [Change -> Places] /\ req \in [Change -> Request] /\ Types /\ HoldsOf(c)
      /\ OneDeployed /\ (\A d \in Change : WorkOf(d))
      /\ \A n \in DOMAIN records : n \in Nat \ {0} /\ records[n].revision = n
  BY SerialFacts
<1>2. UNCHANGED jobs /\ Step(c)
  BY DEF Step, TakeOver, RemapAPIs
<1>3. \A n : Overwrites(c, n) \subseteq happened' => req[c].rel.revision = n
  BY DEF Serial, Disturbed, Overwrites
<1>4. ASSUME pc'[c] \in {"retrying", "ended"},
             DOMAIN records' = DOMAIN records,
             \A n \in DOMAIN records : records'[n].revision = records[n].revision,
             \A n \in Having("deployed")' \ Having("deployed") : Greatest(n),
             \A d \in Change \ {c} : pc[d] \in After =>
               /\ records'[req[d].revision].status = "pending" /\ ~records'[req[d].revision].old
               /\ Having("deployed")' \subseteq Having("deployed"),
             OneDeployed'
      PROVE  ExclusionInvariant'
  <2>1. HoldsOf(c)' /\ WorkOf(c)' /\ RemovesOf(c)'
    BY <1>4 DEF HoldsOf, WorkOf, RemovesOf
  <2> QED
    BY <1>2, <1>4, <2>1, ExclusionStep
<1>5. ASSUME records' = records, pc'[c] \in {"retrying", "ended"}
      PROVE  ExclusionInvariant'
  <2>1. Having("deployed")' = Having("deployed") /\ OneDeployed'
    BY <1>1, <1>5 DEF Having, OneDeployed
  <2>2. \A d \in Change \ {c} : pc[d] \in After =>
          records'[req[d].revision].status = "pending" /\ ~records'[req[d].revision].old
    BY <1>1, <1>5 DEF WorkOf
  <2> QED
    BY <1>4, <1>5, <2>1, <2>2
<1>6. CASE TakeOver(c)
  <2> DEFINE n == Newest(Having("pending"))
             r == [req[c].rel EXCEPT !.status = "failed", !.old = FALSE]
  <2>1. CASE Having("pending") # {} /\ records[n].old
    <3>1. /\ records' = [records EXCEPT ![n] = r] /\ At(c, "retrying")
          /\ happened' = happened \cup Overwrites(c, n)
      BY <1>6, <2>1 DEF TakeOver
    <3>2. Having("pending") \in SUBSET DOMAIN records
      BY DEF Having
    <3>3. /\ n \in Having("pending")
          /\ \A m \in Having("pending") : records[m].revision <= records[n].revision
      BY <1>1, <2>1, <3>2, NewestFacts, TypesAsSets
    <3>4. n \in DOMAIN records /\ req[c].rel.revision = n
      BY <1>3, <3>1, <3>2, <3>3
    <3>5. r.revision = n /\ r.status = "failed"
      BY <1>1, <3>4, RequestFields DEF Record
    <3>6. \A d \in Change : pc[d] \notin After
      <4>1. SUFFICES ASSUME NEW d \in Change, pc[d] \in After
                     PROVE  FALSE
        OBVIOUS
      <4>2. /\ Greatest(req[d].revision) /\ req[d].revision \in Having("pending")
            /\ ~records[req[d].revision].old
        BY <1>1, <4>1 DEF WorkOf, Having, Greatest
      <4>3. Greatest(n)
        BY <1>1, <3>2, <3>3, <4>2 DEF Greatest
      <4>4. n = req[d].revision
        BY <1>1, <4>2, <4>3, GreatestUnique
      <4> QED
        BY <2>1, <4>2, <4>4
    <3> HIDE DEF n, r
    <3>7. /\ DOMAIN records' = DOMAIN records
          /\ \A m \in DOMAIN records : records'[m].revision = records[m].revision
          /\ Having("deployed")' \subseteq Having("deployed")
      BY <1>1, <3>1, <3>4, <3>5 DEF Having
    <3>8. OneDeployed'
      BY <1>1, <3>7 DEF OneDeployed
    <3>9. pc'[c] = "retrying"
      BY <1>1, <3>1 DEF At
    <3> QED
      BY <1>4, <3>6, <3>7, <3>8, <3>9
  <2>2. CASE ~(Having("pending") # {} /\ records[n].old)
    <3>1. Ends(c) /\ records' = records
      BY <1>6, <2>2 DEF TakeOver
    <3> QED
      BY <1>1, <1>5, <3>1 DEF Ends, At
  <2> QED
    BY <2>1, <2>2
<1>7. CASE RemapAPIs(c)
  <2>1. pc[c] = "mapping" /\ pc'[c] = "retrying"
    BY <1>1, <1>7 DEF RemapAPIs, At
  <2>2. CASE records = << >>
    BY <1>5, <1>7, <2>1, <2>2 DEF RemapAPIs
  <2>3. CASE records # << >>
    <3> DEFINE k == Last
               r == req[c].rel
    <3>1. /\ records' = [records EXCEPT ![k] = r]
          /\ happened' = happened \cup Overwrites(c, k)
      BY <1>7, <2>3 DEF RemapAPIs
    <3>2. Greatest(k) /\ k \in DOMAIN records
      BY <1>1, <2>3, LastGreatest DEF Greatest
    <3>3. r.revision = k
      BY <1>3, <3>1
    <3>4. r.status = "deployed" => \A n \in Having("deployed") : n = k
      BY <1>1, <2>1, <3>2, <3>3 DEF HoldsOf
    <3>5. ASSUME NEW d \in Change, pc[d] \in After
          PROVE  req[d].revision = k /\ r.status = "pending" /\ ~r.old
      <4>1. Greatest(req[d].revision)
        BY <1>1, <3>5 DEF WorkOf
      <4>2. req[d].revision = k
        BY <1>1, <3>2, <4>1, GreatestUnique
      <4> QED
        BY <1>1, <2>1, <3>3, <3>5, <4>2 DEF HoldsOf
    <3> HIDE DEF k, r
    <3>6. /\ DOMAIN records' = DOMAIN records
          /\ \A n \in DOMAIN records : records'[n].revision = records[n].revision
          /\ records'[k] = r /\ \A n \in DOMAIN records \ {k} : records'[n] = records[n]
      BY <1>1, <3>1, <3>2, <3>3
    <3>7. Having("deployed")' \ Having("deployed") \subseteq {k}
      BY <3>6 DEF Having
    <3>8. OneDeployed'
      BY <1>1, <3>4, <3>6 DEF OneDeployed, Having
    <3>9. ASSUME NEW d \in Change, pc[d] \in After
          PROVE  /\ records'[req[d].revision].status = "pending" /\ ~records'[req[d].revision].old
                 /\ Having("deployed")' \subseteq Having("deployed")
      BY <3>5, <3>6, <3>9 DEF Having
    <3> QED
      BY <1>4, <2>1, <3>2, <3>6, <3>7, <3>8, <3>9
  <2> QED
    BY <2>2, <2>3
<1> QED
  BY <1>6, <1>7

\* The steps that make the next revision: an upgrade makes none while one is at work.
LEMMA MakersExclusion ==
  ASSUME Shapes, ExclusionInvariant, Serial, Serial', NEW c \in Change, Prepare(c) \/ PrepareRollback(c)
  PROVE  ExclusionInvariant'
<1> USE DEF Before, After
<1>1. /\ pc \in [Change -> Places] /\ req \in [Change -> Request] /\ Types /\ OpOf(c)
      /\ Apart /\ OneDeployed /\ OneWorks
      /\ \A d \in Change : HoldsOf(d) /\ WorkOf(d)
      /\ \A n \in DOMAIN records : n \in Nat \ {0} /\ records[n].revision = n
      /\ \A j \in Job : Spares(j)
  BY SerialFacts
<1>2. UNCHANGED jobs /\ Step(c)
  BY DEF Step, Prepare, PrepareRollback
<1>3. ASSUME Ends(c), records' = records
      PROVE  ExclusionInvariant'
  <2>1. Having("deployed")' = Having("deployed") /\ OneDeployed'
    BY <1>1, <1>3 DEF Having, OneDeployed
  <2>2. \A d \in Change \ {c} : pc[d] \in After =>
          records'[req[d].revision].status = "pending" /\ ~records'[req[d].revision].old
    BY <1>1, <1>3 DEF WorkOf
  <2>3. pc'[c] = "ended"
    BY <1>1, <1>3 DEF Ends, At
  <2>4. HoldsOf(c)' /\ WorkOf(c)' /\ RemovesOf(c)'
    BY <2>3 DEF HoldsOf, WorkOf, RemovesOf
  <2> QED
    BY <1>2, <1>3, <2>1, <2>2, <2>3, <2>4, ExclusionStep
<1>4. ASSUME NEW config, NEW n \in DOMAIN records, Makes(c, config, records[n]),
             \A d \in Change : pc[d] \notin After,
             req[c].op # "rollback" => \A m \in Having("deployed") : m = n
      PROVE  ExclusionInvariant'
  <2> DEFINE next == records[Last].revision + 1
  <2>1. records # << >>
    BY <1>1, <1>4, EmptyRecords DEF Types
  <2>2. /\ Last \in DOMAIN records /\ records[Last].revision = Last /\ Last \in Nat
        /\ \A m \in DOMAIN records : m <= Last
    BY <1>1, <2>1, LastGreatest DEF Greatest
  <2>3. next = Last + 1 /\ next \in Nat /\ \A m \in DOMAIN records : m \in Nat /\ m < next
    BY <1>1, <2>2
  <2>4. next \notin DOMAIN records
    BY <2>3
  <2> DEFINE r == MakeRecord(next, "pending", config)
  <2>5. /\ records' = Put(records, next, r)
        /\ req' = [req EXCEPT ![c].revision = next, ![c].config = config, ![c].base = records[n]]
        /\ At(c, "applying")
    BY <1>4, <2>4 DEF Makes
  <2>6. r.revision = next /\ r.status = "pending" /\ ~r.old
    BY DEF MakeRecord
  <2> HIDE DEF r, next
  <2>7. /\ DOMAIN records' = DOMAIN records \cup {next} /\ records'[next] = r
        /\ \A m \in DOMAIN records : records'[m] = records[m]
    BY <2>4, <2>5 DEF Put
  <2>8. /\ pc'[c] = "applying" /\ req'[c].revision = next /\ req'[c].base = records[n]
        /\ req'[c].op = req[c].op
    BY <1>1, <2>5 DEF At, Request
  <2>9. \A d \in Change \ {c} : pc'[d] = pc[d] /\ req'[d] = req[d] /\ pc[d] # "uninstalling"
    BY <1>1, <1>2, OthersUnchanged, OthersStay
  <2>10. Having("deployed")' = Having("deployed")
    BY <2>6, <2>7 DEF Having
  <2>11. Apart' /\ OneWorks' /\ OneDeployed' /\ \A m \in DOMAIN records' : records'[m].revision = m
    <3>1. Apart'
      BY <1>1, <1>2, ApartKept
    <3>2. OneWorks'
      BY <1>4, <2>9 DEF OneWorks
    <3> QED
      BY <1>1, <2>6, <2>7, <2>10, <3>1, <3>2 DEF OneDeployed
  <2>12. (HoldsOf(c) /\ WorkOf(c) /\ RemovesOf(c))'
    <3>1. records[n].revision = n /\ n < next
      BY <1>1, <2>3
    <3>2. next \in DOMAIN records' /\ \A m \in DOMAIN records' : m <= next
      BY <2>3, <2>7
    <3>3. WorkOf(c)'
      BY <1>4, <2>6, <2>7, <2>8, <2>10, <3>1, <3>2 DEF WorkOf, Greatest
    <3> QED
      BY <2>8, <3>3 DEF HoldsOf, RemovesOf
  <2>13. ASSUME NEW d \in Change, d # c
         PROVE  (HoldsOf(d) /\ WorkOf(d) /\ RemovesOf(d))'
    <3>1. WorkOf(d)' /\ RemovesOf(d)'
      BY <1>4, <2>9, <2>13 DEF WorkOf, RemovesOf
    <3>2. HoldsOf(d)'
      <4>1. SUFFICES ASSUME pc[d] \in {"preparing", "stuck", "mapping"}
                     PROVE  HoldsOf(d)'
        BY <2>9, <2>13 DEF HoldsOf
      <4>2. PICK m \in DOMAIN records : req[d].rel.revision <= m
        BY <1>1, <4>1 DEF HoldsOf
      <4>3. req[d].rel.revision \in Nat
        BY <1>1, RequestFields DEF Record
      <4>4. req[d].rel.revision < next
        BY <2>3, <4>2, <4>3
      <4>5. req[d].rel.revision # next /\ ~(next <= req[d].rel.revision) /\ next \in DOMAIN records'
        BY <2>3, <2>7, <4>3, <4>4
      <4>6. m \in DOMAIN records'
        BY <2>7
      <4>7. \A e \in Change : pc'[e] \in After => req'[e].revision = next
        BY <1>4, <2>8, <2>9
      <4> QED
        BY <2>9, <2>13, <4>2, <4>5, <4>6, <4>7 DEF HoldsOf, Greatest
    <3> QED
      BY <3>1, <3>2
  <2>14. \A j \in Job : Spares(j)'
    BY <1>1, <1>2, <2>7 DEF Spares, jobs
  <2> QED
    BY <2>11, <2>12, <2>13, <2>14 DEF ExclusionInvariant
<1>5. CASE Prepare(c)
  <2>1. records # << >> /\ records[Last].status # "pending" /\ Makes(c, req[c].config, records[Base])
    BY <1>5 DEF Prepare, Upgradable
  <2>2. Greatest(Last) /\ Base \in DOMAIN records
    <3>1. DOMAIN records # {}
      BY <1>1, <2>1, EmptyRecords DEF Types
    <3> QED
      BY <1>1, <2>1, <3>1, LastGreatest, BaseFacts
  <2>3. ASSUME NEW d \in Change, pc[d] \in After
        PROVE  FALSE
    <3>1. Greatest(req[d].revision) /\ records[req[d].revision].status = "pending"
      BY <1>1, <2>3 DEF WorkOf
    <3>2. req[d].revision = Last
      BY <1>1, <2>2, <3>1, GreatestUnique
    <3> QED
      BY <2>1, <3>1, <3>2
  <2>4. \A m \in Having("deployed") : m = Base
    <3>1. SUFFICES ASSUME NEW m \in Having("deployed")
                   PROVE  m = Base
      OBVIOUS
    <3>2. Having("deployed") \in SUBSET DOMAIN records /\ Having("deployed") # {}
      BY DEF Having
    <3>3. Base \in Having("deployed")
      BY <1>1, <3>2, NewestFacts, TypesAsSets DEF Base
    <3> QED
      BY <1>1, <3>3 DEF OneDeployed
  <2> QED
    BY <1>4, <2>1, <2>2, <2>3, <2>4
<1>6. CASE PrepareRollback(c)
  <2>1. pc[c] = "rolling" /\ req[c].op = "rollback" /\ c \in InFlight
    BY <1>1, <1>6 DEF PrepareRollback, OpOf, InFlight
  <2>2. \A d \in Change : pc[d] \notin After
    BY <1>1, <2>1 DEF Apart, InFlight
  <2>3. CASE req[c].view \in DOMAIN records
    <3>1. Last \in DOMAIN records
      BY <1>1, <2>3, LastFacts
    <3> QED
      BY <1>4, <1>6, <2>1, <2>2, <2>3, <3>1 DEF PrepareRollback
  <2>4. CASE req[c].view \notin DOMAIN records
    BY <1>3, <1>6, <2>4 DEF PrepareRollback
  <2> QED
    BY <2>3, <2>4
<1> QED
  BY <1>5, <1>6

\* The steps that begin or end a release.
LEMMA EndpointsExclusion ==
  ASSUME Shapes, ExclusionInvariant, Serial, Serial', NEW c \in Change,
         Install(c) \/ Uninstall(c) \/ Purge(c)
  PROVE  ExclusionInvariant'
<1> USE DEF Before, After
<1>1. /\ pc \in [Change -> Places] /\ req \in [Change -> Request] /\ Types /\ OpOf(c)
      /\ Apart /\ OneDeployed
      /\ \A d \in Change : HoldsOf(d) /\ WorkOf(d) /\ RemovesOf(d)
      /\ \A n \in DOMAIN records : n \in Nat \ {0} /\ records[n].revision = n
      /\ \A j \in Job : Spares(j) /\ JobOf(j)
  BY SerialFacts
<1>2. UNCHANGED jobs /\ Step(c) /\ Apart'
  <2>1. UNCHANGED jobs /\ Step(c)
    BY DEF Step, Install, Uninstall, Purge
  <2> QED
    BY <1>1, <2>1, ApartKept
<1>3. \A d \in Change \ {c} : pc'[d] = pc[d] /\ req'[d] = req[d] /\ pc[d] # "uninstalling"
  BY <1>1, <1>2, OthersUnchanged, OthersStay
<1>4. CASE Install(c)
  <2> DEFINE config == [settings |-> c, image |-> c, paused |-> FALSE]
             r == MakeRecord(1, "pending", config)
  <2>1. /\ records = << >> /\ At(c, "applying") /\ records' = [n \in {1} |-> r]
        /\ req' = [req EXCEPT ![c] = [Blank EXCEPT !.op = "install", !.revision = 1, !.config = config]]
    BY <1>4 DEF Install
  <2>2. r.revision = 1 /\ r.status = "pending" /\ ~r.old
    BY DEF MakeRecord
  <2> HIDE DEF r, config
  <2>3. pc'[c] = "applying" /\ req'[c].revision = 1 /\ req'[c].base.revision = 0
    BY <1>1, <2>1 DEF At, Blank, NoRecord
  <2>4. DOMAIN records = {}
    BY <1>1, <2>1, EmptyRecords DEF Types
  <2>5. \A d \in Change : pc[d] \notin {"preparing", "stuck", "mapping"} \cup After
    BY <1>1, <2>4 DEF HoldsOf, WorkOf, Greatest
  <2>6. \A d \in Change \ {c} : (HoldsOf(d) /\ WorkOf(d) /\ RemovesOf(d))'
    BY <1>3, <2>5 DEF HoldsOf, WorkOf, RemovesOf
  <2>7. Having("deployed")' = {} /\ OneDeployed'
    BY <2>1, <2>2 DEF Having, OneDeployed
  <2>8. (HoldsOf(c) /\ WorkOf(c) /\ RemovesOf(c))'
    BY <2>1, <2>2, <2>3, <2>7 DEF HoldsOf, WorkOf, RemovesOf, Greatest
  <2>9. OneWorks'
    BY <1>3, <2>5 DEF OneWorks
  <2>10. \A n \in DOMAIN records' : records'[n].revision = n
    BY <2>1, <2>2
  <2>11. \A j \in Job : Spares(j)'
    BY <1>1, <1>2, <2>4 DEF Spares, jobs
  <2> QED
    BY <1>2, <2>6, <2>7, <2>8, <2>9, <2>10, <2>11 DEF ExclusionInvariant
<1>5. CASE Uninstall(c)
  <2>1. /\ records # << >> /\ Begins("uninstall") /\ At(c, "uninstalling")
        /\ records' = [records EXCEPT ![Last].status = "uninstalling"]
        /\ req' = [req EXCEPT ![c] = [Blank EXCEPT !.op = "uninstall", !.seen = DOMAIN records]]
    BY <1>5 DEF Uninstall
  <2>2. InFlight = {} /\ Moving = {}
    BY <2>1, BeginsSerial DEF Operations
  <2>3. Greatest(Last) /\ records[Last] \in Record
    BY <1>1, <2>1, LastGreatest
  <2>4. pc'[c] = "uninstalling" /\ req'[c].seen = DOMAIN records
    BY <1>1, <2>1 DEF At, Blank
  <2>5. /\ DOMAIN records' = DOMAIN records /\ records'[Last].status = "uninstalling"
        /\ \A n \in DOMAIN records : records'[n].revision = records[n].revision
        /\ \A n \in DOMAIN records : n # Last => records'[n] = records[n]
    BY <2>1, <2>3 DEF Record, Greatest
  <2>6. RemovesOf(c)'
    <3>1. Moving' = {}
      BY <1>2, <2>2 DEF Moving, jobs
    <3>2. ASSUME NEW n \in DOMAIN records', \A m \in DOMAIN records' : m <= n
          PROVE  records'[n].status = "uninstalling"
      <4>1. Greatest(n)
        BY <2>5, <3>2 DEF Greatest
      <4> QED
        BY <1>1, <2>3, <2>5, <4>1, GreatestUnique
    <3> QED
      BY <2>4, <2>5, <3>1, <3>2 DEF RemovesOf
  <2>7. Having("deployed")' \subseteq Having("deployed") /\ OneDeployed'
    BY <1>1, <2>5 DEF Having, OneDeployed
  <2>8. \A d \in Change : pc[d] \notin After
    BY <2>2 DEF InFlight
  <2>9. HoldsOf(c)' /\ WorkOf(c)'
    BY <2>4 DEF HoldsOf, WorkOf
  <2> QED
    BY <1>2, <2>4, <2>5, <2>6, <2>7, <2>8, <2>9, ExclusionStep
<1>6. CASE Purge(c)
  <2>1. pc[c] = "uninstalling" /\ records' = Without(records, req[c].seen) /\ Ends(c)
    BY <1>6 DEF Purge
  <2>2. DOMAIN records' = {} /\ pc'[c] = "ended"
    BY <1>1, <2>1 DEF RemovesOf, Without, Ends, At
  <2>3. \A d \in Change : d # c => pc[d] \in {"new", "ended"}
    BY <1>1, <2>1 DEF Apart, InFlight, OpOf
  <2>4. \A d \in Change : (HoldsOf(d) /\ WorkOf(d) /\ RemovesOf(d))'
    BY <1>3, <2>2, <2>3 DEF HoldsOf, WorkOf, RemovesOf
  <2>5. OneWorks' /\ OneDeployed'
    BY <1>3, <2>2, <2>3 DEF OneWorks, OneDeployed, Having
  <2>6. \A j \in Job : todo[j] = {}
    BY <1>1, <2>1, JobFields DEF RemovesOf, Moving, JobOf
  <2>7. \A j \in Job : Spares(j)'
    BY <1>2, <2>6 DEF Spares, jobs
  <2> QED
    BY <1>2, <2>2, <2>4, <2>5, <2>7 DEF ExclusionInvariant
<1> QED
  BY <1>4, <1>5, <1>6

\* The steps of the tracker jobs.
LEMMA JobsExclusion ==
  ASSUME Shapes, ExclusionInvariant, Serial, Serial', NEW j \in Job, JobStep(j)
  PROVE  ExclusionInvariant'
<1>1. /\ Types /\ Apart /\ OneWorks /\ OneDeployed
      /\ \A n \in DOMAIN records : n \in Nat \ {0} /\ records[n].revision = n
      /\ \A c \in Change : HoldsOf(c) /\ WorkOf(c) /\ RemovesOf(c)
      /\ \A i \in Job : Spares(i)
  BY SerialFacts
<1>2. pc' = pc /\ req' = req
  BY DEF JobStep, List, ReadHistory, BackUp, DeleteRevision, MoveFails, JobEnds, requests
<1>3. Apart' /\ OneWorks'
  BY <1>1, <1>2 DEF Apart, InFlight, OneWorks
<1>4. /\ \A i \in Job : Spares(i)'
      /\ \A c \in Change : pc[c] # "uninstalling"
      /\ DOMAIN records' \subseteq DOMAIN records
      /\ \A n \in DOMAIN records' : records'[n] = records[n]
      /\ \A n \in DOMAIN records : \E m \in DOMAIN records' : n = m \/ n < m
  BY <1>1, JobRemoves DEF Serial, Disturbed
<1>5. Having("deployed")' \subseteq Having("deployed") /\ OneDeployed'
  BY <1>1, <1>4 DEF Having, OneDeployed
<1>6. \A n : Greatest(n) => n \in DOMAIN records' /\ \A m \in DOMAIN records' : m <= n
  BY <1>1, <1>4 DEF Greatest
<1>7. ASSUME NEW c \in Change
      PROVE  (HoldsOf(c) /\ WorkOf(c) /\ RemovesOf(c))'
  <2>1. HoldsOf(c)'
    <3>1. SUFFICES ASSUME pc[c] \in {"preparing", "stuck", "mapping"}
                   PROVE  HoldsOf(c)'
      BY <1>2 DEF HoldsOf
    <3>2. \E m \in DOMAIN records' : req[c].rel.revision <= m
      <4>1. PICK n \in DOMAIN records : req[c].rel.revision <= n
        BY <1>1, <3>1 DEF HoldsOf
      <4>2. PICK m \in DOMAIN records' : n = m \/ n < m
        BY <1>4
      <4>3. req[c].rel.revision \in Nat /\ n \in Nat /\ m \in Nat
        BY <1>1, <1>4, RequestFields DEF Record
      <4> QED
        BY <4>1, <4>2, <4>3
    <3>3. ASSUME req[c].rel.revision \in DOMAIN records', \A m \in DOMAIN records' : m <= req[c].rel.revision
          PROVE  Greatest(req[c].rel.revision)
      <4>1. ASSUME NEW n \in DOMAIN records
            PROVE  n <= req[c].rel.revision
        <5>1. PICK m \in DOMAIN records' : n = m \/ n < m
          BY <1>4
        <5>2. m <= req[c].rel.revision /\ m \in Nat /\ n \in Nat /\ req[c].rel.revision \in Nat
          BY <1>1, <1>4, <3>3
        <5> QED
          BY <5>1, <5>2
      <4> QED
        BY <1>4, <3>3, <4>1 DEF Greatest
    <3> QED
      BY <1>1, <1>2, <1>5, <3>1, <3>2, <3>3 DEF HoldsOf, Greatest
  <2>2. WorkOf(c)'
    BY <1>1, <1>2, <1>4, <1>5, <1>6 DEF WorkOf, Greatest
  <2>3. RemovesOf(c)'
    BY <1>2, <1>4 DEF RemovesOf
  <2> QED
    BY <2>1, <2>2, <2>3
<1> QED
  BY <1>1, <1>3, <1>4, <1>5, <1>7 DEF ExclusionInvariant

\* Only what nobody works on gets old.
LEMMA AgesExclusion ==
  ASSUME Shapes, ExclusionInvariant, Serial, NEW n \in DOMAIN records, Ages(n)
  PROVE  ExclusionInvariant'
<1>1. /\ Types /\ Apart /\ OneWorks /\ OneDeployed
      /\ \A m \in DOMAIN records : m \in Nat \ {0} /\ records[m].revision = m
      /\ \A c \in Change : HoldsOf(c) /\ WorkOf(c) /\ RemovesOf(c)
      /\ \A j \in Job : Spares(j)
  BY SerialFacts
<1>2. /\ pc' = pc /\ req' = req /\ UNCHANGED jobs /\ Working(n) = {}
      /\ records' = [records EXCEPT ![n].old = TRUE]
  BY DEF Ages, requests
<1>3. /\ DOMAIN records' = DOMAIN records
      /\ \A m \in DOMAIN records : /\ records'[m].revision = records[m].revision
                                   /\ records'[m].status = records[m].status
                                   /\ m # n => records'[m] = records[m]
  BY <1>1, <1>2, RecordFields DEF Record
<1>4. Having("deployed")' = Having("deployed")
  BY <1>3 DEF Having
<1>5. Apart' /\ OneWorks' /\ OneDeployed'
  BY <1>1, <1>2, <1>4 DEF Apart, InFlight, OneWorks, OneDeployed
<1>6. ASSUME NEW c \in Change
      PROVE  (HoldsOf(c) /\ WorkOf(c) /\ RemovesOf(c))'
  <2>1. HoldsOf(c)'
    BY <1>1, <1>2, <1>3, <1>4 DEF HoldsOf, Greatest
  <2>2. pc[c] \in After => req[c].revision # n
    BY <1>2 DEF Working, After
  <2>3. WorkOf(c)'
    BY <1>1, <1>2, <1>3, <1>4, <2>2 DEF WorkOf, Greatest
  <2>4. RemovesOf(c)'
    BY <1>1, <1>2, <1>3 DEF RemovesOf, jobs, Moving
  <2> QED
    BY <2>1, <2>3, <2>4
<1>7. \A j \in Job : Spares(j)'
  BY <1>1, <1>2, <1>3 DEF Spares, jobs
<1> QED
  BY <1>1, <1>3, <1>5, <1>6, <1>7 DEF ExclusionInvariant

LEMMA InitExclusion == Init => ExclusionInvariant
<1> SUFFICES ASSUME Init
             PROVE  ExclusionInvariant
  OBVIOUS
<1>1. PICK n \in 0..Keep + 1, last \in {"deployed", "failed", "pending"} :
        records = [m \in 1..n |->
            MakeRecord(m, IF m = n THEN last
                          ELSE IF m = n - 1 /\ last # "deployed" THEN "deployed" ELSE "superseded", First)]
  BY DEF Init
<1>2. \A m \in DOMAIN records : records[m].revision = m
  BY <1>1 DEF MakeRecord
<1>3. OneDeployed
  BY <1>1, KeepAssumption DEF OneDeployed, Having, MakeRecord
<1>4. /\ \A c \in Change : pc[c] = "new"
      /\ \A j \in Job : todo[j] = {}
  BY DEF Init
<1> QED
  BY <1>2, <1>3, <1>4
  DEF ExclusionInvariant, Apart, InFlight, OneWorks, HoldsOf, WorkOf, RemovesOf, Spares, After

LEMMA NextExclusion == Shapes /\ ExclusionInvariant /\ [Next]_vars => ExclusionInvariant'
<1> SUFFICES ASSUME Shapes, ExclusionInvariant, [Next]_vars, Serial'
             PROVE  ExclusionInvariant'
  BY DEF ExclusionInvariant
<1>1. Serial
  BY HappenedGrows DEF Serial, Disturbed
<1>2. ASSUME NEW c \in Change, Step(c)
      PROVE  ExclusionInvariant'
  BY <1>1, <1>2, ReadersExclusion, WorkersExclusion, RemediesExclusion, MakersExclusion,
     EndpointsExclusion DEF Step
<1>3. ASSUME NEW j \in Job, JobStep(j)
      PROVE  ExclusionInvariant'
  BY <1>1, <1>3, JobsExclusion
<1>4. ASSUME NEW n \in DOMAIN records, Ages(n)
      PROVE  ExclusionInvariant'
  BY <1>1, <1>4, AgesExclusion
<1>5. CASE UNCHANGED vars
  BY <1>1, <1>5 DEF ExclusionInvariant, Serial, Disturbed, Apart, InFlight, OneWorks, OneDeployed,
                    Having, HoldsOf, WorkOf, RemovesOf, Moving, Spares, Greatest, vars
<1> QED
  BY <1>2, <1>3, <1>4, <1>5, NextSteps

-----------------------------------------------------------------------------
(* What the cluster runs.                                                  *)

\* Nothing went wrong.
Steady == Serial /\ ~Disturbed({"failure", "crash"})

Idle == \A c \in Change : pc[c] \notin After

\* While nothing is at work the cluster runs what is deployed, and what an agent may write back
\* as deployed; what is at work is what it runs from Apply on.
RunsInvariant ==
  Steady =>
    /\ Idle => \A n \in Having("deployed") : records[n].config = runs
    /\ \A c \in Change : pc[c] \in {"replacing", "recording"} => runs = req[c].config
    /\ Idle => \A d \in Change :
         /\ pc[d] \in {"preparing", "stuck", "mapping"}
         /\ req[d].rel.status = "deployed" /\ Greatest(req[d].rel.revision)
         => req[d].rel.config = runs

LEMMA SteadyBefore ==
  ASSUME Shapes, [Next]_vars, Steady'
  PROVE  Steady /\ Serial /\ Serial'
BY HappenedGrows DEF Steady, Serial, Disturbed

\* A step of a request that changes neither what runs nor what is deployed, and after which
\* nobody has read what was not there.
LEMMA RunsStep ==
  ASSUME Shapes, RunsInvariant, Steady, NEW c \in Change, Step(c), runs' = runs,
         DOMAIN records' = DOMAIN records,
         \A n \in DOMAIN records : records'[n].status = "deployed" => records'[n] = records[n],
         pc'[c] \notin After \cup {"preparing", "stuck", "mapping"},
         pc[c] \notin After
  PROVE  RunsInvariant'
<1>1. \A d \in Change \ {c} : pc'[d] = pc[d] /\ req'[d] = req[d]
  BY OthersUnchanged DEF Shapes
<1>2. Idle' => Idle
  BY <1>1 DEF Idle
<1>3. \A n : Greatest(n)' => Greatest(n)
  BY DEF Greatest
<1>4. Idle' => \A n \in Having("deployed")' : records'[n].config = runs'
  BY <1>2 DEF RunsInvariant, Having
<1>5. \A d \in Change : pc'[d] \in {"replacing", "recording"} => runs' = req'[d].config
  BY <1>1 DEF RunsInvariant, After
<1>6. ASSUME Idle', NEW d \in Change, pc'[d] \in {"preparing", "stuck", "mapping"},
             req'[d].rel.status = "deployed", Greatest(req[d].rel.revision)'
      PROVE  req'[d].rel.config = runs'
  <2>1. d # c /\ req'[d] = req[d] /\ pc'[d] = pc[d]
    BY <1>1, <1>6
  <2>2. Greatest(req[d].rel.revision)
    BY <1>6, <2>1 DEF Greatest
  <2> QED
    BY <1>2, <1>6, <2>1, <2>2 DEF RunsInvariant
<1> QED
  BY <1>4, <1>5, <1>6 DEF RunsInvariant

LEMMA RunsKept ==
  ASSUME Shapes, ExclusionInvariant, RunsInvariant, Steady', NEW c \in Change, Step(c)
  PROVE  RunsInvariant'
<1> USE DEF Before, After
<1>1. Steady /\ Serial /\ Serial' /\ ~("failure" \in happened') /\ ~("crash" \in happened')
  <2>1. Next
    BY DEF Next, Step
  <2> QED
    BY <2>1, SteadyBefore DEF Steady, Disturbed
<1>2. /\ pc \in [Change -> Places] /\ req \in [Change -> Request] /\ Types /\ OpOf(c)
      /\ OneWorks /\ Apart
      /\ (\A n \in DOMAIN records : n \in Nat \ {0} /\ records[n].revision = n)
      /\ \A d \in Change : HoldsOf(d) /\ WorkOf(d) /\ RemovesOf(d)
  BY <1>1, SerialFacts
<1>3. \A d \in Change \ {c} : pc'[d] = pc[d] /\ req'[d] = req[d]
  BY <1>2, OthersUnchanged
<1>4. /\ Idle => \A n \in Having("deployed") : records[n].config = runs
      /\ \A d \in Change : pc[d] \in {"replacing", "recording"} => runs = req[d].config
      /\ Idle => \A d \in Change :
           /\ pc[d] \in {"preparing", "stuck", "mapping"}
           /\ req[d].rel.status = "deployed" /\ Greatest(req[d].rel.revision)
           => req[d].rel.config = runs
  BY <1>1 DEF RunsInvariant
<1>5. CASE Upgrade(c) \/ CheckRevision(c) \/ Deploy(c) \/ DeployBatch(c) \/ (\E n \in DOMAIN records : Rollback(c, n))
  <2>1. records' = records /\ runs' = runs /\ pc'[c] \in {"checking", "reading", "rolling", "ended"}
        /\ pc[c] \in {"new", "checking"}
    BY <1>2, <1>5 DEF Upgrade, CheckRevision, Deploy, DeployBatch, Rollback, At, Ends
  <2> QED
    BY <1>1, <2>1, RunsStep
<1>6. CASE ReadRelease(c) \/ Refused(c)
  <2>1. records' = records /\ runs' = runs /\ pc[c] \in {"reading", "preparing", "retrying"}
    BY <1>6 DEF ReadRelease, Refused
  <2>2. CASE Ends(c)
    <3>1. pc'[c] = "ended"
      BY <1>2, <2>2 DEF Ends, At
    <3> QED
      BY <1>1, <2>1, <3>1, RunsStep
  <2>3. CASE records # << >> /\ req' = [req EXCEPT ![c].rel = records[Last]] /\ At(c, "preparing")
    <3>1. pc'[c] = "preparing" /\ req'[c].rel = records[Last]
      BY <1>2, <2>3 DEF At, Request
    <3>2. Greatest(Last)
      BY <1>2, <2>3, LastGreatest
    <3>3. Idle' <=> Idle
      BY <1>3, <2>1, <3>1 DEF Idle
    <3>4. records[Last].status = "deployed" => Last \in Having("deployed")
      BY <3>2 DEF Having, Greatest
    <3> QED
      BY <1>3, <1>4, <2>1, <3>1, <3>3, <3>4 DEF RunsInvariant, Having, Greatest
  <2>4. CASE pc[c] = "preparing" /\ (At(c, "stuck") \/ At(c, "mapping")) /\ UNCHANGED req
    <3>1. pc'[c] \in {"stuck", "mapping"} /\ req' = req
      BY <1>2, <2>4 DEF At
    <3>2. Idle' <=> Idle
      BY <1>3, <2>1, <3>1 DEF Idle
    <3> QED
      BY <1>3, <1>4, <2>1, <2>4, <3>1, <3>2 DEF RunsInvariant, Having, Greatest
  <2> QED
    BY <1>6, <2>2, <2>3, <2>4 DEF ReadRelease, Refused
<1>7. CASE TakeOver(c) \/ RemapAPIs(c)
  <2>1. runs' = runs /\ pc[c] \in {"stuck", "mapping"} /\ pc'[c] \in {"retrying", "ended"}
    BY <1>2, <1>7 DEF TakeOver, RemapAPIs, At, Ends
  <2>2. ASSUME records' = records
        PROVE  RunsInvariant'
    BY <1>1, <2>1, <2>2, RunsStep
  <2>3. CASE TakeOver(c)
    <3> DEFINE n == Newest(Having("pending"))
               r == [req[c].rel EXCEPT !.status = "failed", !.old = FALSE]
    <3>1. CASE records' = [records EXCEPT ![n] = r]
      <4>1. r.status = "failed"
        BY <1>2, RequestFields DEF Record
      <4> HIDE DEF n, r
      <4>2. \A m \in DOMAIN records : records'[m].status = "deployed" => records'[m] = records[m]
        BY <3>1, <4>1
      <4>3. DOMAIN records' = DOMAIN records
        BY <3>1
      <4> QED
        BY <1>1, <2>1, <4>2, <4>3, RunsStep
    <3> QED
      BY <2>2, <2>3, <3>1 DEF TakeOver
  <2>4. CASE RemapAPIs(c)
    <3>1. CASE records = << >>
      BY <2>2, <2>4, <3>1 DEF RemapAPIs
    <3>2. CASE records # << >>
      <4> DEFINE k == Last
                 r == req[c].rel
      <4>1. records' = [records EXCEPT ![k] = r] /\ happened' = happened \cup Overwrites(c, k)
            /\ pc[c] = "mapping"
        BY <2>4, <3>2 DEF RemapAPIs
      <4>2. Greatest(k) /\ r.revision = k /\ k \in DOMAIN records
        <5>1. Greatest(k)
          BY <1>2, <3>2, LastGreatest
        <5>2. r.revision = k
          BY <1>1, <4>1 DEF Serial, Disturbed, Overwrites
        <5> QED
          BY <5>1, <5>2 DEF Greatest
      <4>3. Idle' <=> Idle
        BY <1>3, <2>1 DEF Idle
      <4>4. Idle /\ r.status = "deployed" => r.config = runs
        BY <1>4, <4>1, <4>2
      <4> HIDE DEF k, r
      <4>5. DOMAIN records' = DOMAIN records /\ records'[k] = r
            /\ \A n \in DOMAIN records \ {k} : records'[n] = records[n]
        BY <4>1, <4>2
      <4>6. Idle' => \A n \in Having("deployed")' : records'[n].config = runs'
        BY <1>4, <2>1, <4>3, <4>4, <4>5 DEF Having
      <4>7. \A d \in Change : pc'[d] \in {"replacing", "recording"} => runs' = req'[d].config
        BY <1>3, <1>4, <2>1
      <4>8. Idle' => \A d \in Change :
              /\ pc'[d] \in {"preparing", "stuck", "mapping"}
              /\ req'[d].rel.status = "deployed"
              /\ req'[d].rel.revision \in DOMAIN records'
              /\ \A m \in DOMAIN records' : m <= req'[d].rel.revision
              => req'[d].rel.config = runs'
        BY <1>3, <1>4, <2>1, <4>3, <4>5 DEF Greatest
      <4> QED
        BY <4>6, <4>7, <4>8 DEF RunsInvariant, Greatest
    <3> QED
      BY <3>1, <3>2
  <2> QED
    BY <1>7, <2>3, <2>4
<1>8. CASE Prepare(c) \/ PrepareRollback(c) \/ Install(c)
  <2>1. runs' = runs /\ pc[c] \in {"preparing", "retrying", "rolling", "new"}
    BY <1>8 DEF Prepare, PrepareRollback, Install
  <2>2. CASE pc'[c] = "applying"
    BY <1>3, <1>4, <2>1, <2>2 DEF RunsInvariant, Idle
  <2>3. CASE Ends(c) /\ records' = records
    <3>1. pc'[c] = "ended"
      BY <1>2, <2>3 DEF Ends, At
    <3> QED
      BY <1>1, <2>1, <2>3, <3>1, RunsStep
  <2> QED
    BY <1>2, <1>8, <2>2, <2>3 DEF Prepare, PrepareRollback, Install, Makes, At
<1>9. CASE Apply(c)
  <2>1. pc'[c] = "replacing" /\ runs' = req'[c].config /\ pc[c] = "applying"
    BY <1>2, <1>9 DEF Apply, At
  <2>2. \A d \in Change \ {c} : pc'[d] \notin After
    BY <1>2, <1>3, <2>1 DEF OneWorks
  <2> QED
    BY <2>1, <2>2 DEF RunsInvariant, Idle
<1>10. CASE Supersede(c)
  <2>1. pc'[c] = "recording" /\ runs' = runs /\ req' = req /\ pc[c] = "replacing"
    BY <1>2, <1>10 DEF Supersede, At
  <2> QED
    BY <1>3, <1>4, <2>1 DEF RunsInvariant, Idle
<1>11. CASE RecordDeployed(c)
  <2> DEFINE k == req[c].revision
             r == MakeRecord(k, "deployed", req[c].config)
  <2>1. /\ pc[c] = "recording" /\ records' = Update(records, r) /\ Ends(c) /\ runs' = runs
        /\ runs = req[c].config
    BY <1>4, <1>11 DEF RecordDeployed
  <2>2. /\ Greatest(k) /\ Having("deployed") = {} /\ k \in DOMAIN records
        /\ \A d \in Change : pc[d] \in {"preparing", "stuck", "mapping"} /\ req[d].rel.revision = k =>
             req[d].rel.status = "pending"
    BY <1>2, <2>1 DEF WorkOf, HoldsOf, Greatest
  <2>3. r.revision = k /\ r.config = runs
    BY <2>1 DEF MakeRecord
  <2>4. \A d \in Change : pc'[d] \notin {"replacing", "recording"} /\ (d # c => pc[d] \notin After)
    BY <1>2, <1>3, <2>1 DEF OneWorks, Ends, At
  <2>5. pc'[c] = "ended"
    BY <1>2, <2>1 DEF Ends, At
  <2> HIDE DEF k, r
  <2>6. DOMAIN records' = DOMAIN records /\ \A n \in Having("deployed")' : records'[n].config = runs'
    BY <2>1, <2>2, <2>3 DEF Having, Update
  <2>7. ASSUME NEW d \in Change, pc'[d] \in {"preparing", "stuck", "mapping"},
               req'[d].rel.status = "deployed",
               req'[d].rel.revision \in DOMAIN records',
               \A m \in DOMAIN records' : m <= req'[d].rel.revision
        PROVE  FALSE
    <3>1. d # c /\ req'[d] = req[d] /\ pc'[d] = pc[d]
      BY <1>3, <2>5, <2>7
    <3>2. Greatest(req[d].rel.revision)
      BY <2>6, <2>7, <3>1 DEF Greatest
    <3>3. req[d].rel.revision = k
      BY <1>2, <2>2, <3>2, GreatestUnique
    <3> QED
      BY <2>2, <2>7, <3>1, <3>3
  <2> QED
    BY <2>4, <2>6, <2>7 DEF RunsInvariant, Greatest
<1>12. CASE ApplyFails(c) \/ Crash(c)
  BY <1>1, <1>12 DEF ApplyFails, Crash
<1>13. CASE Uninstall(c)
  <2>1. /\ pc[c] = "new" /\ pc'[c] = "uninstalling" /\ runs' = runs
        /\ records' = [records EXCEPT ![Last].status = "uninstalling"]
    BY <1>2, <1>13 DEF Uninstall, At
  <2>2. DOMAIN records' = DOMAIN records /\ \A n \in DOMAIN records : records[n] \in Record
    BY <1>2, <2>1, RecordFields
  <2>3. \A n \in DOMAIN records : records'[n].status = "deployed" => records'[n] = records[n]
    BY <2>1, <2>2 DEF Record
  <2> QED
    BY <1>1, <2>1, <2>2, <2>3, RunsStep
<1>14. CASE Purge(c)
  <2>1. DOMAIN records' = {} /\ pc'[c] = "ended" /\ c \in InFlight /\ req[c].op = "uninstall"
    BY <1>2, <1>14 DEF Purge, RemovesOf, Without, Ends, At, OpOf, InFlight
  <2>2. \A d \in Change : d # c => pc[d] \in {"new", "ended"}
    BY <1>2, <2>1 DEF Apart, InFlight
  <2> QED
    BY <1>3, <2>1, <2>2 DEF RunsInvariant, Having, Greatest
<1> QED
  BY <1>5, <1>6, <1>7, <1>8, <1>9, <1>10, <1>11, <1>12, <1>13, <1>14 DEF Step

\* The jobs remove revisions that are not the newest.
LEMMA RunsJobs ==
  ASSUME Shapes, ExclusionInvariant, RunsInvariant, Steady, Steady', NEW j \in Job, JobStep(j)
  PROVE  RunsInvariant'
<1>1. /\ pc' = pc /\ req' = req /\ runs' = runs
  BY DEF JobStep, List, ReadHistory, BackUp, DeleteRevision, MoveFails, JobEnds, requests
<1>2. /\ Types
      /\ \A n \in DOMAIN records : n \in Nat \ {0} /\ records[n].revision = n
      /\ \A i \in Job : Spares(i)
  BY SerialFacts DEF Steady
<1>3. /\ DOMAIN records' \subseteq DOMAIN records
      /\ \A n \in DOMAIN records' : records'[n] = records[n]
      /\ \A n \in DOMAIN records : \E m \in DOMAIN records' : n = m \/ n < m
  BY <1>2, SerialFacts, JobRemoves DEF Steady, Serial, Disturbed
<1>4. Having("deployed")' \subseteq Having("deployed")
  BY <1>3 DEF Having
<1>5. ASSUME NEW n \in DOMAIN records', \A m \in DOMAIN records' : m <= n
      PROVE  Greatest(n)
  <2>1. ASSUME NEW k \in DOMAIN records
        PROVE  k <= n
    <3>1. PICK m \in DOMAIN records' : k = m \/ k < m
      BY <1>3
    <3>2. m <= n /\ m \in Nat /\ n \in Nat /\ k \in Nat
      BY <1>2, <1>3, <1>5
    <3> QED
      BY <3>1, <3>2
  <2> QED
    BY <1>3, <2>1 DEF Greatest
<1>6. Idle' <=> Idle
  BY <1>1 DEF Idle
<1>7. Idle => \A n \in Having("deployed")' : records'[n].config = runs
  BY <1>3, <1>4 DEF RunsInvariant, Having
<1>8. Idle => \A d \in Change :
        /\ pc[d] \in {"preparing", "stuck", "mapping"}
        /\ req[d].rel.status = "deployed"
        /\ req[d].rel.revision \in DOMAIN records'
        /\ \A m \in DOMAIN records' : m <= req[d].rel.revision
        => req[d].rel.config = runs
  BY <1>5 DEF RunsInvariant
<1> QED
  BY <1>1, <1>6, <1>7, <1>8 DEF RunsInvariant, Greatest

LEMMA RunsAges ==
  ASSUME Shapes, RunsInvariant, Steady, NEW n \in DOMAIN records, Ages(n)
  PROVE  RunsInvariant'
<1>1. /\ pc' = pc /\ req' = req /\ runs' = runs
      /\ records' = [records EXCEPT ![n].old = TRUE]
  BY DEF Ages, requests
<1>2. /\ DOMAIN records' = DOMAIN records
      /\ \A m \in DOMAIN records : /\ records'[m].config = records[m].config
                                   /\ records'[m].status = records[m].status
  BY <1>1, RecordFields DEF Shapes, Types, TypeOK, Record
<1> QED
  BY <1>1, <1>2 DEF RunsInvariant, Having, Greatest, Idle

LEMMA InitRuns == Init => RunsInvariant
<1> SUFFICES ASSUME Init
             PROVE  RunsInvariant
  OBVIOUS
<1>1. PICK n \in 0..Keep + 1, last \in {"deployed", "failed", "pending"} :
        /\ records = [m \in 1..n |->
             MakeRecord(m, IF m = n THEN last
                           ELSE IF m = n - 1 /\ last # "deployed" THEN "deployed" ELSE "superseded", First)]
        /\ runs = IF n = 0 THEN Nothing ELSE First
  BY DEF Init
<1>2. \A m \in DOMAIN records : records[m].config = First /\ runs = First
  BY <1>1, KeepAssumption DEF MakeRecord
<1>3. \A c \in Change : pc[c] = "new"
  BY DEF Init
<1> QED
  BY <1>2, <1>3 DEF RunsInvariant, Having

LEMMA NextRuns ==
  Shapes /\ ExclusionInvariant /\ RunsInvariant /\ [Next]_vars => RunsInvariant'
<1> SUFFICES ASSUME Shapes, ExclusionInvariant, RunsInvariant, [Next]_vars, Steady'
             PROVE  RunsInvariant'
  BY DEF RunsInvariant
<1>1. Steady
  BY SteadyBefore
<1>2. ASSUME NEW c \in Change, Step(c)
      PROVE  RunsInvariant'
  BY <1>2, RunsKept
<1>3. ASSUME NEW j \in Job, JobStep(j)
      PROVE  RunsInvariant'
  BY <1>1, <1>3, RunsJobs
<1>4. ASSUME NEW n \in DOMAIN records, Ages(n)
      PROVE  RunsInvariant'
  BY <1>1, <1>4, RunsAges
<1>5. CASE UNCHANGED vars
  BY <1>5 DEF RunsInvariant, Steady, Serial, Disturbed, Idle, Having, Greatest, vars
<1> QED
  BY <1>2, <1>3, <1>4, <1>5, NextSteps

-----------------------------------------------------------------------------
(* What a deploy keeps.                                                    *)

\* Nothing has overlapped, failed or crashed.
Tidy == ~Disturbed({"upgrade", "rollback", "uninstall", "failure", "crash"})

Unchanging == \A c \in Change : pc[c] \notin After \cup {"uninstalling"}

\* The values differ in the image alone, and by one of many deploys the jobs are paused.
Carries(op, config, base) ==
  /\ config.settings = base.settings
  /\ config.paused <=> base.paused \/ op = "batch"

\* A deploy carries over what the cluster runs, and so does it when it replaces something.
DeployOf(c) ==
  req[c].op \in {"deploy", "batch"} =>
    /\ pc[c] \in Before => Carries(req[c].op, req[c].config, runs)
    /\ pc[c] = "applying" => Carries(req[c].op, req[c].config, req[c].base.config)

\* Between requests the newest record, whether deployed or not, has the values that the
\* cluster runs.
SettingsInvariant ==
  /\ Orderly => "overwritten" \notin happened
  /\ Tidy =>
       /\ \A c, d \in InFlight : c = d
       /\ Unchanging => \A n \in DOMAIN records : Greatest(n) => records[n].config = runs
       /\ \A c \in Change : DeployOf(c)

LEMMA TidyFacts ==
  ASSUME SettingsInvariant, Tidy
  PROVE  Orderly /\ Serial /\ Steady
BY DEF SettingsInvariant, Tidy, Orderly, Serial, Steady, Disturbed

\* A remedy is applied to the record that was read.
LEMMA NoneOverwritten ==
  ASSUME HelmInvariant, Orderly', [Next]_vars, "overwritten" \notin happened
  PROVE  "overwritten" \notin happened'
<1>1. Orderly /\ Shapes
  BY OrderlyBefore DEF HelmInvariant
<1>2. ASSUME NEW c \in Change, Step(c)
      PROVE  "overwritten" \notin happened'
  <2>1. CASE TakeOver(c) \/ RemapAPIs(c)
    BY <1>1, <2>1, RemedyKeeps
  <2>2. CASE ApplyFails(c) \/ Crash(c)
    BY <2>2 DEF ApplyFails, Crash
  <2>3. CASE Upgrade(c) \/ Deploy(c) \/ DeployBatch(c) \/ (\E n \in DOMAIN records : Rollback(c, n)) \/ Install(c) \/ Uninstall(c)
    <3>1. PICK what \in Operations : Begins(what)
      BY <2>3 DEF Upgrade, Deploy, DeployBatch, Rollback, Install, Uninstall, Operations
    <3>2. happened' \subseteq happened \cup {"upgrade", "rollback", "uninstall"}
      BY <1>1, <3>1, BeginsFacts DEF Shapes
    <3> QED
      BY <3>2
  <2>4. CASE \/ CheckRevision(c) \/ ReadRelease(c) \/ Prepare(c) \/ Refused(c) \/ PrepareRollback(c)
             \/ Apply(c) \/ Supersede(c) \/ RecordDeployed(c) \/ Purge(c)
    BY <2>4 DEF CheckRevision, ReadRelease, Prepare, Refused, PrepareRollback, Apply, Supersede,
                RecordDeployed, Purge
  <2> QED
    BY <1>2, <2>1, <2>2, <2>3, <2>4 DEF Step
<1>3. ASSUME NEW j \in Job, JobStep(j)
      PROVE  happened' \subseteq happened \cup {"uninstall"}
  BY <1>3 DEF JobStep, List, ReadHistory, BackUp, DeleteRevision, MoveFails, JobEnds
<1>4. ASSUME NEW n \in DOMAIN records, Ages(n)
      PROVE  happened' = happened
  BY <1>4 DEF Ages
<1> QED
  BY <1>2, <1>3, <1>4, NextSteps DEF vars

\* What begins while another request is under way has overlapped with it.
LEMMA BeginsTidy ==
  ASSUME Shapes, NEW what \in Operations, Begins(what), Tidy'
  PROVE  InFlight = {}
<1>1. KindOf(what) \in {"upgrade", "rollback", "uninstall"}
  BY DEF KindOf, Operations
<1>2. KindOf(what) \notin happened'
  BY <1>1 DEF Tidy, Disturbed
<1> QED
  BY <1>2 DEF Begins

\* A step that changes no values, or that leaves something at work.
LEMMA SettingsStep ==
  ASSUME Shapes, SettingsInvariant, Tidy, Tidy', NEW c \in Change, Step(c),
         \/ Unchanging' => /\ Unchanging /\ runs' = runs /\ DOMAIN records' = DOMAIN records
                           /\ \A n \in DOMAIN records : records'[n].config = records[n].config
         \/ \A n \in DOMAIN records' : Greatest(n)' => records'[n].config = runs',
         DeployOf(c)'
  PROVE  /\ \A d, e \in InFlight' : d = e
         /\ Unchanging' => \A n \in DOMAIN records' : Greatest(n)' => records'[n].config = runs'
         /\ \A d \in Change : DeployOf(d)'
<1>1. \A d \in Change \ {c} : pc'[d] = pc[d] /\ req'[d] = req[d]
  BY OthersUnchanged DEF Shapes
<1>2. c \in InFlight \/ InFlight = {}
  BY StepBegins, BeginsTidy
<1>3. \A d \in Change \ {c} : pc[d] \in {"new", "ended"}
  BY <1>2 DEF SettingsInvariant, InFlight
<1>4. \A d \in Change \ {c} : DeployOf(d)'
  BY <1>1, <1>3 DEF DeployOf, Before
<1>5. \A d, e \in InFlight' : d = e
  BY <1>1, <1>3 DEF InFlight
<1>6. Unchanging' => \A n \in DOMAIN records' : Greatest(n)' => records'[n].config = runs'
  BY DEF SettingsInvariant, Greatest
<1> QED
  BY <1>4, <1>5, <1>6

LEMMA RequestsSettings ==
  ASSUME HelmInvariant, ExclusionInvariant, RunsInvariant, SettingsInvariant, Tidy',
         NEW c \in Change, Step(c)
  PROVE  /\ \A d, e \in InFlight' : d = e
         /\ Unchanging' => \A n \in DOMAIN records' : Greatest(n)' => records'[n].config = runs'
         /\ \A d \in Change : DeployOf(d)'
<1> USE DEF Before, After
<1>1. Tidy /\ Orderly /\ Serial /\ Steady /\ Shapes /\ Types
  <2>1. Next /\ Shapes
    BY DEF Next, Step, HelmInvariant
  <2>2. Tidy
    BY <2>1, HappenedGrows DEF Tidy, Disturbed
  <2> QED
    BY <2>1, <2>2, TidyFacts DEF Shapes
<1>2. /\ pc \in [Change -> Places] /\ req \in [Change -> Request] /\ OpOf(c) /\ DeployOf(c)
      /\ \A n \in DOMAIN records : n \in Nat \ {0} /\ records[n].revision = n /\ records[n] \in Record
      /\ WorkOf(c) /\ RemovesOf(c)
  BY <1>1, SerialFacts, RecordFields DEF SettingsInvariant
<1>3. \A d \in Change \ {c} : pc[d] \in {"new", "ended"}
  <2>1. c \in InFlight \/ InFlight = {}
    BY <1>1, StepBegins, BeginsTidy
  <2> QED
    BY <1>1, <2>1 DEF SettingsInvariant, InFlight
<1>4. ASSUME Unchanging, records # << >>
      PROVE  /\ records[Last].config = runs /\ records[Base].config = runs
  <2>1. Greatest(Last)
    BY <1>1, <1>2, <1>4, LastGreatest
  <2>2. records[Last].config = runs
    BY <1>1, <1>4, <2>1 DEF SettingsInvariant, Greatest
  <2>3. ASSUME Having("deployed") # {}
        PROVE  records[Base].config = runs
    <3>1. Having("deployed") \in SUBSET DOMAIN records
      BY DEF Having
    <3>2. Base \in Having("deployed")
      BY <1>1, <2>3, <3>1, NewestFacts DEF Base, Types
    <3>3. Idle
      BY <1>4 DEF Unchanging, Idle
    <3> QED
      BY <1>1, <3>2, <3>3 DEF RunsInvariant
  <2> QED
    BY <2>2, <2>3 DEF Base
<1>5. pc[c] \notin After \cup {"uninstalling"} => Unchanging
  BY <1>3 DEF Unchanging
<1>6. CASE Upgrade(c) \/ CheckRevision(c) \/ Deploy(c) \/ DeployBatch(c) \/ (\E n \in DOMAIN records : Rollback(c, n))
  <2>1. records' = records /\ runs' = runs /\ pc[c] \in {"new", "checking"}
        /\ pc'[c] \in {"checking", "reading", "rolling", "ended"}
    BY <1>2, <1>6 DEF Upgrade, CheckRevision, Deploy, DeployBatch, Rollback, At, Ends
  <2>2. DeployOf(c)'
    <3>1. CASE Upgrade(c) \/ (\E n \in DOMAIN records : Rollback(c, n))
      <4>1. req'[c].op \in {"upgrade", "rollback"}
        BY <1>2, <3>1, ZenonT(40) DEF Upgrade, Rollback, Blank
      <4> QED
        BY <4>1 DEF DeployOf
    <3>2. CASE CheckRevision(c)
      <4>1. req'[c] = Blank \/ (req'[c] = req[c] /\ pc[c] = "checking" /\ pc'[c] = "reading")
        BY <1>2, <3>2 DEF CheckRevision, Ends, At
      <4> QED
        BY <1>2, <2>1, <4>1 DEF DeployOf, Blank
    <3>3. CASE Deploy(c) \/ DeployBatch(c)
      <4>1. records # << >> /\ pc[c] = "new" /\ pc'[c] = "reading"
        BY <1>2, <3>3 DEF Deploy, DeployBatch, At
      <4>2. Carries(req'[c].op, req'[c].config, records[Last].config)
        BY <1>1, <1>2, <3>3, DeployFacts DEF Carries
      <4>3. records[Last].config = runs
        BY <1>4, <1>5, <4>1
      <4> QED
        BY <2>1, <4>1, <4>2, <4>3 DEF DeployOf
    <3> QED
      BY <1>6, <3>1, <3>2, <3>3
  <2> QED
    BY <1>1, <1>5, <2>1, <2>2, SettingsStep
<1>7. CASE ReadRelease(c) \/ Refused(c)
  <2>1. records' = records /\ runs' = runs /\ pc[c] \in {"reading", "preparing", "retrying"}
    BY <1>7 DEF ReadRelease, Refused
  <2>2. \/ req'[c].op = "none"
        \/ /\ req'[c].op = req[c].op /\ req'[c].config = req[c].config
           /\ pc'[c] \in {"preparing", "stuck", "mapping"}
    BY <1>2, <1>7 DEF ReadRelease, Refused, Ends, At, Blank, Request
  <2>3. DeployOf(c)'
    BY <1>2, <2>1, <2>2 DEF DeployOf
  <2> QED
    BY <1>1, <1>5, <2>1, <2>3, SettingsStep
<1>8. CASE TakeOver(c) \/ RemapAPIs(c)
  <2>1. runs' = runs /\ pc[c] \in {"stuck", "mapping"}
    BY <1>8 DEF TakeOver, RemapAPIs
  <2>2. DOMAIN records' = DOMAIN records /\ \A n \in DOMAIN records : records'[n].config = records[n].config
    BY <1>1, <1>8, RemedyKeeps
  <2>3. req'[c].op = "none" \/ (req'[c] = req[c] /\ pc'[c] = "retrying")
    BY <1>2, <1>8 DEF TakeOver, RemapAPIs, Ends, At, Blank
  <2>4. DeployOf(c)'
    BY <1>2, <2>1, <2>3 DEF DeployOf
  <2> QED
    BY <1>1, <1>5, <2>1, <2>2, <2>4, SettingsStep
<1>9. CASE Prepare(c) \/ PrepareRollback(c)
  <2>1. runs' = runs /\ pc[c] \in {"preparing", "retrying", "rolling"}
    BY <1>9 DEF Prepare, PrepareRollback
  <2>2. ASSUME Ends(c), records' = records
        PROVE  req'[c].op = "none"
    BY <1>2, <2>2 DEF Ends, Blank
  <2>3. ASSUME NEW config, NEW base, Makes(c, config, base), At(c, "applying")
        PROVE  /\ req'[c].op = req[c].op /\ pc'[c] = "applying"
               /\ req'[c].config = config /\ req'[c].base = base
    BY <1>2, <2>3 DEF Makes, At, Ends, Request
  <2>4. CASE req'[c].op = "none" /\ records' = records
    BY <1>1, <1>5, <2>1, <2>4, SettingsStep DEF DeployOf
  <2>5. CASE pc'[c] = "applying" /\ DeployOf(c)'
    <3>1. ~Unchanging'
      BY <2>5 DEF Unchanging
    <3> QED
      BY <1>1, <2>5, <3>1, SettingsStep
  <2>6. CASE Prepare(c)
    <3>1. Makes(c, req[c].config, records[Base]) /\ records # << >>
      BY <2>6 DEF Prepare, Upgradable
    <3>2. records[Base].config = runs
      BY <1>4, <1>5, <2>1, <3>1
    <3>3. CASE At(c, "applying")
      <4>1. DeployOf(c)'
        BY <1>2, <2>1, <2>3, <2>6, <3>1, <3>2, <3>3 DEF DeployOf, Prepare
      <4> QED
        BY <2>3, <2>5, <3>1, <3>3, <4>1
    <3> QED
      BY <2>2, <2>4, <3>1, <3>3 DEF Makes
  <2>7. CASE PrepareRollback(c)
    <3>1. req[c].op = "rollback"
      BY <1>2, <2>7 DEF PrepareRollback, OpOf
    <3>2. CASE Ends(c) /\ UNCHANGED <<records, made>>
      BY <2>2, <2>4, <3>2
    <3>3. CASE Makes(c, records[req[c].view].config, records[Last])
      <4>1. CASE At(c, "applying")
        BY <2>3, <2>5, <3>1, <3>3, <4>1 DEF DeployOf
      <4> QED
        BY <2>2, <2>4, <3>3, <4>1 DEF Makes
    <3> QED
      BY <2>7, <3>2, <3>3 DEF PrepareRollback
  <2> QED
    BY <1>9, <2>6, <2>7
<1>10. CASE Install(c) \/ Apply(c) \/ Supersede(c)
  <2>1. /\ pc'[c] \in {"applying", "replacing", "recording"}
        /\ pc'[c] = "applying" => req'[c].op = "install"
    <3>1. CASE Install(c)
      BY <1>2, <3>1 DEF Install, At, Blank
    <3>2. CASE Apply(c) \/ Supersede(c)
      BY <1>2, <3>2 DEF Apply, Supersede, At
    <3> QED
      BY <1>10, <3>1, <3>2
  <2>2. ~Unchanging'
    BY <2>1 DEF Unchanging
  <2>3. DeployOf(c)'
    BY <2>1 DEF DeployOf
  <2> QED
    BY <1>1, <2>2, <2>3, SettingsStep
<1>11. CASE RecordDeployed(c)
  <2> DEFINE k == req[c].revision
             r == MakeRecord(k, "deployed", req[c].config)
  <2>1. pc[c] = "recording" /\ records' = Update(records, r) /\ Ends(c) /\ runs' = runs
    BY <1>11 DEF RecordDeployed
  <2>2. Greatest(k) /\ k \in DOMAIN records /\ runs = req[c].config
    BY <1>1, <1>2, <2>1 DEF WorkOf, RunsInvariant, Greatest
  <2>3. r.revision = k /\ r.config = runs
    BY <2>2 DEF MakeRecord
  <2>4. DeployOf(c)'
    BY <1>2, <2>1 DEF Ends, Blank, DeployOf
  <2> HIDE DEF k, r
  <2>5. DOMAIN records' = DOMAIN records /\ records'[k] = r
    BY <2>1, <2>2, <2>3 DEF Update
  <2>6. \A n \in DOMAIN records' : Greatest(n)' => n = k
    BY <1>1, <2>2, <2>5, GreatestUnique DEF Greatest
  <2>7. \A n \in DOMAIN records' : Greatest(n)' => records'[n].config = runs'
    BY <2>1, <2>3, <2>5, <2>6
  <2> QED
    BY <1>1, <2>4, <2>7, SettingsStep
<1>12. CASE ApplyFails(c) \/ Crash(c)
  BY <1>12 DEF ApplyFails, Crash, Tidy, Disturbed
<1>13. CASE Uninstall(c)
  <2>1. pc'[c] = "uninstalling" /\ req'[c].op = "uninstall"
    BY <1>2, <1>13 DEF Uninstall, At, Blank
  <2>2. ~Unchanging' /\ DeployOf(c)'
    BY <2>1 DEF Unchanging, DeployOf
  <2> QED
    BY <1>1, <2>2, SettingsStep
<1>14. CASE Purge(c)
  <2>1. DOMAIN records' = {} /\ req'[c].op = "none"
    BY <1>2, <1>14 DEF Purge, RemovesOf, Without, Ends, Blank
  <2> QED
    BY <1>1, <2>1, SettingsStep DEF DeployOf
<1> QED
  BY <1>6, <1>7, <1>8, <1>9, <1>10, <1>11, <1>12, <1>13, <1>14 DEF Step

\* What the jobs remove is not the newest.
LEMMA JobsSettings ==
  ASSUME HelmInvariant, ExclusionInvariant, SettingsInvariant, Tidy, Tidy', NEW j \in Job, JobStep(j)
  PROVE  SettingsInvariant'
<1>1. /\ pc' = pc /\ req' = req /\ runs' = runs /\ happened' = happened
  <2>1. "uninstall" \notin happened'
    BY DEF Tidy, Disturbed
  <2> QED
    BY <2>1 DEF JobStep, List, ReadHistory, BackUp, DeleteRevision, MoveFails, JobEnds, requests
<1>2. /\ Types /\ Shapes
      /\ \A n \in DOMAIN records : n \in Nat \ {0} /\ records[n].revision = n
      /\ \A i \in Job : Spares(i)
      /\ \A c \in Change : RemovesOf(c)
  BY TidyFacts, SerialFacts DEF HelmInvariant
<1>3. /\ DOMAIN records' \subseteq DOMAIN records
      /\ \A n \in DOMAIN records' : records'[n] = records[n]
      /\ \A n \in DOMAIN records : \E m \in DOMAIN records' : n = m \/ n < m
  BY <1>2, JobRemoves DEF Tidy, Disturbed
<1>4. ASSUME NEW n \in DOMAIN records', \A m \in DOMAIN records' : m <= n
      PROVE  Greatest(n)
  <2>1. ASSUME NEW k \in DOMAIN records
        PROVE  k <= n
    <3>1. PICK m \in DOMAIN records' : k = m \/ k < m
      BY <1>3
    <3>2. m <= n /\ m \in Nat /\ n \in Nat /\ k \in Nat
      BY <1>2, <1>3, <1>4
    <3> QED
      BY <3>1, <3>2
  <2> QED
    BY <1>3, <2>1 DEF Greatest
<1>5. Unchanging => \A n \in DOMAIN records' :
        (\A m \in DOMAIN records' : m <= n) => records'[n].config = runs
  BY <1>3, <1>4 DEF SettingsInvariant
<1> QED
  BY <1>1, <1>5 DEF SettingsInvariant, Tidy, Orderly, Disturbed, InFlight, Unchanging, DeployOf, Greatest

LEMMA InitSettings == Init => SettingsInvariant
<1> SUFFICES ASSUME Init
             PROVE  SettingsInvariant
  OBVIOUS
<1>1. PICK n \in 0..Keep + 1, last \in {"deployed", "failed", "pending"} :
        /\ records = [m \in 1..n |->
             MakeRecord(m, IF m = n THEN last
                           ELSE IF m = n - 1 /\ last # "deployed" THEN "deployed" ELSE "superseded", First)]
        /\ runs = IF n = 0 THEN Nothing ELSE First
  BY DEF Init
<1>2. \A m \in DOMAIN records : records[m].config = First /\ runs = First
  BY <1>1, KeepAssumption DEF MakeRecord
<1>3. happened = {} /\ \A c \in Change : pc[c] = "new" /\ req[c] = Blank
  BY DEF Init
<1> QED
  BY <1>2, <1>3 DEF SettingsInvariant, InFlight, DeployOf, Blank

LEMMA NextSettings ==
  HelmInvariant /\ ExclusionInvariant /\ RunsInvariant /\ SettingsInvariant /\ [Next]_vars => SettingsInvariant'
<1> SUFFICES ASSUME HelmInvariant, ExclusionInvariant, RunsInvariant, SettingsInvariant, [Next]_vars
             PROVE  SettingsInvariant'
  OBVIOUS
<1>1. Shapes
  BY DEF HelmInvariant
<1>2. Orderly' => "overwritten" \notin happened'
  BY <1>1, OrderlyBefore, NoneOverwritten DEF SettingsInvariant
<1>3. Tidy' => Tidy
  BY <1>1, HappenedGrows DEF Tidy, Disturbed
<1>4. CASE \E c \in Change : Step(c)
  BY <1>2, <1>4, RequestsSettings DEF SettingsInvariant
<1>5. ASSUME Tidy, Tidy', NEW j \in Job, JobStep(j)
      PROVE  SettingsInvariant'
  BY <1>5, JobsSettings
<1>6. ASSUME Tidy, NEW n \in DOMAIN records, Ages(n)
      PROVE  SettingsInvariant'
  <2>1. /\ pc' = pc /\ req' = req /\ runs' = runs /\ happened' = happened
        /\ records' = [records EXCEPT ![n].old = TRUE]
    BY <1>6 DEF Ages, requests
  <2>2. /\ DOMAIN records' = DOMAIN records
        /\ \A m \in DOMAIN records : records'[m].config = records[m].config
    BY <1>1, <2>1, RecordFields DEF Shapes, Types, TypeOK, Record
  <2> QED
    BY <2>1, <2>2 DEF SettingsInvariant, Tidy, Orderly, Disturbed, InFlight, Unchanging, DeployOf, Greatest
<1>7. CASE UNCHANGED vars
  BY <1>7 DEF SettingsInvariant, Tidy, Orderly, Disturbed, InFlight, Unchanging, DeployOf, Greatest, vars
<1>8. CASE ~Tidy'
  BY <1>2, <1>8 DEF SettingsInvariant
<1> QED
  BY <1>3, <1>4, <1>5, <1>6, <1>7, <1>8, NextSteps

-----------------------------------------------------------------------------
(* What the tracker keeps.                                                 *)

\* Nothing has overlapped with an uninstall, and no record was overwritten by that of another
\* revision. Upgrades and rollbacks may have overlapped, failed and crashed.
Calm == ~Disturbed({"uninstall", "overwritten"})

Separate == \A c, d \in InFlight : c # d => req[c].op # "uninstall"

Newer(n) == {m \in DOMAIN records : m > n}
BackedUp(n) == n \in DOMAIN backup /\ backup[n].config = made[n]

\* What a request has read or is to write has the values that its revision was made with.
KnownOf(c) ==
  /\ pc[c] \in {"preparing", "stuck", "mapping"} =>
       req[c].rel.revision \in DOMAIN made /\ req[c].rel.config = made[req[c].rel.revision]
  /\ pc[c] \in After =>
       /\ req[c].revision \in DOMAIN made /\ req[c].config = made[req[c].revision]
       /\ req[c].base = NoRecord \/ /\ req[c].base.revision \in DOMAIN made
                                    /\ req[c].base.config = made[req[c].base.revision]

\* So has what a job has listed; there are enough newer revisions than those that it is to
\* move; and the one that it deletes next is backed up.
JobKnows(j) ==
  /\ jobPc[j] \notin {"idle", "listed"} =>
       \A n \in DOMAIN listed[j] : n \in DOMAIN made /\ listed[j][n].config = made[n]
  /\ \A n \in todo[j] : Cardinality(Newer(n)) >= Keep
  /\ jobPc[j] = "deleting" => \A n \in todo[j] : (\A m \in todo[j] : m <= n) => BackedUp(n)

Gone(n) == BackedUp(n) /\ Cardinality(Newer(n)) >= Keep

KeepsInvariant ==
  Calm =>
    /\ Separate
    /\ \A n \in DOMAIN records : Own(n)
    /\ \A n \in DOMAIN made : n \in Nat /\ \E m \in DOMAIN records : n <= m
    /\ \A n \in DOMAIN made \ DOMAIN records : Gone(n)
    /\ \A c \in Change : KnownOf(c) /\ RemovesOf(c)
    /\ \A j \in Job : JobKnows(j)

LEMMA CalmFacts ==
  ASSUME Shapes, KeepsInvariant, Calm
  PROVE  /\ Types /\ Separate /\ pc \in [Change -> Places] /\ req \in [Change -> Request]
         /\ \A n \in DOMAIN records : Own(n) /\ n \in Nat \ {0}
         /\ \A n \in DOMAIN made : n \in Nat /\ \E m \in DOMAIN records : n <= m
         /\ \A n \in DOMAIN made \ DOMAIN records : Gone(n)
         /\ \A c \in Change : KnownOf(c) /\ RemovesOf(c) /\ OpOf(c)
         /\ JobFunctions /\ \A j \in Job : JobKnows(j) /\ JobOf(j)
<1>1. Types
  BY DEF Shapes
<1>2. \A n \in DOMAIN records : n \in Nat \ {0}
  BY <1>1, RecordFields
<1> QED
  BY <1>1, <1>2, TypesAsSets DEF Shapes, KeepsInvariant

LEMMA FiniteRecords ==
  ASSUME Types
  PROVE  IsFiniteSet(DOMAIN records)
<1>1. PICK b \in Nat : \A n \in DOMAIN records : n <= b
  BY DEF Types, Typed, Bounded
<1>2. DOMAIN records \subseteq 0..b
  BY <1>1 DEF Types, Typed
<1>3. IsFiniteSet(0..b)
  BY <1>1, FS_Interval
<1> QED
  BY <1>2, <1>3, FS_Subset

LEMMA EnoughInMore ==
  \A S, T : IsFiniteSet(T) /\ S \subseteq T /\ Cardinality(S) >= Keep => Cardinality(T) >= Keep
<1> SUFFICES ASSUME NEW S, NEW T, IsFiniteSet(T), S \subseteq T, Cardinality(S) >= Keep
             PROVE  Cardinality(T) >= Keep
  OBVIOUS
<1>1. IsFiniteSet(S) /\ Cardinality(S) <= Cardinality(T)
  BY FS_Subset
<1>2. Cardinality(S) \in Nat /\ Cardinality(T) \in Nat /\ Keep \in Nat
  BY <1>1, FS_CardinalityType, KeepAssumption
<1> QED
  BY <1>1, <1>2

\* What has enough newer revisions has one.
LEMMA EnoughIsSome ==
  ASSUME NEW n, Cardinality(Newer(n)) >= Keep
  PROVE  \E m \in DOMAIN records : m > n
<1>1. Newer(n) # {}
  BY KeepAssumption, FS_EmptySet
<1> QED
  BY <1>1 DEF Newer

\* What begins while another request is under way has overlapped with it.
LEMMA BeginsCalm ==
  ASSUME Shapes, NEW what \in Operations, Begins(what), Calm'
  PROVE  \/ InFlight = {} /\ (what = "uninstall" => Moving = {})
         \/ what # "uninstall" /\ \A d \in InFlight : req[d].op # "uninstall"
<1> DEFINE others == {KindOf(req[d].op) : d \in InFlight}
<1>1. "uninstall" \notin happened'
  BY DEF Calm, Disturbed
<1>2. CASE others = {} /\ (what # "uninstall" \/ Moving = {})
  BY <1>2
<1>3. CASE ~(others = {} /\ (what # "uninstall" \/ Moving = {}))
  <2>1. {KindOf(what)} \cup others \subseteq happened'
    BY <1>3 DEF Begins
  <2>2. what # "uninstall"
    BY <1>1, <2>1 DEF KindOf
  <2>3. ASSUME NEW d \in InFlight
        PROVE  req[d].op # "uninstall"
    <3>1. KindOf(req[d].op) \in happened'
      BY <2>1
    <3> QED
      BY <1>1, <3>1 DEF KindOf
  <2> QED
    BY <2>2, <2>3
<1> QED
  BY <1>2, <1>3

LEMMA SeparateKept ==
  ASSUME Shapes, Separate, Calm', NEW c \in Change, Step(c)
  PROVE  /\ Separate'
         /\ \A d \in Change \ {c} : pc[d] # "uninstalling"
<1>1. /\ \A d \in Change \ {c} : pc'[d] = pc[d] /\ req'[d] = req[d]
      /\ \A d \in Change : OpOf(d)
  BY OthersUnchanged DEF Shapes
<1>2. CASE c \in InFlight /\ (pc'[c] = "ended" \/ req'[c].op = req[c].op)
  BY <1>1, <1>2 DEF Separate, InFlight, OpOf
<1>3. CASE pc[c] = "new" /\ \E what \in Operations : Begins(what) /\ req'[c].op = what
  <2>1. \/ InFlight = {}
        \/ req'[c].op # "uninstall" /\ \A d \in InFlight : req[d].op # "uninstall"
    BY <1>3, BeginsCalm
  <2> QED
    BY <1>1, <2>1 DEF Separate, InFlight, OpOf
<1> QED
  BY <1>2, <1>3, StepBegins

\* A request that leaves every record its revision and its values.
LEMMA CalmStep ==
  ASSUME Shapes, KeepsInvariant, Calm, Calm', NEW c \in Change, Step(c),
         made' = made, UNCHANGED jobs, DOMAIN records' = DOMAIN records,
         \A n \in DOMAIN records : /\ records'[n].revision = records[n].revision
                                   /\ records'[n].config = records[n].config,
         KnownOf(c)', RemovesOf(c)'
  PROVE  KeepsInvariant'
<1>1. /\ Separate /\ \A n \in DOMAIN records : Own(n)
      /\ \A n \in DOMAIN made : n \in Nat /\ \E m \in DOMAIN records : n <= m
      /\ \A n \in DOMAIN made \ DOMAIN records : Gone(n)
      /\ \A d \in Change : KnownOf(d)
      /\ \A j \in Job : JobKnows(j)
  BY CalmFacts
<1>2. Separate' /\ \A d \in Change \ {c} : pc[d] # "uninstalling"
  BY <1>1, SeparateKept
<1>3. \A n \in DOMAIN records' : Own(n)'
  BY <1>1 DEF Own
<1>4. \A n : Newer(n)' = Newer(n) /\ (BackedUp(n)' <=> BackedUp(n))
  BY DEF Newer, BackedUp, jobs
<1>5. \A n \in DOMAIN made' \ DOMAIN records' : Gone(n)'
  BY <1>1, <1>4 DEF Gone
<1>6. ASSUME NEW d \in Change, d # c
      PROVE  (KnownOf(d) /\ RemovesOf(d))'
  <2>1. pc'[d] = pc[d] /\ req'[d] = req[d]
    BY <1>6, OthersUnchanged DEF Shapes
  <2> QED
    BY <1>1, <1>2, <1>6, <2>1 DEF KnownOf, RemovesOf
<1>7. \A j \in Job : JobKnows(j)'
  BY <1>1, <1>4 DEF JobKnows, jobs
<1> QED
  BY <1>1, <1>2, <1>3, <1>5, <1>6, <1>7 DEF KeepsInvariant

\* The steps that only read the records.
LEMMA ReadersKeep ==
  ASSUME Shapes, KeepsInvariant, Calm, Calm', NEW c \in Change,
         \/ Upgrade(c) \/ CheckRevision(c) \/ Deploy(c) \/ DeployBatch(c) \/ (\E n \in DOMAIN records : Rollback(c, n))
         \/ ReadRelease(c) \/ Refused(c) \/ Apply(c) \/ Crash(c)
  PROVE  KeepsInvariant'
<1> USE DEF Before, After
<1>1. /\ pc \in [Change -> Places] /\ req \in [Change -> Request] /\ Types
      /\ KnownOf(c) /\ \A n \in DOMAIN records : Own(n)
  BY CalmFacts
<1>2. records' = records /\ made' = made /\ UNCHANGED jobs /\ Step(c)
  BY DEF Step, Upgrade, CheckRevision, Deploy, DeployBatch, Rollback, ReadRelease, Refused, Apply, Crash
<1>3. ASSUME pc'[c] \in {"checking", "reading", "rolling", "ended"}
      PROVE  KeepsInvariant'
  BY <1>2, <1>3, CalmStep DEF KnownOf, RemovesOf
<1>4. ASSUME Ends(c)
      PROVE  KeepsInvariant'
  BY <1>1, <1>3, <1>4 DEF Ends, At
<1>5. CASE Upgrade(c) \/ Deploy(c) \/ DeployBatch(c) \/ (\E n \in DOMAIN records : Rollback(c, n))
  BY <1>1, <1>3, <1>5 DEF Upgrade, Deploy, DeployBatch, Rollback, At
<1>6. CASE CheckRevision(c)
  BY <1>1, <1>3, <1>4, <1>6 DEF CheckRevision, At
<1>7. CASE ReadRelease(c)
  <2>1. CASE records # << >> /\ req' = [req EXCEPT ![c].rel = records[Last]] /\ At(c, "preparing")
    <3>1. pc'[c] = "preparing" /\ req'[c].rel = records[Last]
      BY <1>1, <2>1 DEF At, Request
    <3>2. DOMAIN records # {}
      BY <1>1, <2>1, EmptyRecords DEF Types
    <3>3. Last \in DOMAIN records
      BY <1>1, <3>2, LastFacts
    <3>4. KnownOf(c)'
      BY <1>1, <1>2, <3>1, <3>3 DEF KnownOf, Own
    <3> QED
      BY <1>2, <3>1, <3>4, CalmStep DEF RemovesOf
  <2> QED
    BY <1>4, <1>7, <2>1 DEF ReadRelease
<1>8. CASE Refused(c)
  <2>1. CASE pc[c] = "preparing" /\ (At(c, "stuck") \/ At(c, "mapping")) /\ UNCHANGED req
    <3>1. pc'[c] \in {"stuck", "mapping"} /\ req'[c] = req[c]
      BY <1>1, <2>1 DEF At
    <3>2. KnownOf(c)'
      BY <1>1, <1>2, <2>1, <3>1 DEF KnownOf
    <3> QED
      BY <1>2, <3>1, <3>2, CalmStep DEF RemovesOf
  <2> QED
    BY <1>4, <1>8, <2>1 DEF Refused
<1>9. CASE Apply(c)
  <2>1. pc[c] = "applying" /\ pc'[c] = "replacing" /\ req'[c] = req[c]
    BY <1>1, <1>9 DEF Apply, At
  <2>2. KnownOf(c)'
    BY <1>1, <1>2, <2>1 DEF KnownOf
  <2> QED
    BY <1>2, <2>1, <2>2, CalmStep DEF RemovesOf
<1>10. CASE Crash(c)
  BY <1>4, <1>10 DEF Crash
<1> QED
  BY <1>5, <1>6, <1>7, <1>8, <1>9, <1>10

\* The steps that write over records.
LEMMA WritersKeep ==
  ASSUME Shapes, KeepsInvariant, Calm, Calm', NEW c \in Change,
         TakeOver(c) \/ RemapAPIs(c) \/ ApplyFails(c) \/ Supersede(c) \/ RecordDeployed(c)
  PROVE  KeepsInvariant'
<1> USE DEF Before, After
<1>1. /\ pc \in [Change -> Places] /\ req \in [Change -> Request] /\ Types
      /\ KnownOf(c) /\ \A n \in DOMAIN records : Own(n)
  BY CalmFacts
<1>2. made' = made /\ UNCHANGED jobs /\ Step(c) /\ "overwritten" \notin happened'
  <2>1. made' = made /\ UNCHANGED jobs /\ Step(c)
    BY DEF Step, TakeOver, RemapAPIs, ApplyFails, Supersede, RecordDeployed
  <2> QED
    BY <2>1 DEF Calm, Disturbed
<1> DEFINE Same == /\ DOMAIN records' = DOMAIN records
                   /\ \A n \in DOMAIN records : /\ records'[n].revision = records[n].revision
                                                /\ records'[n].config = records[n].config
<1>3. ASSUME pc'[c] \in {"ended", "retrying"}, Same
      PROVE  KeepsInvariant'
  BY <1>2, <1>3, CalmStep DEF KnownOf, RemovesOf
<1>4. ASSUME Ends(c) \/ At(c, "retrying"), Same
      PROVE  KeepsInvariant'
  BY <1>1, <1>3, <1>4 DEF Ends, At
<1>5. ASSUME pc[c] \in {"stuck", "mapping"}, NEW n \in DOMAIN records, NEW r,
             records' = [records EXCEPT ![n] = r], r.revision = n, r.config = req[c].rel.config,
             req[c].rel.revision = n
      PROVE  Same
  BY <1>1, <1>5 DEF KnownOf, Own
<1>6. CASE TakeOver(c)
  <2> DEFINE n == Newest(Having("pending"))
             r == [req[c].rel EXCEPT !.status = "failed", !.old = FALSE]
  <2>1. CASE /\ Having("pending") # {} /\ records' = [records EXCEPT ![n] = r]
             /\ At(c, "retrying") /\ happened' = happened \cup Overwrites(c, n)
    <3>1. Having("pending") \in SUBSET DOMAIN records
      BY DEF Having
    <3>2. n \in DOMAIN records
      BY <1>1, <2>1, <3>1, NewestFacts, TypesAsSets
    <3>3. req[c].rel.revision = n
      BY <1>2, <2>1 DEF Overwrites
    <3>4. r.revision = req[c].rel.revision /\ r.config = req[c].rel.config
      BY <1>1, RequestFields DEF Record
    <3>5. pc[c] = "stuck"
      BY <1>6 DEF TakeOver
    <3> HIDE DEF n, r
    <3>6. Same
      BY <1>5, <2>1, <3>2, <3>3, <3>4, <3>5
    <3> QED
      BY <1>4, <2>1, <3>6
  <2>2. CASE Ends(c) /\ UNCHANGED <<records, happened>>
    BY <1>4, <2>2
  <2> QED
    BY <1>6, <2>1, <2>2 DEF TakeOver
<1>7. CASE RemapAPIs(c)
  <2>1. CASE records = << >>
    BY <1>4, <1>7, <2>1 DEF RemapAPIs
  <2>2. CASE records # << >>
    <3>1. /\ records' = [records EXCEPT ![Last] = req[c].rel] /\ pc[c] = "mapping"
          /\ happened' = happened \cup Overwrites(c, Last) /\ At(c, "retrying")
      BY <1>7, <2>2 DEF RemapAPIs
    <3>2. req[c].rel.revision = Last
      BY <1>2, <3>1 DEF Overwrites
    <3>3. DOMAIN records # {}
      BY <1>1, <2>2, EmptyRecords DEF Types
    <3>4. Last \in DOMAIN records
      BY <1>1, <3>3, LastFacts
    <3>5. Same
      BY <1>5, <3>1, <3>2, <3>4
    <3> QED
      BY <1>4, <3>1, <3>5
  <2> QED
    BY <2>1, <2>2
<1>8. ASSUME pc[c] \in After
      PROVE  /\ \A status \in {"deployed", "failed"} : 
                  LET r == MakeRecord(req[c].revision, status, req[c].config) IN
                    r.revision \in DOMAIN records =>
                      /\ records[r.revision].revision = r.revision
                      /\ records[r.revision].config = r.config
             /\ LET s == [req[c].base EXCEPT !.status = "superseded"] IN
                  s.revision \in DOMAIN records =>
                    /\ records[s.revision].revision = s.revision
                    /\ records[s.revision].config = s.config
  <2>1. /\ req[c].config = made[req[c].revision]
        /\ req[c].base = NoRecord \/ req[c].base.config = made[req[c].base.revision]
    BY <1>1, <1>8 DEF KnownOf
  <2>2. req[c].base \in Record /\ \A n \in DOMAIN records : n # 0
    BY <1>1, RequestFields, RecordFields
  <2>3. NoRecord.revision = 0
    BY DEF NoRecord
  <2>4. LET s == [req[c].base EXCEPT !.status = "superseded"] IN
          s.revision = req[c].base.revision /\ s.config = req[c].base.config
    BY <2>2 DEF Record
  <2> QED
    BY <1>1, <2>1, <2>2, <2>3, <2>4 DEF Own, MakeRecord
<1>9. CASE ApplyFails(c)
  <2> DEFINE r == MakeRecord(req[c].revision, "failed", req[c].config)
             s == [req[c].base EXCEPT !.status = "superseded"]
             failed == Update(records, r)
  <2>1. /\ r.revision \in DOMAIN records =>
             records[r.revision].revision = r.revision /\ records[r.revision].config = r.config
        /\ s.revision \in DOMAIN records =>
             records[s.revision].revision = s.revision /\ records[s.revision].config = s.config
    BY <1>8, <1>9 DEF ApplyFails
  <2>2. /\ Ends(c)
        /\ records' = IF req[c].op = "rollback" THEN Update(failed, s) ELSE failed
    BY <1>9 DEF ApplyFails
  <2> HIDE DEF r, s
  <2>3. Same
    BY <2>1, <2>2 DEF Update
  <2> QED
    BY <1>4, <2>2, <2>3
<1>10. CASE Supersede(c)
  <2> DEFINE s == [req[c].base EXCEPT !.status = "superseded"]
  <2>1. pc[c] = "replacing" /\ pc'[c] = "recording" /\ req' = req
    BY <1>1, <1>10 DEF Supersede, At
  <2>2. s.revision \in DOMAIN records =>
          records[s.revision].revision = s.revision /\ records[s.revision].config = s.config
    BY <1>8, <2>1
  <2>3. ASSUME req[c].op = "rollback"
        PROVE  Same
    <3>1. records' = [n \in DOMAIN records |->
                        IF n \in Having("deployed") THEN [records[n] EXCEPT !.status = "superseded"]
                        ELSE records[n]]
      BY <1>10, <2>3 DEF Supersede
    <3>2. \A n \in DOMAIN records : records[n] \in Record
      BY <1>1, RecordFields
    <3> QED
      BY <3>1, <3>2 DEF Record
  <2>4. ASSUME req[c].op # "rollback"
        PROVE  Same
    <3>1. records' = Update(records, s)
      BY <1>10, <2>4 DEF Supersede
    <3> HIDE DEF s
    <3> QED
      BY <2>2, <3>1 DEF Update
  <2>5. KnownOf(c)'
    BY <1>1, <1>2, <2>1 DEF KnownOf
  <2> QED
    BY <1>2, <2>1, <2>3, <2>4, <2>5, CalmStep DEF RemovesOf
<1>11. CASE RecordDeployed(c)
  <2> DEFINE r == MakeRecord(req[c].revision, "deployed", req[c].config)
  <2>1. r.revision \in DOMAIN records =>
          records[r.revision].revision = r.revision /\ records[r.revision].config = r.config
    BY <1>8, <1>11 DEF RecordDeployed
  <2>2. Ends(c) /\ records' = Update(records, r)
    BY <1>11 DEF RecordDeployed
  <2> HIDE DEF r
  <2>3. Same
    BY <2>1, <2>2 DEF Update
  <2> QED
    BY <1>4, <2>2, <2>3
<1> QED
  BY <1>6, <1>7, <1>9, <1>10, <1>11

\* The steps that make the next revision, which none was before.
LEMMA MakersKeep ==
  ASSUME Shapes, KeepsInvariant, Calm, Calm', NEW c \in Change, Prepare(c) \/ PrepareRollback(c)
  PROVE  KeepsInvariant'
<1> USE DEF Before, After
<1>1. /\ pc \in [Change -> Places] /\ req \in [Change -> Request] /\ Types /\ Separate
      /\ \A n \in DOMAIN records : Own(n) /\ n \in Nat \ {0}
      /\ \A n \in DOMAIN made : n \in Nat /\ \E m \in DOMAIN records : n <= m
      /\ \A n \in DOMAIN made \ DOMAIN records : Gone(n)
      /\ \A d \in Change : KnownOf(d)
      /\ \A j \in Job : JobKnows(j) /\ JobOf(j)
  BY CalmFacts
<1>2. UNCHANGED jobs /\ Step(c)
  BY DEF Step, Prepare, PrepareRollback
<1>3. ASSUME Ends(c), UNCHANGED <<records, made>>
      PROVE  KeepsInvariant'
  <2>1. pc'[c] = "ended"
    BY <1>1, <1>3 DEF Ends, At
  <2> QED
    BY <1>2, <1>3, <2>1, CalmStep DEF KnownOf, RemovesOf
<1>4. ASSUME NEW config, NEW n \in DOMAIN records, Makes(c, config, records[n])
      PROVE  KeepsInvariant'
  <2> DEFINE next == records[Last].revision + 1
             r == MakeRecord(next, "pending", config)
  <2>1. /\ Last \in DOMAIN records /\ records[Last].revision = Last /\ Last \in Nat
        /\ \A m \in DOMAIN records : m <= Last
    BY <1>1, <1>4, LastIsGreatest, RecordFields
  <2>2. /\ next \in Nat /\ (\A m \in DOMAIN records : m < next)
        /\ \A m \in DOMAIN made : m < next
    <3>1. next = Last + 1 /\ \A m \in DOMAIN records : m < next
      BY <1>1, <2>1
    <3>2. ASSUME NEW m \in DOMAIN made
          PROVE  m < next
      <4>1. PICK x \in DOMAIN records : m <= x
        BY <1>1
      <4> QED
        BY <1>1, <2>1, <3>1, <4>1
    <3> QED
      BY <2>1, <3>1, <3>2
  <2>3. next \notin DOMAIN records /\ next \notin DOMAIN made
    BY <2>2
  <2>4. /\ records' = Put(records, next, r) /\ made' = Put(made, next, config)
        /\ req' = [req EXCEPT ![c].revision = next, ![c].config = config, ![c].base = records[n]]
        /\ At(c, "applying")
    BY <1>4, <2>3 DEF Makes
  <2>5. r.revision = next /\ r.config = config
    BY DEF MakeRecord
  <2> HIDE DEF r, next
  <2>6. /\ DOMAIN records' = DOMAIN records \cup {next} /\ records'[next] = r
        /\ \A m \in DOMAIN records : records'[m] = records[m]
    BY <2>3, <2>4 DEF Put
  <2>7. /\ DOMAIN made' = DOMAIN made \cup {next} /\ made'[next] = config
        /\ \A m \in DOMAIN made : made'[m] = made[m]
    BY <2>3, <2>4 DEF Put
  <2>8. /\ pc'[c] = "applying" /\ req'[c].revision = next /\ req'[c].config = config
        /\ req'[c].base = records[n]
    BY <1>1, <2>4 DEF At, Request
  <2>9. Separate' /\ \A d \in Change \ {c} : pc[d] # "uninstalling"
    BY <1>1, <1>2, SeparateKept
  <2>10. ASSUME NEW m \in DOMAIN records'
         PROVE  Own(m)'
    <3>1. CASE m = next
      BY <2>5, <2>6, <2>7, <3>1 DEF Own
    <3>2. CASE m # next
      BY <1>1, <2>6, <2>7, <3>2 DEF Own
    <3> QED
      BY <3>1, <3>2
  <2>11. \A m \in DOMAIN made' : m \in Nat /\ \E x \in DOMAIN records' : m <= x
    BY <1>1, <2>2, <2>6, <2>7
  <2>12. ASSUME NEW m \in Nat, Cardinality(Newer(m)) >= Keep
         PROVE  Cardinality(Newer(m)') >= Keep
    <3> DEFINE T == {x \in DOMAIN records \cup {next} : x > m}
    <3>1. IsFiniteSet(DOMAIN records \cup {next})
      BY <1>1, FiniteRecords, FS_AddElement
    <3>2. IsFiniteSet(T)
      BY <3>1, FS_Subset
    <3>3. Newer(m) \subseteq T /\ Newer(m)' = T
      BY <2>6 DEF Newer
    <3> HIDE DEF T
    <3>4. Cardinality(T) >= Keep
      BY <2>12, <3>2, <3>3, EnoughInMore
    <3> QED
      BY <3>3, <3>4
  <2>13. \A m \in DOMAIN made : BackedUp(m) => BackedUp(m)'
    BY <1>2, <2>7 DEF BackedUp, jobs
  <2>14. \A m \in DOMAIN made' \ DOMAIN records' : Gone(m)'
    BY <1>1, <2>6, <2>7, <2>12, <2>13 DEF Gone
  <2>15. (KnownOf(c) /\ RemovesOf(c))'
    <3>1. n \in DOMAIN made /\ records[n].revision = n /\ records[n].config = made[n]
      BY <1>1 DEF Own
    <3> QED
      BY <2>7, <2>8, <3>1 DEF KnownOf, RemovesOf
  <2>16. ASSUME NEW d \in Change, d # c
         PROVE  (KnownOf(d) /\ RemovesOf(d))'
    <3>1. pc'[d] = pc[d] /\ req'[d] = req[d]
      BY <1>1, <1>2, <2>16, OthersUnchanged
    <3> QED
      BY <1>1, <2>7, <2>9, <2>16, <3>1 DEF KnownOf, RemovesOf
  <2>17. ASSUME NEW j \in Job
         PROVE  JobKnows(j)'
    <3>1. jobPc' = jobPc /\ listed' = listed /\ todo' = todo
      BY <1>2 DEF jobs
    <3>2. \A m \in todo[j] : m \in DOMAIN listed[j] /\ m \in Nat
      BY <1>1, JobFields DEF JobOf, Typed
    <3>3. todo[j] # {} => jobPc[j] \notin {"idle", "listed"}
      BY <1>1 DEF JobOf
    <3>4. \A m \in todo[j] : m \in DOMAIN made
      BY <1>1, <3>2, <3>3 DEF JobKnows
    <3> QED
      BY <1>1, <2>7, <2>12, <2>13, <3>1, <3>2, <3>4 DEF JobKnows
  <2> QED
    BY <2>9, <2>10, <2>11, <2>14, <2>15, <2>16, <2>17 DEF KeepsInvariant
<1>5. CASE Prepare(c)
  <2>1. DOMAIN records # {}
    BY <1>1, <1>5, EmptyRecords DEF Prepare, Upgradable, Types
  <2>2. Base \in DOMAIN records
    BY <1>1, <2>1, BaseFacts
  <2> QED
    BY <1>4, <1>5, <2>2 DEF Prepare
<1>6. CASE PrepareRollback(c)
  <2>1. CASE req[c].view \in DOMAIN records
    <3>1. Last \in DOMAIN records
      BY <1>1, <2>1, LastFacts
    <3> QED
      BY <1>4, <1>6, <2>1, <3>1 DEF PrepareRollback
  <2>2. CASE req[c].view \notin DOMAIN records
    BY <1>3, <1>6, <2>2 DEF PrepareRollback
  <2> QED
    BY <2>1, <2>2
<1> QED
  BY <1>5, <1>6

\* The steps that begin or end a release.
LEMMA EndpointsKeep ==
  ASSUME Shapes, KeepsInvariant, Calm, Calm', NEW c \in Change, Install(c) \/ Uninstall(c) \/ Purge(c)
  PROVE  KeepsInvariant'
<1> USE DEF Before, After
<1>1. /\ pc \in [Change -> Places] /\ req \in [Change -> Request] /\ Types /\ Separate
      /\ \A n \in DOMAIN records : Own(n) /\ n \in Nat \ {0}
      /\ \A n \in DOMAIN made : n \in Nat /\ \E m \in DOMAIN records : n <= m
      /\ \A d \in Change : KnownOf(d) /\ RemovesOf(d) /\ OpOf(d)
      /\ \A j \in Job : JobKnows(j) /\ JobOf(j)
  BY CalmFacts
<1>2. UNCHANGED jobs /\ Step(c)
  BY DEF Step, Install, Uninstall, Purge
<1>3. Separate' /\ \A d \in Change \ {c} : pc[d] # "uninstalling"
  BY <1>1, <1>2, SeparateKept
<1>4. \A d \in Change \ {c} : pc'[d] = pc[d] /\ req'[d] = req[d]
  BY <1>1, <1>2, OthersUnchanged
<1>5. CASE Install(c)
  <2> DEFINE config == [settings |-> c, image |-> c, paused |-> FALSE]
             r == MakeRecord(1, "pending", config)
  <2>1. /\ records = << >> /\ At(c, "applying")
        /\ records' = [n \in {1} |-> r] /\ made' = [n \in {1} |-> config]
        /\ req' = [req EXCEPT ![c] = [Blank EXCEPT !.op = "install", !.revision = 1, !.config = config]]
    BY <1>5 DEF Install
  <2>2. r.revision = 1 /\ r.config = config
    BY DEF MakeRecord
  <2> HIDE DEF r, config
  <2>3. /\ pc'[c] = "applying" /\ req'[c].revision = 1
        /\ req'[c].config = config /\ req'[c].base = NoRecord
    BY <1>1, <2>1 DEF At, Blank
  <2>4. DOMAIN records = {} /\ DOMAIN made = {}
    BY <1>1, <2>1, EmptyRecords DEF Types
  <2>5. \A d \in Change : pc[d] \notin {"preparing", "stuck", "mapping"} \cup After
    BY <1>1, <2>4 DEF KnownOf
  <2>6. \A n \in DOMAIN records' : Own(n)'
    BY <2>1, <2>2 DEF Own
  <2>7. /\ \A n \in DOMAIN made' : n \in Nat /\ \E m \in DOMAIN records' : n <= m
        /\ DOMAIN made' \ DOMAIN records' = {}
    BY <2>1
  <2>8. \A d \in Change : (KnownOf(d) /\ RemovesOf(d))'
    BY <1>3, <1>4, <2>1, <2>3, <2>5 DEF KnownOf, RemovesOf
  <2>9. ASSUME NEW j \in Job
        PROVE  JobKnows(j)'
    <3>1. todo[j] = {}
      BY <1>1, <2>4, EnoughIsSome DEF JobKnows
    <3>2. jobPc[j] \notin {"idle", "listed"} => DOMAIN listed[j] = {}
      BY <1>1, <2>4 DEF JobKnows
    <3> QED
      BY <1>2, <3>1, <3>2 DEF JobKnows, jobs
  <2> QED
    BY <1>3, <2>6, <2>7, <2>8, <2>9 DEF KeepsInvariant
<1>6. CASE Uninstall(c)
  <2>1. /\ records # << >> /\ Begins("uninstall") /\ At(c, "uninstalling") /\ made' = made
        /\ records' = [records EXCEPT ![Last].status = "uninstalling"]
        /\ req' = [req EXCEPT ![c] = [Blank EXCEPT !.op = "uninstall", !.seen = DOMAIN records]]
    BY <1>6 DEF Uninstall
  <2>2. Moving = {}
    BY <2>1, BeginsCalm DEF Operations
  <2>3. DOMAIN records # {}
    BY <1>1, <2>1, EmptyRecords DEF Types
  <2>4. /\ Last \in DOMAIN records /\ Last \in Nat /\ records[Last] \in Record
        /\ \A m \in DOMAIN records : m <= Last /\ m \in Nat
    BY <1>1, <2>3, LastIsGreatest, RecordFields
  <2>5. pc'[c] = "uninstalling" /\ req'[c].seen = DOMAIN records
    BY <1>1, <2>1 DEF At, Blank
  <2>6. /\ DOMAIN records' = DOMAIN records /\ records'[Last].status = "uninstalling"
        /\ \A n \in DOMAIN records : /\ records'[n].revision = records[n].revision
                                     /\ records'[n].config = records[n].config
    BY <2>1, <2>4 DEF Record
  <2>7. RemovesOf(c)'
    <3>1. Moving' = {}
      BY <1>2, <2>2 DEF Moving, jobs
    <3>2. ASSUME NEW n \in DOMAIN records', \A m \in DOMAIN records' : m <= n
          PROVE  records'[n].status = "uninstalling"
      <4>1. n = Last
        BY <2>4, <2>6, <3>2
      <4> QED
        BY <2>6, <4>1
    <3> QED
      BY <2>5, <2>6, <3>1, <3>2 DEF RemovesOf
  <2> QED
    BY <1>2, <2>1, <2>5, <2>6, <2>7, CalmStep DEF KnownOf
<1>7. CASE Purge(c)
  <2>1. /\ pc[c] = "uninstalling" /\ records' = Without(records, req[c].seen) /\ Ends(c)
        /\ made' = Without(made, {n \in DOMAIN made : \E m \in req[c].seen : n <= m})
    BY <1>7 DEF Purge
  <2>2. /\ DOMAIN records' = {} /\ pc'[c] = "ended"
        /\ DOMAIN records \subseteq req[c].seen /\ Moving = {}
    BY <1>1, <2>1 DEF RemovesOf, Without, Ends, At
  <2>3. DOMAIN made' = {}
    <3>1. \A n \in DOMAIN made : \E m \in req[c].seen : n <= m
      BY <1>1, <2>2
    <3> QED
      BY <2>1, <3>1 DEF Without
  <2>4. c \in InFlight /\ req[c].op = "uninstall"
    BY <1>1, <2>1 DEF OpOf, InFlight
  <2>5. \A d \in Change : d # c => pc[d] \in {"new", "ended"}
    BY <1>1, <2>4 DEF Separate, InFlight
  <2>6. \A d \in Change : (KnownOf(d) /\ RemovesOf(d))'
    BY <1>4, <2>2, <2>5 DEF KnownOf, RemovesOf
  <2>7. \A j \in Job : JobKnows(j)'
    <3>1. \A j \in Job : todo[j] = {} /\ jobPc[j] = "idle"
      BY <1>1, <2>2 DEF Moving, JobOf
    <3> QED
      BY <1>2, <3>1 DEF JobKnows, jobs
  <2> QED
    BY <1>3, <2>2, <2>3, <2>6, <2>7 DEF KeepsInvariant
<1> QED
  BY <1>5, <1>6, <1>7

\* The steps of the tracker jobs: what is deleted is backed up, and each deletion leaves enough
\* revisions that are newer than any that was or is to be deleted.
LEMMA JobsKeep ==
  ASSUME Shapes, KeepsInvariant, Calm, Calm', NEW j \in Job, JobStep(j)
  PROVE  KeepsInvariant'
<1>1. /\ Types /\ Separate /\ JobFunctions /\ jobPc \in [Job -> {"idle", "listed", "moving", "deleting"}]
      /\ \A n \in DOMAIN records : Own(n) /\ n \in Nat \ {0}
      /\ \A n \in DOMAIN made : n \in Nat /\ \E m \in DOMAIN records : n <= m
      /\ \A n \in DOMAIN made \ DOMAIN records : Gone(n)
      /\ \A c \in Change : KnownOf(c) /\ RemovesOf(c)
      /\ \A i \in Job : JobKnows(i) /\ JobOf(i)
  BY CalmFacts, JobFields
<1>2. /\ pc' = pc /\ req' = req /\ made' = made
  BY DEF JobStep, List, ReadHistory, BackUp, DeleteRevision, MoveFails, JobEnds, requests
<1>3. \A i \in Job : \A n \in todo[i] : n \in DOMAIN listed[i] /\ n \in Nat \ {0} /\ n \in DOMAIN made
  <2>1. \A i \in Job : \A n \in todo[i] : n \in DOMAIN listed[i] /\ n \in Nat \ {0}
    BY <1>1, JobFields DEF JobOf, Typed
  <2>2. \A i \in Job : todo[i] # {} => jobPc[i] \notin {"idle", "listed"}
    BY <1>1 DEF JobOf
  <2> QED
    BY <1>1, <2>1, <2>2 DEF JobKnows
<1>4. /\ \A c \in Change : pc[c] # "uninstalling"
      /\ DOMAIN records' \subseteq DOMAIN records
      /\ \A n \in DOMAIN records' : records'[n] = records[n]
      /\ \A n \in DOMAIN records : \E m \in DOMAIN records' : n = m \/ n < m
  <2>1. \A i \in Job : Spares(i)
    <3>1. ASSUME NEW i \in Job, NEW n \in todo[i]
          PROVE  \E m \in DOMAIN records : n < m
      <4>1. PICK m \in DOMAIN records : m > n
        BY <1>1, <3>1, EnoughIsSome DEF JobKnows
      <4> QED
        BY <1>1, <1>3, <3>1, <4>1
    <3> QED
      BY <3>1 DEF Spares
  <2>2. \A n \in DOMAIN records : records[n].revision = n
    BY <1>1 DEF Own
  <2> QED
    BY <1>1, <2>1, <2>2, JobRemoves DEF Calm, Disturbed
<1>5. Separate' /\ (\A n \in DOMAIN records' : Own(n)')
      /\ \A c \in Change : (KnownOf(c) /\ RemovesOf(c))'
  BY <1>1, <1>2, <1>4 DEF Separate, InFlight, Own, KnownOf, RemovesOf
<1>6. \A n \in DOMAIN made' : n \in Nat /\ \E m \in DOMAIN records' : n <= m
  <2>1. ASSUME NEW n \in DOMAIN made
        PROVE  n \in Nat /\ \E m \in DOMAIN records' : n <= m
    <3>1. PICK k \in DOMAIN records : n <= k
      BY <1>1, <2>1
    <3>2. PICK m \in DOMAIN records' : k = m \/ k < m
      BY <1>4
    <3>3. n \in Nat /\ k \in Nat /\ m \in Nat
      BY <1>1, <1>4, <2>1
    <3> QED
      BY <3>1, <3>2, <3>3
  <2> QED
    BY <1>2, <2>1
<1>7. CASE ReadHistory(j)
  <2>1. /\ records' = records /\ backup' = backup
        /\ jobPc' = [jobPc EXCEPT ![j] = "moving"]
        /\ listed' = [listed EXCEPT ![j] = [n \in Exceeding |-> records[n]]]
        /\ todo' = [todo EXCEPT ![j] = Exceeding]
    BY <1>7 DEF ReadHistory
  <2>2. \A n : Newer(n)' = Newer(n) /\ (BackedUp(n)' <=> BackedUp(n))
    BY <1>2, <2>1 DEF Newer, BackedUp
  <2>3. \A n \in DOMAIN made' \ DOMAIN records' : Gone(n)'
    BY <1>1, <1>2, <2>1, <2>2 DEF Gone
  <2>4. ASSUME NEW i \in Job
        PROVE  JobKnows(i)'
    <3>1. CASE i # j
      <4>1. jobPc'[i] = jobPc[i] /\ listed'[i] = listed[i] /\ todo'[i] = todo[i]
        BY <1>1, <2>1, <3>1 DEF JobFunctions
      <4> QED
        BY <1>1, <1>2, <2>2, <4>1 DEF JobKnows
    <3>2. CASE i = j
      <4>1. jobPc'[i] = "moving" /\ listed'[i] = [n \in Exceeding |-> records[n]]
        BY <1>1, <2>1, <3>2 DEF JobFunctions
      <4>2. ASSUME NEW n \in todo'[i]
            PROVE  Cardinality(Newer(n)) >= Keep
        <5> DEFINE newer == {m \in DOMAIN records : records[m].revision > records[n].revision}
        <5>1. n \in DOMAIN records /\ Cardinality(newer) >= Keep
          BY <1>1, <2>1, <3>2, <4>2 DEF JobFunctions, Exceeding
        <5>2. newer = Newer(n)
          BY <1>1, <5>1 DEF Own, Newer
        <5> QED
          BY <5>1, <5>2
      <4>3. \A n \in Exceeding : n \in DOMAIN records
        BY DEF Exceeding
      <4> QED
        BY <1>1, <1>2, <2>2, <4>1, <4>2, <4>3 DEF JobKnows, Own
    <3> QED
      BY <3>1, <3>2
  <2> QED
    BY <1>5, <1>6, <2>3, <2>4 DEF KeepsInvariant
<1>8. CASE BackUp(j)
  <2> DEFINE k == NextToMove(j)
             r == listed[j][k]
  <2>1. /\ records' = records /\ listed' = listed /\ todo' = todo
        /\ jobPc' = [jobPc EXCEPT ![j] = "deleting"] /\ backup' = Put(backup, k, r)
        /\ jobPc[j] = "moving" /\ todo[j] # {}
    BY <1>8 DEF BackUp
  <2>2. k \in todo[j] /\ (\A m \in todo[j] : m <= k) /\ k \in Nat
    BY <1>1, <2>1, NextToMoveFacts
  <2>3. k \in DOMAIN made /\ r.config = made[k]
    BY <1>1, <1>3, <2>1, <2>2 DEF JobKnows
  <2> HIDE DEF k, r
  <2>4. \A n : Newer(n)' = Newer(n)
    BY <2>1 DEF Newer
  <2>5. \A n : n = k \/ BackedUp(n) => BackedUp(n)'
    BY <1>2, <2>1, <2>3 DEF BackedUp, Put
  <2>6. \A n \in DOMAIN made' \ DOMAIN records' : Gone(n)'
    BY <1>1, <1>2, <2>1, <2>4, <2>5 DEF Gone
  <2>7. ASSUME NEW i \in Job
        PROVE  JobKnows(i)'
    <3>1. CASE i # j
      <4>1. jobPc'[i] = jobPc[i]
        BY <1>1, <2>1, <3>1
      <4> QED
        BY <1>1, <1>2, <2>1, <2>4, <2>5, <4>1 DEF JobKnows
    <3>2. CASE i = j
      <4>1. ASSUME NEW n \in todo[j], \A m \in todo[j] : m <= n
            PROVE  n = k
        BY <1>3, <2>2, <4>1
      <4> QED
        BY <1>1, <1>2, <2>1, <2>4, <2>5, <3>2, <4>1 DEF JobKnows
    <3> QED
      BY <3>1, <3>2
  <2> QED
    BY <1>5, <1>6, <2>6, <2>7 DEF KeepsInvariant
<1>9. CASE List(j) \/ MoveFails(j) \/ JobEnds(j)
  <2>1. /\ records' = records /\ backup' = backup
        /\ \A i \in Job : todo'[i] \subseteq todo[i]
        /\ \A i \in Job \ {j} : jobPc'[i] = jobPc[i] /\ listed'[i] = listed[i] /\ todo'[i] = todo[i]
        /\ \/ jobPc'[j] = "moving" /\ listed'[j] = listed[j] /\ jobPc[j] \notin {"idle", "listed"}
           \/ jobPc'[j] \in {"idle", "listed"}
    BY <1>1, <1>9 DEF List, MoveFails, JobEnds, Skips, JobFunctions
  <2>2. \A n : Newer(n)' = Newer(n) /\ (BackedUp(n)' <=> BackedUp(n))
    BY <1>2, <2>1 DEF Newer, BackedUp
  <2>3. \A n \in DOMAIN made' \ DOMAIN records' : Gone(n)'
    BY <1>1, <1>2, <2>1, <2>2 DEF Gone
  <2>4. ASSUME NEW i \in Job
        PROVE  JobKnows(i)'
    <3>1. CASE i # j
      BY <1>1, <1>2, <2>1, <2>2, <3>1 DEF JobKnows
    <3>2. CASE i = j
      BY <1>1, <1>2, <2>1, <2>2, <3>2 DEF JobKnows
    <3> QED
      BY <3>1, <3>2
  <2> QED
    BY <1>5, <1>6, <2>3, <2>4 DEF KeepsInvariant
<1>10. CASE DeleteRevision(j)
  <2> DEFINE k == NextToMove(j)
  <2>1. /\ jobPc[j] = "deleting" /\ records' = Without(records, {k})
        /\ todo' = [todo EXCEPT ![j] = @ \ {k}] /\ jobPc' = [jobPc EXCEPT ![j] = "moving"]
        /\ listed' = listed /\ backup' = backup
    BY <1>10 DEF DeleteRevision, Skips
  <2>2. k \in todo[j] /\ (\A m \in todo[j] : m <= k) /\ k \in Nat
    BY <1>1, <2>1, NextToMoveFacts DEF JobOf
  <2>3. Gone(k)
    BY <1>1, <2>1, <2>2 DEF JobKnows, Gone
  <2> HIDE DEF k
  <2>4. DOMAIN records' = DOMAIN records \ {k}
    BY <2>1 DEF Without
  <2>5. ASSUME NEW n \in Nat, Cardinality(Newer(n)) >= Keep
        PROVE  Cardinality(Newer(n)') >= Keep
    <3>1. CASE k > n
      <4> DEFINE T == {m \in DOMAIN records \ {k} : m > n}
      <4>1. Newer(k) \subseteq T /\ Newer(n)' = T
        BY <1>1, <2>2, <2>4, <3>1 DEF Newer
      <4>2. IsFiniteSet(T)
        BY <1>1, FiniteRecords, FS_Subset
      <4> HIDE DEF T
      <4>3. Cardinality(T) >= Keep
        BY <2>3, <4>1, <4>2, EnoughInMore DEF Gone
      <4> QED
        BY <4>1, <4>3
    <3>2. CASE ~(k > n)
      <4>1. Newer(n)' = Newer(n)
        BY <2>4, <3>2 DEF Newer
      <4> QED
        BY <2>5, <4>1
    <3> QED
      BY <3>1, <3>2
  <2>6. \A n : BackedUp(n)' <=> BackedUp(n)
    BY <1>2, <2>1 DEF BackedUp
  <2>7. \A n \in DOMAIN made' \ DOMAIN records' : Gone(n)'
    BY <1>1, <1>2, <2>2, <2>3, <2>4, <2>5, <2>6 DEF Gone
  <2>8. ASSUME NEW i \in Job
        PROVE  JobKnows(i)'
    <3>1. CASE i # j
      <4>1. jobPc'[i] = jobPc[i] /\ todo'[i] = todo[i]
        BY <1>1, <2>1, <3>1 DEF JobFunctions
      <4> QED
        BY <1>1, <1>2, <1>3, <2>1, <2>5, <2>6, <4>1 DEF JobKnows
    <3>2. CASE i = j
      <4>1. jobPc'[i] = "moving" /\ todo'[i] \subseteq todo[i] /\ jobPc[i] \notin {"idle", "listed"}
        BY <1>1, <2>1, <3>2 DEF JobFunctions
      <4> QED
        BY <1>1, <1>2, <1>3, <2>1, <2>5, <2>6, <4>1 DEF JobKnows
    <3> QED
      BY <3>1, <3>2
  <2> QED
    BY <1>5, <1>6, <2>7, <2>8 DEF KeepsInvariant
<1> QED
  BY <1>7, <1>8, <1>9, <1>10 DEF JobStep

LEMMA AgesKeeps ==
  ASSUME Shapes, KeepsInvariant, Calm, NEW n \in DOMAIN records, Ages(n)
  PROVE  KeepsInvariant'
<1>1. /\ Types /\ Separate /\ (\A m \in DOMAIN records : Own(m))
      /\ \A m \in DOMAIN made : m \in Nat /\ \E x \in DOMAIN records : m <= x
      /\ \A m \in DOMAIN made \ DOMAIN records : Gone(m)
      /\ \A c \in Change : KnownOf(c) /\ RemovesOf(c)
      /\ \A j \in Job : JobKnows(j)
  BY CalmFacts
<1>2. /\ UNCHANGED <<requests, jobs, made>>
      /\ records' = [records EXCEPT ![n].old = TRUE]
  BY DEF Ages
<1>3. /\ DOMAIN records' = DOMAIN records
      /\ \A m \in DOMAIN records : /\ records'[m].revision = records[m].revision
                                   /\ records'[m].config = records[m].config
                                   /\ records'[m].status = records[m].status
  BY <1>1, <1>2, RecordFields DEF Record
<1>4. Separate' /\ (\A m \in DOMAIN records' : Own(m)')
  BY <1>1, <1>2, <1>3 DEF Separate, InFlight, requests, Own
<1>5. \A m : Newer(m)' = Newer(m) /\ (BackedUp(m)' <=> BackedUp(m))
  BY <1>2, <1>3 DEF Newer, BackedUp, jobs
<1>6. \A m \in DOMAIN made' \ DOMAIN records' : Gone(m)'
  BY <1>1, <1>2, <1>3, <1>5 DEF Gone
<1>7. \A c \in Change : (KnownOf(c) /\ RemovesOf(c))'
  BY <1>1, <1>2, <1>3 DEF KnownOf, RemovesOf, requests, jobs, Moving
<1>8. \A j \in Job : JobKnows(j)'
  BY <1>1, <1>2, <1>5 DEF JobKnows, jobs
<1> QED
  BY <1>1, <1>2, <1>3, <1>4, <1>6, <1>7, <1>8 DEF KeepsInvariant

LEMMA InitKeeps == Init => KeepsInvariant
<1> SUFFICES ASSUME Init
             PROVE  KeepsInvariant
  OBVIOUS
<1>1. PICK n \in 0..Keep + 1, last \in {"deployed", "failed", "pending"} :
        /\ records = [m \in 1..n |->
             MakeRecord(m, IF m = n THEN last
                           ELSE IF m = n - 1 /\ last # "deployed" THEN "deployed" ELSE "superseded", First)]
        /\ made = [m \in 1..n |-> First]
  BY DEF Init
<1>2. \A m \in DOMAIN records : Own(m)
  BY <1>1 DEF MakeRecord, Own
<1>3. /\ DOMAIN made = DOMAIN records
      /\ \A m \in DOMAIN made : m \in Nat /\ \E x \in DOMAIN records : m <= x
  BY <1>1, KeepAssumption
<1>4. /\ \A c \in Change : pc[c] = "new"
      /\ \A j \in Job : todo[j] = {} /\ jobPc[j] = "idle"
  BY DEF Init
<1> QED
  BY <1>2, <1>3, <1>4 DEF KeepsInvariant, Separate, InFlight, KnownOf, RemovesOf, JobKnows, After

LEMMA NextKeeps == Shapes /\ KeepsInvariant /\ [Next]_vars => KeepsInvariant'
<1> SUFFICES ASSUME Shapes, KeepsInvariant, [Next]_vars, Calm'
             PROVE  KeepsInvariant'
  BY DEF KeepsInvariant
<1>1. Calm
  BY HappenedGrows DEF Calm, Disturbed
<1>2. ASSUME NEW c \in Change, Step(c)
      PROVE  KeepsInvariant'
  BY <1>1, <1>2, ReadersKeep, WritersKeep, MakersKeep, EndpointsKeep DEF Step
<1>3. ASSUME NEW j \in Job, JobStep(j)
      PROVE  KeepsInvariant'
  BY <1>1, <1>3, JobsKeep
<1>4. ASSUME NEW n \in DOMAIN records, Ages(n)
      PROVE  KeepsInvariant'
  BY <1>1, <1>4, AgesKeeps
<1>5. CASE UNCHANGED vars
  <2> USE <1>5 DEF vars, requests, jobs
  <2>1. Separate'
    BY <1>1 DEF KeepsInvariant, Separate, InFlight
  <2>2. \A n \in DOMAIN records' : Own(n)'
    BY <1>1 DEF KeepsInvariant, Own
  <2>3. \A n \in DOMAIN made' : n \in Nat /\ \E m \in DOMAIN records' : n <= m
    BY <1>1 DEF KeepsInvariant
  <2>4. \A n : Newer(n)' = Newer(n) /\ (BackedUp(n)' <=> BackedUp(n))
    BY DEF Newer, BackedUp
  <2>5. \A n \in DOMAIN made' \ DOMAIN records' : Gone(n)'
    BY <1>1, <2>4 DEF KeepsInvariant, Gone
  <2>6. \A c \in Change : KnownOf(c)'
    BY <1>1 DEF KeepsInvariant, KnownOf
  <2>7. \A c \in Change : RemovesOf(c)'
    BY <1>1 DEF KeepsInvariant, RemovesOf, Moving
  <2>8. \A j \in Job : JobKnows(j)'
    BY <1>1, <2>4 DEF KeepsInvariant, JobKnows
  <2> QED
    BY <2>1, <2>2, <2>3, <2>5, <2>6, <2>7, <2>8 DEF KeepsInvariant
<1> QED
  BY <1>2, <1>3, <1>4, <1>5, NextSteps

-----------------------------------------------------------------------------
(* The theorems.                                                           *)

LEMMA InitInvariant == Init => HelmInvariant
<1> SUFFICES ASSUME Init
             PROVE  HelmInvariant
  OBVIOUS
<1>1. Shapes
  BY InitShapes
<1>2. \A n \in DOMAIN records : Own(n)
  BY DEF Init, Own, MakeRecord
<1>3. InFlight = {} /\ \A j \in Job : todo[j] = {}
  BY DEF Init, InFlight
<1>4. \A c \in Change : pc[c] = "new"
  BY DEF Init
<1>5. RecordsInvariant
  BY <1>2, <1>3, <1>4
  DEF RecordsInvariant, Alone, ReadOf, ViewOf, MakesOf, RemovesOf, Spares, Before, After
<1> QED
  BY <1>1, <1>5 DEF HelmInvariant

LEMMA NextInvariant == HelmInvariant /\ [Next]_vars => HelmInvariant'
<1> SUFFICES ASSUME HelmInvariant, [Next]_vars
             PROVE  HelmInvariant'
  OBVIOUS
<1>1. Shapes'
  BY ShapesKept DEF HelmInvariant
<1>2. ASSUME Orderly'
      PROVE  RecordsInvariant'
  <2>1. Orderly
    BY <1>2, OrderlyBefore DEF HelmInvariant
  <2>2. ASSUME NEW c \in Change, Step(c)
        PROVE  RecordsInvariant'
    BY <1>2, <2>1, <2>2, ReadersInvariant, WritersInvariant, MakersInvariant, EndpointsInvariant DEF Step
  <2>3. ASSUME NEW j \in Job, JobStep(j)
        PROVE  RecordsInvariant'
    BY <1>2, <2>1, <2>3, JobsInvariant
  <2>4. ASSUME NEW n \in DOMAIN records, Ages(n)
        PROVE  RecordsInvariant'
    BY <2>1, <2>4, AgesInvariant
  <2>5. CASE UNCHANGED vars
    BY <2>5 DEF HelmInvariant, RecordsInvariant, Orderly, Disturbed, Alone, InFlight, Own, ReadOf,
                ViewOf, MakesOf, RemovesOf, Moving, Spares, vars
  <2> QED
    BY <2>2, <2>3, <2>4, <2>5, NextSteps
<1>3. RecordsInvariant'
  BY <1>2 DEF RecordsInvariant
<1> QED
  BY <1>1, <1>3 DEF HelmInvariant

\* Whatever requests and tracker jobs run, fail or crash, the invariant above holds.
THEOREM HelmInvariantHolds == Spec => []HelmInvariant
BY InitInvariant, NextInvariant, PTL DEF Spec

\* Every variable of the model of releases has its type: the release that the agent has read,
\* the revision that it makes and the records that a job has listed are always such.
THEOREM HelmTypeCorrect == Spec => []TypeOK
<1>1. HelmInvariant => TypeOK
  BY DEF HelmInvariant, Shapes, Types
<1> QED
  BY <1>1, HelmInvariantHolds, PTL

\* Neither the remedy for a stuck operation nor the one for removed APIs of
\* UpgradeReleaseByValues puts a release over the record of another revision, whatever gets
\* stuck, fails or crashes, as long as no request overlaps with an upgrade or a deploy, nor
\* anything, jobs included, with an uninstall.
THEOREM RecordsAreOwn == Spec => []RecordsOwn
<1>1. HelmInvariant => RecordsOwn
  BY DEF HelmInvariant, RecordsInvariant, RecordsOwn, Orderly, Own
<1> QED
  BY <1>1, HelmInvariantHolds, PTL

\* The check of UpgradeReleaseHandler that the latest revision is the one that the client has
\* seen holds until Helm makes the next one, with tracker jobs deleting revisions in between and
\* calls that fail, as long as no request overlaps with an upgrade, nor anything with an
\* uninstall: a job that overlaps with one may delete the newest revision of the next release.
THEOREM UpgradesFollowView == Spec => []UpgradesFromView
<1>1. HelmInvariant => UpgradesFromView
  BY DEF HelmInvariant, RecordsInvariant, UpgradesFromView, Orderly, ViewOf, After
<1> QED
  BY <1>1, HelmInvariantHolds, PTL

\* Whatever requests and tracker jobs run, so does what the agent has read relate to what is at
\* work.
THEOREM ExclusionInvariantHolds == Spec => []ExclusionInvariant
<1>1. Spec => []Shapes
  <2>1. HelmInvariant => Shapes
    BY DEF HelmInvariant
  <2> QED
    BY <2>1, HelmInvariantHolds, PTL
<1>2. Init => ExclusionInvariant
  BY InitExclusion
<1>3. Shapes /\ ExclusionInvariant /\ [Next]_vars => ExclusionInvariant'
  BY NextExclusion
<1> QED
  BY <1>1, <1>2, <1>3, PTL DEF Spec

\* One upgrade at a time is applied and at most one revision deployed, with any number of
\* upgrades and deploys that overlap, fail, crash, or are taken over when nobody is at work on
\* them. Excluded are rollbacks and uninstalls that overlap, records that a remedy has
\* overwritten with another release, and operations at work for a minute (the bound of Ages).
THEOREM OneUpgradeAtATime == Spec => []OneAtATime
<1>1. ExclusionInvariant => OneAtATime
  <2> SUFFICES ASSUME ExclusionInvariant, Serial
               PROVE  /\ Cardinality({c \in Change : pc[c] \in After}) <= 1
                      /\ Cardinality(Having("deployed")) <= 1
    BY DEF OneAtATime, Serial, After
  <2>1. ASSUME NEW S, \A x, y \in S : x = y
        PROVE  Cardinality(S) <= 1
    <3>1. CASE S = {}
      BY <3>1, FS_EmptySet
    <3>2. CASE S # {}
      <4>1. PICK x \in S : S = {x}
        BY <2>1, <3>2
      <4> QED
        BY <4>1, FS_Singleton
    <3> QED
      BY <3>1, <3>2
  <2>2. OneWorks /\ OneDeployed
    BY DEF ExclusionInvariant
  <2>3. \A x, y \in {c \in Change : pc[c] \in After} : x = y
    BY <2>2 DEF OneWorks
  <2>4. \A x, y \in Having("deployed") : x = y
    BY <2>2 DEF OneDeployed
  <2> QED
    BY <2>1, <2>3, <2>4
<1> QED
  BY <1>1, ExclusionInvariantHolds, PTL

\* Whatever requests and tracker jobs run, what is deployed, what an agent has read of it and
\* what is at work relate to what the cluster runs.
THEOREM RunsInvariantHolds == Spec => []RunsInvariant
<1>1. Spec => []Shapes
  <2>1. HelmInvariant => Shapes
    BY DEF HelmInvariant
  <2> QED
    BY <2>1, HelmInvariantHolds, PTL
<1>2. Init => RunsInvariant
  BY InitRuns
<1>3. Shapes /\ ExclusionInvariant /\ RunsInvariant /\ [Next]_vars => RunsInvariant'
  BY NextRuns
<1> QED
  BY <1>1, <1>2, <1>3, ExclusionInvariantHolds, PTL DEF Spec

\* With nothing under way the cluster runs the values of the revision deployed, however many
\* upgrades, deploys and tracker jobs have overlapped. Excluded are rollbacks and uninstalls that
\* overlapped, records that a remedy has overwritten with another release, failures, crashes,
\* and operations at work for a minute (the bound of Ages).
THEOREM DeployedRuns == Spec => []DeployedIsWhatRuns
<1>1. RunsInvariant => DeployedIsWhatRuns
  <2>1. Quiet => Idle
    BY DEF Quiet, InFlight, Idle, After
  <2>2. ~Disturbed({"rollback", "uninstall", "overwritten", "failure", "crash"}) => Steady
    BY DEF Disturbed, Steady, Serial
  <2> QED
    BY <2>1, <2>2 DEF RunsInvariant, DeployedIsWhatRuns
<1> QED
  BY <1>1, RunsInvariantHolds, PTL

\* Whatever requests and tracker jobs run, a remedy overwrites no other record unless something
\* has overlapped, and with nothing overlapping or failing a deploy carries over what the
\* cluster runs.
THEOREM SettingsInvariantHolds == Spec => []SettingsInvariant
<1>1. Init => SettingsInvariant
  BY InitSettings
<1>2. HelmInvariant /\ ExclusionInvariant /\ RunsInvariant /\ SettingsInvariant /\ [Next]_vars
        => SettingsInvariant'
  BY NextSettings
<1> QED
  BY <1>1, <1>2, HelmInvariantHolds, ExclusionInvariantHolds, RunsInvariantHolds, PTL DEF Spec

\* As long as no two requests overlap and none fails or crashes, what WebhookHandler and
\* UpdateImageBatchHandler replace has the settings that they send along with the image, and
\* its jobs are paused after if they were before or by UpdateImageBatchHandler: after any
\* sequence of upgrades, rollbacks and installs, and whatever the tracker deletes meanwhile.
THEOREM DeploysKeepSettings == Spec => []DeployKeepsSettings
<1>1. SettingsInvariant => DeployKeepsSettings
  BY DEF SettingsInvariant, DeployKeepsSettings, Tidy, DeployOf, Carries
<1> QED
  BY <1>1, SettingsInvariantHolds, PTL

\* Whatever requests and tracker jobs run, so does what is made relate to what is recorded,
\* listed and backed up.
THEOREM KeepsInvariantHolds == Spec => []KeepsInvariant
<1>1. Spec => []Shapes
  <2>1. HelmInvariant => Shapes
    BY DEF HelmInvariant
  <2> QED
    BY <2>1, HelmInvariantHolds, PTL
<1>2. Init => KeepsInvariant
  BY InitKeeps
<1>3. Shapes /\ KeepsInvariant /\ [Next]_vars => KeepsInvariant'
  BY NextKeeps
<1> QED
  BY <1>1, <1>2, <1>3, PTL DEF Spec

\* A revision that the tracker has deleted is in the bucket with the values that it was made
\* with, and there are at least as many newer ones as it is to keep: with any number of jobs at
\* a time, each of which may fail or crash between a backup and the deletion, and any upgrades
\* and rollbacks meanwhile. Excluded are uninstalls that overlap with a request or a job, and
\* records that a remedy has overwritten with another release.
THEOREM DeletedIsBackedUp == Spec => []KeptOrBackedUp
<1>1. KeepsInvariant => KeptOrBackedUp
  BY DEF KeepsInvariant, KeptOrBackedUp, Calm, Gone, BackedUp, Newer
<1> QED
  BY <1>1, KeepsInvariantHolds, PTL
=============================================================================
