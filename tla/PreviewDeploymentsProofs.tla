---------------------- MODULE PreviewDeploymentsProofs ----------------------
(***************************************************************************)
(* Proofs about PreviewDeployments, for any number of webhook deliveries,  *)
(* requests and workflow runs, however many are under way at a time.       *)
(***************************************************************************)
EXTENDS PreviewDeployments, SequenceTheorems, TLAPS

-----------------------------------------------------------------------------
(* The invariant.                                                          *)

Step == Savings \cup {"insert", "makeNamespace", "dispatch", "cancel", "dropNamespace",
                      "dropEnvironment", "comment"}

CallOps == Operations
RunOps == {"create", "update", "finalize", "errors", "status"}
Savers == {"reenable", "trigger", "edited", "update", "finalize", "errors", "status"}
Deleters == {"closed", "delete"}
Deletions == Deleters \cup {"deleteEnvironment"}
Makers == {"opened", "enable", "reenable", "create"}
Making == {"insert", "makeNamespace"}

\* What may be left of the plan of each handler.
Left ==
  [ opened            |-> {<<"insert", "makeNamespace", "dispatch">>, <<"makeNamespace", "dispatch">>,
                           <<"dispatch">>},
    enable            |-> {<<"dispatch", "insert", "makeNamespace">>, <<"insert", "makeNamespace">>,
                           <<"makeNamespace">>},
    reenable          |-> {<<"saveCreating", "makeNamespace", "dispatch">>,
                           <<"makeNamespace", "dispatch">>, <<"dispatch">>},
    trigger           |-> {<<"dispatch", "saveUpdating">>, <<"saveUpdating">>},
    synchronize       |-> {<<"dispatch">>},
    edited            |-> {<<"saveEdited">>},
    closed            |-> {<<"cancel", "dropNamespace", "saveInactive">>,
                           <<"dropNamespace", "saveInactive">>, <<"saveInactive">>},
    delete            |-> {<<"dropNamespace", "saveInactive">>, <<"saveInactive">>},
    deleteEnvironment |-> {<<"dropNamespace", "dropEnvironment">>, <<"dropEnvironment">>},
    create            |-> {<<"insert", "makeNamespace">>, <<"makeNamespace">>},
    update            |-> {<<"saveCommit">>},
    finalize          |-> {<<"saveCreated", "comment">>, <<"comment">>},
    errors            |-> {<<"saveFailed", "comment">>, <<"comment">>},
    status            |-> {<<"saveFailed">>} ]

MakesNamespace(p) == plan[p] # << >> /\ Head(plan[p]) = "makeNamespace"
SavesInactive(p) == plan[p] # << >> /\ Head(plan[p]) = "saveInactive"

\* Whoever is at work is at a step of a plan of its own, and has the row that it saves.
Working(p) ==
  plan[p] # << >> =>
    /\ op[p] \in (IF p \in Run THEN RunOps ELSE CallOps) /\ plan[p] \in Left[op[p]]
    /\ op[p] \in Savers \cup Deleters => mine[p].id # 0
    /\ MakesNamespace(p) => rows # << >>

\* A run calls those handlers that need a row only when there is one.
RunWorking(r) ==
  /\ stage[r] \in {"none", "queued"} => plan[r] = << >>
  /\ stage[r] \in {"update", "finalize", "errors"} => rows # << >>
  /\ stage[r] = "apply" /\ plan[r] = << >> => rows # << >>

Typed ==
  /\ open \in BOOLEAN /\ due \subseteq {"opened", "closed"} /\ env \in BOOLEAN
  /\ rows \in Seq(Row) /\ namespace \in BOOLEAN
  /\ op \in [Process -> {"none", "ended"} \cup DOMAIN Plan]
  /\ plan \in [Process -> Seq(Step)]
  /\ mine \in [Process -> [id : 0..Len(rows), status : Status, commit : Commit]]
  /\ stage \in [Run -> {"none", "queued", "get", "apply", "ended"} \cup InApply]
  /\ torn \in BOOLEAN
  /\ happened \subseteq {"creation", "deletion", "save", "other", "again", "late", "failure"}

OneRun == \A r \in InProgress, s \in InProgress : r = s

\* Until two have overlapped, a call that is under way is on its own.
Alone == \A c \in InFlight : KindOf(op[c]) \notin happened => InFlight = {c} /\ InProgress = {}

\* The namespace is gone before the row becomes inactive.
Dropped == "deletion" \notin happened => \A c \in Call : SavesInactive(c) => ~namespace

\* No row becomes inactive while its namespace is there or is about to be made: whoever saves a
\* row as inactive again has found it so.
Owned ==
  env /\ {"deletion", "save"} \cap happened = {} =>
    /\ namespace => Active # {}
    /\ \A p \in Process : MakesNamespace(p) => Active # {}
    /\ \A p \in Process : plan[p] # << >> /\ op[p] \in Savers /\ mine[p].status = "inactive" =>
         rows[mine[p].id].status = "inactive"

\* After a pull request was closed and torn down, only deletions are admitted.
TornDown ==
  torn /\ "again" \notin happened =>
    /\ ~open /\ ~namespace /\ Len(rows) = 1 /\ rows[1].status = "inactive"
    /\ \A p \in Process : plan[p] # << >> => op[p] \in {"delete", "deleteEnvironment"}
    /\ \A r \in Run : stage[r] \notin {"apply", "finalize", "errors"}

\* From the moment a run has created or updated its deployment until it finalizes it, the latest
\* row is that of its commit.
RunCommitted(r) ==
  /\ plan[r] = << >> /\ stage[r] \in {"apply", "finalize"} => rows # << >> /\ rows[Latest].commit = r
  /\ plan[r] # << >> /\ op[r] = "create" /\ Head(plan[r]) = "makeNamespace" =>
       rows # << >> /\ rows[Latest].commit = r
  /\ plan[r] # << >> /\ op[r] = "update" => mine[r].id = Latest
  /\ plan[r] # << >> /\ op[r] = "finalize" => mine[r].commit = r
  /\ plan[r] # << >> /\ op[r] \notin {"create", "update"} => stage[r] = "ended"

Committed == {"creation", "deletion", "save"} \cap happened = {} => \A r \in Run : RunCommitted(r)

\* As long as nothing has overlapped or failed, the row of whoever is at work is active, but for
\* a deployment that is reenabled.
Lively ==
  happened = {} =>
    /\ InProgress # {} /\ rows # << >> => rows[Latest].status # "inactive"
    /\ \A p \in Process : plan[p] # << >> /\ op[p] \in Savers \ {"reenable"} =>
         mine[p].status # "inactive" /\ rows[mine[p].id].status # "inactive"

Shape == Typed /\ (\A p \in Process : Working(p)) /\ (\A r \in Run : RunWorking(r))

PreviewInvariant ==
  Shape /\ OneRun /\ Alone /\ Dropped /\ Owned /\ TornDown /\ Committed /\ Lively

-----------------------------------------------------------------------------
(* Plans.                                                                  *)

LEMMA TupleFacts ==
  ASSUME NEW S, NEW a \in S, NEW b \in S, NEW c \in S
  PROVE  /\ <<a>> \in Seq(S) /\ <<a>> # << >> /\ Len(<<a>>) = 1 /\ Head(<<a>>) = a
         /\ <<a, b>> \in Seq(S) /\ <<a, b>> # << >> /\ Len(<<a, b>>) = 2
         /\ Head(<<a, b>>) = a /\ Tail(<<a, b>>) = <<b>>
         /\ <<a, b, c>> \in Seq(S) /\ <<a, b, c>> # << >> /\ Len(<<a, b, c>>) = 3
         /\ Head(<<a, b, c>>) = a /\ Tail(<<a, b, c>>) = <<b, c>>
  OBVIOUS

\* What may be left of a plan of o, and what is left after its next step.
Rest(o, s) ==
  /\ s \in Seq(Step) /\ s # << >>
  /\ Len(s) # 1 => Tail(s) \in Left[o]
  /\ Len(s) # 1 /\ Head(Tail(s)) = "makeNamespace" => Head(s) \in {"insert", "saveCreating"}
  /\ Len(s) # 1 /\ Head(Tail(s)) = "saveInactive" => Head(s) = "dropNamespace"
  /\ Head(s) = "saveInactive" => Len(s) = 1
  /\ Head(s) \in Making => o \in Makers
  /\ o = "create" => Head(s) \in Making
  /\ Head(s) = "saveInactive" <=> Head(s) \in Savings \cup {"comment"} /\ o \in Deleters
  /\ Head(s) \in Savings \cup {"comment"} => o \in Savers \cup Deleters
  /\ Head(s) = "saveCommit" => o = "update"
  /\ Head(s) \in {"insert", "saveCreating"} => Len(s) # 1 /\ Head(Tail(s)) = "makeNamespace"
  /\ Head(s) = "dropNamespace" => Len(s) # 1 /\ o \in Deletions
  /\ o \in Deletions /\ Len(s) = 1 => Head(s) \in {"saveInactive", "dropEnvironment"}

\* Whether a may be the next step of o.
Fits(o, a) ==
  /\ a \in Step
  /\ a \in Making => o \in Makers
  /\ o = "create" => a \in Making
  /\ a = "saveInactive" <=> a \in Savings \cup {"comment"} /\ o \in Deleters
  /\ a \in Savings \cup {"comment"} => o \in Savers \cup Deleters
  /\ a = "saveCommit" => o = "update"
  /\ a = "dropNamespace" => o \in Deletions

\* Whether it may be the last one.
Ends(o, a) ==
  /\ a \notin {"insert", "saveCreating", "dropNamespace"}
  /\ o \in Deletions => a \in {"saveInactive", "dropEnvironment"}

\* Whether b may be the one after it.
Follows(a, b) ==
  /\ b \in Step /\ a # "saveInactive"
  /\ b = "makeNamespace" <=> a \in {"insert", "saveCreating"}
  /\ b = "saveInactive" => a = "dropNamespace"

LEMMA SingleRest ==
  ASSUME NEW o, NEW a, Fits(o, a), Ends(o, a)
  PROVE  Rest(o, <<a>>)
<1>1. <<a>> \in Seq(Step) /\ <<a>> # << >> /\ Len(<<a>>) = 1 /\ Head(<<a>>) = a
  BY TupleFacts DEF Fits
<1> QED
  BY <1>1 DEF Rest, Fits, Ends

LEMMA PairRest ==
  ASSUME NEW o, NEW a, NEW b, Fits(o, a), Follows(a, b), <<b>> \in Left[o]
  PROVE  Rest(o, <<a, b>>)
<1>1. /\ <<a, b>> \in Seq(Step) /\ <<a, b>> # << >> /\ Len(<<a, b>>) = 2
      /\ Head(<<a, b>>) = a /\ Tail(<<a, b>>) = <<b>> /\ Head(<<b>>) = b
  BY TupleFacts DEF Fits, Follows
<1> QED
  BY <1>1 DEF Rest, Fits, Follows

LEMMA TripleRest ==
  ASSUME NEW o, NEW a, NEW b, NEW c \in Step, Fits(o, a), Follows(a, b), <<b, c>> \in Left[o]
  PROVE  Rest(o, <<a, b, c>>)
<1>1. /\ <<a, b, c>> \in Seq(Step) /\ <<a, b, c>> # << >> /\ Len(<<a, b, c>>) = 3
      /\ Head(<<a, b, c>>) = a /\ Tail(<<a, b, c>>) = <<b, c>> /\ Head(<<b, c>>) = b
  BY TupleFacts DEF Fits, Follows
<1> QED
  BY <1>1 DEF Rest, Fits, Follows

LEMMA PlanFacts ==
  ASSUME NEW o \in DOMAIN Left, NEW s \in Left[o]
  PROVE  Rest(o, s)
<1>0. o \in {"opened", "enable", "reenable", "trigger", "synchronize", "edited", "closed", "delete",
             "deleteEnvironment", "create", "update", "finalize", "errors", "status"}
  BY DEF Left
<1>1. CASE o = "opened"
  <2>1. Left[o] = {<<"insert", "makeNamespace", "dispatch">>, <<"makeNamespace", "dispatch">>, <<"dispatch">>}
    BY <1>1 DEF Left
  <2>2. Rest(o, <<"insert", "makeNamespace", "dispatch">>)
    BY <1>1, <2>1, TripleRest DEF Step, Fits, Follows, Savings, Savers, Deleters, Deletions, Makers, Making
  <2>3. Rest(o, <<"makeNamespace", "dispatch">>)
    BY <1>1, <2>1, PairRest DEF Step, Fits, Follows, Savings, Savers, Deleters, Deletions, Makers, Making
  <2>4. Rest(o, <<"dispatch">>)
    BY <1>1, <2>1, SingleRest DEF Step, Fits, Ends, Savings, Savers, Deleters, Deletions, Makers, Making
  <2> QED
    BY <2>1, <2>2, <2>3, <2>4
<1>2. CASE o = "enable"
  <2>1. Left[o] = {<<"dispatch", "insert", "makeNamespace">>, <<"insert", "makeNamespace">>, <<"makeNamespace">>}
    BY <1>2 DEF Left
  <2>2. Rest(o, <<"dispatch", "insert", "makeNamespace">>)
    BY <1>2, <2>1, TripleRest DEF Step, Fits, Follows, Savings, Savers, Deleters, Deletions, Makers, Making
  <2>3. Rest(o, <<"insert", "makeNamespace">>)
    BY <1>2, <2>1, PairRest DEF Step, Fits, Follows, Savings, Savers, Deleters, Deletions, Makers, Making
  <2>4. Rest(o, <<"makeNamespace">>)
    BY <1>2, <2>1, SingleRest DEF Step, Fits, Ends, Savings, Savers, Deleters, Deletions, Makers, Making
  <2> QED
    BY <2>1, <2>2, <2>3, <2>4
<1>3. CASE o = "reenable"
  <2>1. Left[o] = {<<"saveCreating", "makeNamespace", "dispatch">>, <<"makeNamespace", "dispatch">>, <<"dispatch">>}
    BY <1>3 DEF Left
  <2>2. Rest(o, <<"saveCreating", "makeNamespace", "dispatch">>)
    BY <1>3, <2>1, TripleRest DEF Step, Fits, Follows, Savings, Savers, Deleters, Deletions, Makers, Making
  <2>3. Rest(o, <<"makeNamespace", "dispatch">>)
    BY <1>3, <2>1, PairRest DEF Step, Fits, Follows, Savings, Savers, Deleters, Deletions, Makers, Making
  <2>4. Rest(o, <<"dispatch">>)
    BY <1>3, <2>1, SingleRest DEF Step, Fits, Ends, Savings, Savers, Deleters, Deletions, Makers, Making
  <2> QED
    BY <2>1, <2>2, <2>3, <2>4
<1>4. CASE o = "trigger"
  <2>1. Left[o] = {<<"dispatch", "saveUpdating">>, <<"saveUpdating">>}
    BY <1>4 DEF Left
  <2>2. Rest(o, <<"dispatch", "saveUpdating">>)
    BY <1>4, <2>1, PairRest DEF Step, Fits, Follows, Savings, Savers, Deleters, Deletions, Makers, Making
  <2>3. Rest(o, <<"saveUpdating">>)
    BY <1>4, <2>1, SingleRest DEF Step, Fits, Ends, Savings, Savers, Deleters, Deletions, Makers, Making
  <2> QED
    BY <2>1, <2>2, <2>3
<1>5. CASE o = "synchronize"
  <2>1. Left[o] = {<<"dispatch">>}
    BY <1>5 DEF Left
  <2>2. Rest(o, <<"dispatch">>)
    BY <1>5, <2>1, SingleRest DEF Step, Fits, Ends, Savings, Savers, Deleters, Deletions, Makers, Making
  <2> QED
    BY <2>1, <2>2
<1>6. CASE o = "edited"
  <2>1. Left[o] = {<<"saveEdited">>}
    BY <1>6 DEF Left
  <2>2. Rest(o, <<"saveEdited">>)
    BY <1>6, <2>1, SingleRest DEF Step, Fits, Ends, Savings, Savers, Deleters, Deletions, Makers, Making
  <2> QED
    BY <2>1, <2>2
<1>7. CASE o = "closed"
  <2>1. Left[o] = {<<"cancel", "dropNamespace", "saveInactive">>, <<"dropNamespace", "saveInactive">>, <<"saveInactive">>}
    BY <1>7 DEF Left
  <2>2. Rest(o, <<"cancel", "dropNamespace", "saveInactive">>)
    BY <1>7, <2>1, TripleRest DEF Step, Fits, Follows, Savings, Savers, Deleters, Deletions, Makers, Making
  <2>3. Rest(o, <<"dropNamespace", "saveInactive">>)
    BY <1>7, <2>1, PairRest DEF Step, Fits, Follows, Savings, Savers, Deleters, Deletions, Makers, Making
  <2>4. Rest(o, <<"saveInactive">>)
    BY <1>7, <2>1, SingleRest DEF Step, Fits, Ends, Savings, Savers, Deleters, Deletions, Makers, Making
  <2> QED
    BY <2>1, <2>2, <2>3, <2>4
<1>8. CASE o = "delete"
  <2>1. Left[o] = {<<"dropNamespace", "saveInactive">>, <<"saveInactive">>}
    BY <1>8 DEF Left
  <2>2. Rest(o, <<"dropNamespace", "saveInactive">>)
    BY <1>8, <2>1, PairRest DEF Step, Fits, Follows, Savings, Savers, Deleters, Deletions, Makers, Making
  <2>3. Rest(o, <<"saveInactive">>)
    BY <1>8, <2>1, SingleRest DEF Step, Fits, Ends, Savings, Savers, Deleters, Deletions, Makers, Making
  <2> QED
    BY <2>1, <2>2, <2>3
<1>9. CASE o = "deleteEnvironment"
  <2>1. Left[o] = {<<"dropNamespace", "dropEnvironment">>, <<"dropEnvironment">>}
    BY <1>9 DEF Left
  <2>2. Rest(o, <<"dropNamespace", "dropEnvironment">>)
    BY <1>9, <2>1, PairRest DEF Step, Fits, Follows, Savings, Savers, Deleters, Deletions, Makers, Making
  <2>3. Rest(o, <<"dropEnvironment">>)
    BY <1>9, <2>1, SingleRest DEF Step, Fits, Ends, Savings, Savers, Deleters, Deletions, Makers, Making
  <2> QED
    BY <2>1, <2>2, <2>3
<1>10. CASE o = "create"
  <2>1. Left[o] = {<<"insert", "makeNamespace">>, <<"makeNamespace">>}
    BY <1>10 DEF Left
  <2>2. Rest(o, <<"insert", "makeNamespace">>)
    BY <1>10, <2>1, PairRest DEF Step, Fits, Follows, Savings, Savers, Deleters, Deletions, Makers, Making
  <2>3. Rest(o, <<"makeNamespace">>)
    BY <1>10, <2>1, SingleRest DEF Step, Fits, Ends, Savings, Savers, Deleters, Deletions, Makers, Making
  <2> QED
    BY <2>1, <2>2, <2>3
<1>11. CASE o = "update"
  <2>1. Left[o] = {<<"saveCommit">>}
    BY <1>11 DEF Left
  <2>2. Rest(o, <<"saveCommit">>)
    BY <1>11, <2>1, SingleRest DEF Step, Fits, Ends, Savings, Savers, Deleters, Deletions, Makers, Making
  <2> QED
    BY <2>1, <2>2
<1>12. CASE o = "finalize"
  <2>1. Left[o] = {<<"saveCreated", "comment">>, <<"comment">>}
    BY <1>12 DEF Left
  <2>2. Rest(o, <<"saveCreated", "comment">>)
    BY <1>12, <2>1, PairRest DEF Step, Fits, Follows, Savings, Savers, Deleters, Deletions, Makers, Making
  <2>3. Rest(o, <<"comment">>)
    BY <1>12, <2>1, SingleRest DEF Step, Fits, Ends, Savings, Savers, Deleters, Deletions, Makers, Making
  <2> QED
    BY <2>1, <2>2, <2>3
<1>13. CASE o = "errors"
  <2>1. Left[o] = {<<"saveFailed", "comment">>, <<"comment">>}
    BY <1>13 DEF Left
  <2>2. Rest(o, <<"saveFailed", "comment">>)
    BY <1>13, <2>1, PairRest DEF Step, Fits, Follows, Savings, Savers, Deleters, Deletions, Makers, Making
  <2>3. Rest(o, <<"comment">>)
    BY <1>13, <2>1, SingleRest DEF Step, Fits, Ends, Savings, Savers, Deleters, Deletions, Makers, Making
  <2> QED
    BY <2>1, <2>2, <2>3
<1>14. CASE o = "status"
  <2>1. Left[o] = {<<"saveFailed">>}
    BY <1>14 DEF Left
  <2>2. Rest(o, <<"saveFailed">>)
    BY <1>14, <2>1, SingleRest DEF Step, Fits, Ends, Savings, Savers, Deleters, Deletions, Makers, Making
  <2> QED
    BY <2>1, <2>2
<1> QED
  BY <1>0, <1>1, <1>2, <1>3, <1>4, <1>5, <1>6, <1>7, <1>8, <1>9, <1>10, <1>11, <1>12, <1>13, <1>14

LEMMA WholePlan ==
  ASSUME NEW o \in DOMAIN Plan
  PROVE  o \in DOMAIN Left /\ Plan[o] \in Left[o]
<1>1. o \in {"opened", "enable", "reenable", "trigger", "synchronize", "edited", "closed", "delete",
             "deleteEnvironment", "create", "update", "finalize", "errors", "status"}
  BY DEF Plan
<1> QED
  BY <1>1 DEF Plan, Left

LEMMA SameOps == DOMAIN Left = DOMAIN Plan /\ Operations \subseteq DOMAIN Plan /\ RunOps \subseteq DOMAIN Plan
  BY DEF Plan, Left, Operations, Events, Requests, RunOps

-----------------------------------------------------------------------------
(* What a step changes.                                                    *)

\* A handler at work is at a step that it has, and has its row.
LEMMA WorkingFacts ==
  ASSUME Typed, NEW p \in Process, Working(p), plan[p] # << >>
  PROVE  /\ Rest(op[p], plan[p]) /\ Head(plan[p]) \in Step
         /\ op[p] \in DOMAIN Plan
         /\ op[p] \in Savers \cup Deleters => mine[p].id \in DOMAIN rows
         /\ op[p] = "update" => p \in Run
<1>1. op[p] \in DOMAIN Plan
  BY SameOps DEF Working, CallOps
<1>2. Rest(op[p], plan[p])
  BY <1>1, SameOps, PlanFacts DEF Working
<1>3. Head(plan[p]) \in Step
  BY <1>2 DEF Rest
<1>4. mine[p].id \in 0..Len(rows) /\ rows \in Seq(Row)
  BY DEF Typed
<1>5. op[p] \in Savers \cup Deleters => mine[p].id \in DOMAIN rows
  BY <1>4 DEF Working
<1>6. op[p] = "update" => p \in Run
  BY DEF Working, CallOps, Operations, Events, Requests
<1> QED
  BY <1>1, <1>2, <1>3, <1>5, <1>6

LEMMA SavedFacts ==
  ASSUME Typed, NEW p \in Process, Working(p), plan[p] # << >>
  PROVE  LET saved == Saved(p, Head(plan[p])) IN
         /\ saved \in Row
         /\ Head(plan[p]) \in Savings /\ op[p] \notin Deleters /\ saved.status = "inactive"
              => mine[p].status = "inactive"
         /\ Head(plan[p]) = "saveInactive" => saved.status = "inactive"
         /\ Head(plan[p]) = "saveCreating" => saved.status = "creating"
         /\ Head(plan[p]) \notin Savings => saved.status = mine[p].status
         /\ saved.status = "inactive" /\ Head(plan[p]) # "saveInactive" => mine[p].status = "inactive"
<1>1. mine[p].status \in Status /\ mine[p].commit \in Commit
  BY DEF Typed
<1>2. Head(plan[p]) = "saveCommit" => p \in Commit
  BY WorkingFacts DEF Rest, Commit
<1>3. Head(plan[p]) = "saveInactive" => op[p] \in Deleters
  BY WorkingFacts DEF Rest
<1>4. Saved(p, Head(plan[p])) \in Row
  BY <1>1, <1>2 DEF Saved, Row, Status
<1> QED
  BY <1>1, <1>3, <1>4 DEF Saved, Savings

OthersStay(p) == \A q \in Process \ {p} : plan'[q] = plan[q] /\ op'[q] = op[q] /\ mine'[q] = mine[q]

LEMMA DoesFacts ==
  ASSUME Typed, NEW p \in Process, Working(p), NEW step, Does(p, step)
  PROVE  /\ plan[p] # << >> /\ Head(plan[p]) = step /\ OthersStay(p)
         /\ op' \in [Process -> {"none", "ended"} \cup DOMAIN Plan]
         /\ plan' \in [Process -> Seq(Step)]
         /\ mine' \in [Process -> [id : 0..Len(rows), status : Status, commit : Commit]]
         /\ \/ plan'[p] = << >> /\ op'[p] = "ended"
            \/ /\ plan'[p] # << >> /\ plan'[p] = Tail(plan[p]) /\ Len(plan[p]) # 1
               /\ plan'[p] \in Left[op[p]] /\ op'[p] = op[p]
               /\ mine'[p].id = mine[p].id /\ mine'[p].status = Saved(p, step).status
<1>0. /\ plan \in [Process -> Seq(Step)] /\ op \in [Process -> {"none", "ended"} \cup DOMAIN Plan]
      /\ mine \in [Process -> [id : 0..Len(rows), status : Status, commit : Commit]]
      /\ rows \in Seq(Row)
  BY DEF Typed
<1>1. plan[p] # << >> /\ Head(plan[p]) = step
  BY DEF Does
<1>2. /\ Rest(op[p], plan[p]) /\ op[p] \in DOMAIN Left
  BY <1>1, WorkingFacts, SameOps
<1>3. CASE Len(plan[p]) = 1
  <2>1. Over(p)
    BY <1>3 DEF Does
  <2>2. NoRow \in [id : 0..Len(rows), status : Status, commit : Commit]
    BY <1>0 DEF NoRow, Status, Commit
  <2> QED
    BY <1>0, <1>1, <2>1, <2>2 DEF Over, OthersStay
<1>4. CASE Len(plan[p]) # 1
  <2> DEFINE saved == Saved(p, step)
  <2>1. /\ plan' = [plan EXCEPT ![p] = Tail(plan[p])] /\ op' = op
        /\ mine' = [mine EXCEPT ![p].status = saved.status, ![p].commit = saved.commit]
    BY <1>4 DEF Does
  <2>2. saved \in Row
    BY <1>1, SavedFacts
  <2> HIDE DEF saved
  <2>3. [mine[p] EXCEPT !.status = saved.status, !.commit = saved.commit]
          \in [id : 0..Len(rows), status : Status, commit : Commit]
    BY <1>0, <2>2 DEF Row
  <2>4. mine' \in [Process -> [id : 0..Len(rows), status : Status, commit : Commit]]
    BY <1>0, <2>1, <2>3
  <2>5. mine'[p].id = mine[p].id /\ mine'[p].status = saved.status
    BY <1>0, <2>1
  <2>6. Tail(plan[p]) \in Left[op[p]]
    BY <1>2, <1>4 DEF Rest
  <2>7. Rest(op[p], Tail(plan[p]))
    BY <1>2, <2>6, PlanFacts
  <2>8. Tail(plan[p]) \in Seq(Step) /\ Tail(plan[p]) # << >>
    BY <2>7 DEF Rest
  <2> QED
    BY <1>0, <1>1, <1>4, <2>1, <2>4, <2>5, <2>6, <2>8 DEF OthersStay, saved
<1> QED
  BY <1>3, <1>4

LEMMA OverFacts ==
  ASSUME Typed, NEW p \in Process, Over(p)
  PROVE  /\ OthersStay(p) /\ plan'[p] = << >> /\ op'[p] = "ended"
         /\ op' \in [Process -> {"none", "ended"} \cup DOMAIN Plan]
         /\ plan' \in [Process -> Seq(Step)]
         /\ mine' \in [Process -> [id : 0..Len(rows), status : Status, commit : Commit]]
<1>1. NoRow \in [id : 0..Len(rows), status : Status, commit : Commit]
  BY DEF NoRow, Status, Commit, Typed
<1> QED
  BY <1>1 DEF Over, OthersStay, Typed

LEMMA StartsFacts ==
  ASSUME Typed, NEW p \in Process, NEW o \in DOMAIN Plan, NEW i \in 0..Len(rows),
         Starts(p, o, i, Plan[o])
  PROVE  /\ OthersStay(p) /\ op'[p] = o /\ plan'[p] \in Left[o] /\ plan'[p] # << >>
         /\ plan'[p] = Plan[o] /\ mine'[p].id = i
         /\ i # 0 => mine'[p].status = rows[i].status
         /\ op' \in [Process -> {"none", "ended"} \cup DOMAIN Plan]
         /\ plan' \in [Process -> Seq(Step)]
         /\ mine' \in [Process -> [id : 0..Len(rows), status : Status, commit : Commit]]
<1>0. /\ plan \in [Process -> Seq(Step)] /\ op \in [Process -> {"none", "ended"} \cup DOMAIN Plan]
      /\ mine \in [Process -> [id : 0..Len(rows), status : Status, commit : Commit]]
      /\ rows \in Seq(Row)
  BY DEF Typed
<1>1. Plan[o] \in Left[o] /\ Rest(o, Plan[o])
  BY WholePlan, PlanFacts
<1>2. Plan[o] \in Seq(Step) /\ Plan[o] # << >>
  BY <1>1 DEF Rest
<1>3. NoRow \in [id : 0..Len(rows), status : Status, commit : Commit] /\ NoRow.id = 0
  BY <1>0 DEF NoRow, Status, Commit
<1>5. i # 0 => rows[i] \in Row
  BY <1>0
<1>4. i # 0 => /\ ReadRow(i) \in [id : 0..Len(rows), status : Status, commit : Commit]
               /\ ReadRow(i).id = i /\ ReadRow(i).status = rows[i].status
  BY <1>5 DEF ReadRow, Row
<1> QED
  BY <1>0, <1>1, <1>2, <1>3, <1>4 DEF Starts, OthersStay

\* Rows are added and saved, never removed.
RowsGrow == rows' \in Seq(Row) /\ Len(rows) <= Len(rows')

Handlers ==
  /\ op' \in [Process -> {"none", "ended"} \cup DOMAIN Plan]
  /\ plan' \in [Process -> Seq(Step)]
  /\ mine' \in [Process -> [id : 0..Len(rows'), status : Status, commit : Commit]]
  /\ \A p \in Process : Working(p)'

LEMMA OthersWork ==
  ASSUME Shape, NEW p \in Process, OthersStay(p), RowsGrow,
         op' \in [Process -> {"none", "ended"} \cup DOMAIN Plan], plan' \in [Process -> Seq(Step)],
         mine' \in [Process -> [id : 0..Len(rows), status : Status, commit : Commit]],
         Working(p)'
  PROVE  Handlers
<1>0. rows \in Seq(Row) /\ Len(rows) \in Nat /\ Len(rows') \in Nat
  BY DEF Shape, Typed, RowsGrow
<1>1. rows # << >> => rows' # << >>
  BY <1>0 DEF RowsGrow
<1>2. \A q \in Process \ {p} : Working(q)'
  BY <1>1 DEF Shape, OthersStay, Working, MakesNamespace
<1>3. mine' \in [Process -> [id : 0..Len(rows'), status : Status, commit : Commit]]
  <2>1. 0..Len(rows) \subseteq 0..Len(rows')
    BY <1>0 DEF RowsGrow
  <2> QED
    BY <2>1
<1> QED
  BY <1>2, <1>3 DEF Handlers

LEMMA DoesShape ==
  ASSUME Shape, NEW p \in Process, NEW step, Does(p, step), RowsGrow,
         step = "insert" => rows' # << >>
  PROVE  Handlers
<1>0. Typed /\ Working(p)
  BY DEF Shape
<1>1. plan[p] # << >> /\ Head(plan[p]) = step /\ Rest(op[p], plan[p])
  BY <1>0, DoesFacts, WorkingFacts
<1>2. Working(p)'
  <2>1. CASE plan'[p] = << >>
    BY <2>1 DEF Working
  <2>2. CASE plan'[p] # << >>
    <3>1. /\ plan'[p] = Tail(plan[p]) /\ Len(plan[p]) # 1 /\ plan'[p] \in Left[op[p]]
          /\ op'[p] = op[p] /\ mine'[p].id = mine[p].id
      BY <1>0, <2>2, DoesFacts
    <3>2. MakesNamespace(p)' => step \in {"insert", "saveCreating"}
      BY <1>1, <3>1 DEF MakesNamespace, Rest
    <3>3. step = "saveCreating" => rows' # << >>
      <4>1. step = "saveCreating" => mine[p].id \in DOMAIN rows
        BY <1>0, <1>1, WorkingFacts DEF Rest, Savings
      <4> QED
        BY <1>0, <4>1 DEF RowsGrow, Typed
    <3> QED
      BY <1>0, <1>1, <3>1, <3>2, <3>3 DEF Working
  <2> QED
    BY <2>1, <2>2
<1> QED
  BY <1>0, <1>2, DoesFacts, OthersWork

LEMMA OverShape ==
  ASSUME Shape, NEW p \in Process, Over(p), RowsGrow
  PROVE  Handlers
<1>1. Working(p)'
  BY OverFacts DEF Shape, Working
<1> QED
  BY <1>1, OverFacts, OthersWork DEF Shape

LEMMA StartsShape ==
  ASSUME Shape, NEW p \in Process, NEW o \in IF p \in Run THEN RunOps ELSE CallOps,
         NEW i \in 0..Len(rows), o \in Savers \cup Deleters => i # 0, Starts(p, o, i, Plan[o]),
         UNCHANGED rows
  PROVE  Handlers
<1>1. o \in DOMAIN Plan /\ Typed
  BY SameOps DEF CallOps, Shape
<1>2. RowsGrow
  BY <1>1 DEF RowsGrow, Typed
<1>3. Head(Plan[o]) # "makeNamespace"
  <2>1. o \in {"opened", "enable", "reenable", "trigger", "synchronize", "edited", "closed", "delete",
               "deleteEnvironment", "create", "update", "finalize", "errors", "status"}
    BY <1>1 DEF Plan
  <2>2. \A a \in Step, b \in Step, c \in Step :
          Head(<<a>>) = a /\ Head(<<a, b>>) = a /\ Head(<<a, b, c>>) = a
    BY TupleFacts
  <2> QED
    BY <2>1, <2>2 DEF Plan, Step, Savings
<1>4. Working(p)'
  BY <1>1, <1>3, StartsFacts DEF Working, MakesNamespace
<1> QED
  BY <1>1, <1>2, <1>4, StartsFacts, OthersWork

LEMMA FrozenShape ==
  ASSUME Shape, UNCHANGED <<plan, mine, rows>>,
         op' \in [Process -> {"none", "ended"} \cup DOMAIN Plan],
         \A p \in Process : op'[p] = op[p] \/ plan[p] = << >>
  PROVE  Handlers
<1>1. \A p \in Process : Working(p)'
  BY DEF Shape, Working, MakesNamespace
<1> QED
  BY <1>1 DEF Handlers, Shape, Typed

-----------------------------------------------------------------------------
(* The steps by what they have in common.                                  *)

\* A call is admitted as o, with row i.
Admitted(c, o, i) ==
  /\ Begins(c, o) /\ Admit(c, o, i) /\ Notes(o) /\ due' \subseteq due
  /\ o \in Savers \cup Deleters => i # 0
  /\ o \in {"enable", "reenable", "trigger"} => open
  /\ o = "reenable" => rows[i].status = "inactive"
  /\ o \in {"synchronize", "edited", "closed"} => rows # << >> /\ i = 1 /\ rows[1].status # "inactive"
  /\ o = "trigger" => rows[i].status # "inactive"

Admission(c) == \E o \in Operations, i \in 0..Len(rows) : Admitted(c, o, i)

\* A run calls a handler.
RunCall(r) ==
  \E o \in RunOps :
    /\ Starts(r, o, IF o = "create" THEN 0 ELSE Latest, Plan[o])
    /\ stage[r] \in InApply /\ plan[r] = << >> /\ (stage[r] # "finalize" => open)
    /\ o # "create" => rows # << >>
    /\ o = "finalize" => stage[r] = "finalize"
    /\ stage' = [stage EXCEPT ![r] = IF o \in {"create", "update"} THEN "apply" ELSE "ended"]
    /\ UNCHANGED <<github, rowsAndCluster, happened>>

\* A run goes on to its next stage.
RunGoesOn(r) ==
  /\ r \in InProgress /\ plan[r] = << >>
  /\ \E next \in {"create", "update", "finalize", "errors", "status", "ended"} :
       /\ GoesOn(r, next)
       /\ next \in {"update", "finalize", "errors"} => rows # << >>
       /\ next \in {"finalize", "errors"} => stage[r] = "apply"
       /\ next = "finalize" => namespace

\* A handler does a step of its plan.
HandlerStep(p) ==
  \/ Insert(p) \/ MakeNamespace(p) \/ DropNamespace(p) \/ Dispatch(p) \/ Cancel(p) \/ Comment(p)
  \/ DropEnvironment(p) \/ Passes(p)
  \/ \E step \in Savings : Save(p, step)

HandlerEnds(p) == CallFails(p) \/ RunFails(p) \/ Stops(p)

Elsewhere ==
  \/ Close \/ Reopen
  \/ \E c \in Call, e \in Events : Webhook(c, e) /\ ~Concerns(e)

LEMMA AdmissionFacts ==
  ASSUME Shape, NEW c \in Call,
         \/ \E e \in Events : Webhook(c, e) /\ Concerns(e)
         \/ Enable(c) \/ DeleteEnvironment(c)
         \/ \E i \in DOMAIN rows : Reenable(c, i) \/ Trigger(c, i) \/ Delete(c, i)
  PROVE  Admission(c)
<1>0. rows \in Seq(Row) /\ 0 \in 0..Len(rows) /\ \A i \in DOMAIN rows : i \in 0..Len(rows) /\ i # 0
  BY DEF Shape, Typed
<1>1. ASSUME NEW e \in Events, Webhook(c, e), Concerns(e)
      PROVE  Admission(c)
  <2> DEFINE i == IF e = "opened" THEN 0 ELSE Oldest
  <2>1. Begins(c, e) /\ Admit(c, e, i) /\ Notes(e) /\ due' \subseteq due
    <3>1. Begins(c, e) /\ due' \subseteq due
      BY <1>1 DEF Webhook
    <3>2. Admit(c, e, i) /\ Notes(e)
      BY <1>1 DEF Webhook
    <3> QED
      BY <3>1, <3>2
  <2>2. e \in {"opened", "synchronize", "closed", "edited"} /\ e \in Operations
    BY DEF Events, Operations
  <2>3. e # "opened" => rows # << >> /\ rows[1].status # "inactive" /\ i = 1
    BY <1>1, <2>2 DEF Concerns, Oldest
  <2>4. i \in 0..Len(rows)
    BY <1>0, <2>3
  <2> HIDE DEF i
  <2>5. Admitted(c, e, i)
    BY <2>1, <2>2, <2>3 DEF Admitted, Savers, Deleters
  <2> QED
    BY <2>2, <2>4, <2>5 DEF Admission
<1>2. CASE Enable(c)
  <2>1. Admitted(c, "enable", 0)
    BY <1>2 DEF Enable, Admitted, Savers, Deleters
  <2> QED
    BY <1>0, <2>1 DEF Admission, Operations, Requests
<1>3. CASE DeleteEnvironment(c)
  <2>1. Admitted(c, "deleteEnvironment", 0)
    BY <1>3 DEF DeleteEnvironment, Admitted, Savers, Deleters
  <2> QED
    BY <1>0, <2>1 DEF Admission, Operations, Requests
<1>4. ASSUME NEW i \in DOMAIN rows, Reenable(c, i) \/ Trigger(c, i) \/ Delete(c, i)
      PROVE  Admission(c)
  <2>1. \E o \in {"reenable", "trigger", "delete"} : Admitted(c, o, i)
    BY <1>0, <1>4 DEF Reenable, Trigger, Delete, Admitted
  <2> QED
    BY <1>0, <2>1 DEF Admission, Operations, Requests
<1> QED
  BY <1>1, <1>2, <1>3, <1>4

LEMMA RunFacts ==
  ASSUME Shape, NEW r \in Run,
         \/ StopRun(r) \/ GetDeployment(r) \/ CreateDeployment(r) \/ UpdateDeployment(r) \/ Apply(r)
         \/ FinalizeDeployment(r) \/ FinalizeWithErrors(r) \/ UpdateStatus(r) \/ Refused(r)
  PROVE  RunCall(r) \/ RunGoesOn(r)
<1>0. RunWorking(r) /\ stage \in [Run -> {"none", "queued", "get", "apply", "ended"} \cup InApply]
  BY DEF Shape, Typed
<1>1. CASE StopRun(r)
  BY <1>1 DEF StopRun, RunGoesOn, GoesOn
<1>2. CASE GetDeployment(r)
  BY <1>2 DEF GetDeployment, At, InProgress, RunGoesOn
<1>3. CASE Apply(r)
  BY <1>0, <1>3 DEF Apply, At, InProgress, RunGoesOn, RunWorking
<1>4. CASE Refused(r)
  <2>1. r \in InProgress /\ plan[r] = << >>
    BY <1>4 DEF Refused, InApply, InProgress
  <2>2. \E next \in {"status", "ended"} : GoesOn(r, next)
    BY <1>4 DEF Refused, AfterError
  <2> QED
    BY <2>1, <2>2 DEF RunGoesOn
<1>5. CASE CreateDeployment(r)
  <2>1. "create" \in RunOps /\ Starts(r, "create", 0, Plan["create"])
    BY <1>5 DEF RunOps, CreateDeployment, Calls
  <2>2. /\ stage[r] \in InApply /\ plan[r] = << >> /\ open
        /\ stage' = [stage EXCEPT ![r] = "apply"] /\ UNCHANGED <<github, rowsAndCluster, happened>>
    BY <1>5 DEF CreateDeployment, Calls, At, Admits, InApply
  <2> QED
    BY <2>1, <2>2 DEF RunCall
<1>6. CASE UpdateDeployment(r)
  <2>1. "update" \in RunOps /\ Starts(r, "update", Latest, Plan["update"])
    BY <1>6 DEF RunOps, UpdateDeployment, Calls
  <2>2. /\ stage[r] \in InApply /\ plan[r] = << >> /\ open /\ rows # << >>
        /\ stage' = [stage EXCEPT ![r] = "apply"] /\ UNCHANGED <<github, rowsAndCluster, happened>>
    BY <1>0, <1>6 DEF UpdateDeployment, Calls, At, Admits, InApply, RunWorking
  <2> QED
    BY <2>1, <2>2 DEF RunCall
<1>7. CASE FinalizeDeployment(r)
  <2>1. "finalize" \in RunOps /\ Starts(r, "finalize", Latest, Plan["finalize"])
    BY <1>7 DEF RunOps, FinalizeDeployment, Calls
  <2>2. /\ stage[r] \in InApply /\ plan[r] = << >> /\ stage[r] = "finalize" /\ rows # << >>
        /\ stage' = [stage EXCEPT ![r] = "ended"] /\ UNCHANGED <<github, rowsAndCluster, happened>>
    BY <1>0, <1>7 DEF FinalizeDeployment, Calls, At, InApply, RunWorking
  <2> QED
    BY <2>1, <2>2 DEF RunCall
<1>8. CASE FinalizeWithErrors(r)
  <2>1. "errors" \in RunOps /\ Starts(r, "errors", Latest, Plan["errors"])
    BY <1>8 DEF RunOps, FinalizeWithErrors, Calls
  <2>2. /\ stage[r] \in InApply /\ plan[r] = << >> /\ open /\ rows # << >>
        /\ stage' = [stage EXCEPT ![r] = "ended"] /\ UNCHANGED <<github, rowsAndCluster, happened>>
    BY <1>0, <1>8 DEF FinalizeWithErrors, Calls, At, Admits, InApply, RunWorking
  <2> QED
    BY <2>1, <2>2 DEF RunCall
<1>9. CASE UpdateStatus(r)
  <2>1. "status" \in RunOps /\ Starts(r, "status", Latest, Plan["status"])
    BY <1>9 DEF RunOps, UpdateStatus, Calls
  <2>2. /\ stage[r] \in InApply /\ plan[r] = << >> /\ open /\ rows # << >>
        /\ stage' = [stage EXCEPT ![r] = "ended"] /\ UNCHANGED <<github, rowsAndCluster, happened>>
    BY <1>0, <1>9 DEF UpdateStatus, Calls, At, Admits, InApply, RunWorking
  <2> QED
    BY <2>1, <2>2 DEF RunCall
<1> QED
  BY <1>1, <1>2, <1>3, <1>4, <1>5, <1>6, <1>7, <1>8, <1>9

LEMMA StepKinds ==
  ASSUME Shape, Next
  PROVE  \/ Elsewhere
         \/ \E c \in Call : Admission(c)
         \/ \E r \in Run : StartRun(r) \/ RunCall(r) \/ RunGoesOn(r)
         \/ \E p \in Process : HandlerStep(p) \/ HandlerEnds(p)
<1>1. ASSUME NEW c \in Call, NEW e \in Events, Webhook(c, e)
      PROVE  Elsewhere \/ Admission(c)
  BY <1>1, AdmissionFacts DEF Elsewhere
<1>2. Call \subseteq Process /\ Run \subseteq Process
  BY DEF Process
<1> QED
  BY <1>1, <1>2, AdmissionFacts, RunFacts DEF Next, Elsewhere, HandlerStep, HandlerEnds

-----------------------------------------------------------------------------
(* The shape of the state.                                                 *)

\* The rest of the types, and that the stage of each run goes with its row.
Surroundings ==
  /\ open' \in BOOLEAN /\ due' \subseteq {"opened", "closed"} /\ env' \in BOOLEAN
  /\ RowsGrow /\ namespace' \in BOOLEAN
  /\ stage' \in [Run -> {"none", "queued", "get", "apply", "ended"} \cup InApply]
  /\ torn' \in BOOLEAN
  /\ happened' \subseteq {"creation", "deletion", "save", "other", "again", "late", "failure"}
  /\ \A r \in Run : RunWorking(r)'

LEMMA ShapeFrom == Handlers /\ Surroundings => Shape'
  BY DEF Handlers, Surroundings, RowsGrow, Shape, Typed

\* What each saving or inserting step does to the rows.
RowsStep(p, step) ==
  \/ rows' = rows /\ step # "insert" /\ (step \in Savings => step = "saveFailed")
  \/ step = "insert" /\ \E row \in Row : /\ row.status = "creating" /\ (p \in Run => row.commit = p)
                                        /\ rows' = Append(rows, row)
  \/ /\ step \in Savings \cup {"comment"} /\ mine[p].id \in DOMAIN rows
     /\ rows' = [rows EXCEPT ![mine[p].id] = Saved(p, step)]

LEMMA AppendFacts ==
  ASSUME NEW S, NEW s \in Seq(S), NEW e \in S
  PROVE  /\ Append(s, e) \in Seq(S) /\ Len(Append(s, e)) = Len(s) + 1
         /\ \A i \in 1..Len(s) : Append(s, e)[i] = s[i]
         /\ Append(s, e)[Len(s) + 1] = e
         /\ Append(s, e) # << >>
  OBVIOUS

LEMMA RowsStepGrows ==
  ASSUME Shape, NEW p \in Process, NEW step, Does(p, step), RowsStep(p, step)
  PROVE  RowsGrow /\ (step = "insert" => rows' # << >>)
<1>0. Typed /\ Working(p) /\ rows \in Seq(Row)
  BY DEF Shape, Typed
<1>1. Saved(p, step) \in Row
  BY <1>0, DoesFacts, SavedFacts
<1> QED
  BY <1>0, <1>1, AppendFacts DEF RowsStep, RowsGrow, Savings

\* What a handler's step does beyond its own variables.
Effects(p, step) ==
  /\ RowsStep(p, step)
  /\ open' = open /\ due' = due
  /\ torn' \in BOOLEAN
  /\ torn' => torn \/ (/\ step = "saveInactive" /\ op[p] = "closed" /\ ~open
                       /\ {"deletion", "again"} \cap happened = {} /\ Len(rows) = 1)
  /\ env' = env \/ (step = "dropEnvironment" /\ env' = FALSE)
  /\ step = "dropEnvironment" => ~env'
  /\ \/ /\ namespace' = namespace /\ step # "makeNamespace"
        /\ step = "dropNamespace" => op[p] = "deleteEnvironment"
     \/ step = "makeNamespace" /\ namespace' = TRUE
     \/ step = "dropNamespace" /\ namespace' \in BOOLEAN /\ (namespace' => namespace)
        /\ (op[p] # "deleteEnvironment" => ~namespace')
  /\ happened \subseteq happened' /\ happened' \subseteq happened \cup {"failure"}
  /\ \A r \in Run : \/ stage'[r] = stage[r]
                    \/ stage[r] = "none" /\ stage'[r] = "queued"
                    \/ stage[r] = "queued" /\ stage'[r] = "ended"
  /\ stage' \in [Run -> {"none", "queued", "get", "apply", "ended"} \cup InApply]

LEMMA HandlerStepFacts ==
  ASSUME Shape, NEW p \in Process, HandlerStep(p)
  PROVE  \E step \in Step : Does(p, step) /\ Effects(p, step)
<1>0. /\ Typed /\ Working(p) /\ rows \in Seq(Row) /\ namespace \in BOOLEAN /\ torn \in BOOLEAN
      /\ stage \in [Run -> {"none", "queued", "get", "apply", "ended"} \cup InApply]
  BY DEF Shape, Typed
<1>1. ASSUME NEW step, Does(p, step)
      PROVE  /\ Head(plan[p]) = step /\ Rest(op[p], plan[p])
             /\ step \in Savings \cup {"comment"} => mine[p].id \in DOMAIN rows
  <2>1. Head(plan[p]) = step /\ plan[p] # << >>
    BY <1>0, <1>1, DoesFacts
  <2> QED
    BY <1>0, <2>1, WorkingFacts DEF Rest
<1>2. CASE Insert(p)
  <2> DEFINE row == [status |-> "creating", commit |-> IF p \in Run THEN p ELSE NoRun]
  <2>1. /\ row \in Row /\ row.status = "creating" /\ (p \in Run => row.commit = p)
        /\ rows' = Append(rows, row)
    BY <1>2 DEF Insert, Row, Status, Commit
  <2> HIDE DEF row
  <2>2. RowsStep(p, "insert") /\ rows' # << >>
    BY <1>0, <2>1, AppendFacts DEF RowsStep
  <2> QED
    BY <1>0, <1>2, <2>2 DEF Insert, Effects, github, Step
<1>3. CASE MakeNamespace(p)
  <2>1. Effects(p, "makeNamespace")
    BY <1>0, <1>3 DEF MakeNamespace, Effects, RowsStep, github, Savings
  <2> QED
    BY <1>3, <2>1 DEF MakeNamespace, Step
<1>4. CASE DropNamespace(p)
  <2>1. Effects(p, "dropNamespace")
    BY <1>0, <1>4 DEF DropNamespace, Effects, RowsStep, github, Savings
  <2> QED
    BY <1>4, <2>1 DEF DropNamespace, Step
<1>5. CASE Dispatch(p)
  <2>1. Effects(p, "dispatch")
    BY <1>0, <1>5 DEF Dispatch, Effects, RowsStep, github, rowsAndCluster, Savings, Queued
  <2> QED
    BY <1>5, <2>1 DEF Dispatch, Step
<1>6. CASE Cancel(p)
  <2>1. Effects(p, "cancel")
    BY <1>0, <1>6 DEF Cancel, Effects, RowsStep, github, rowsAndCluster, Savings, Queued
  <2> QED
    BY <1>6, <2>1 DEF Cancel, Step
<1>7. CASE Comment(p)
  <2>1. RowsStep(p, "comment")
    BY <1>1, <1>7 DEF Comment, RowsStep, Savings
  <2>2. Effects(p, "comment")
    BY <1>0, <1>7, <2>1 DEF Comment, Effects, github
  <2> QED
    BY <1>7, <2>2 DEF Comment, Step
<1>8. CASE DropEnvironment(p)
  <2>1. Effects(p, "dropEnvironment")
    BY <1>0, <1>8 DEF DropEnvironment, Effects, RowsStep, github, Savings
  <2> QED
    BY <1>8, <2>1 DEF DropEnvironment, Step
<1>9. CASE Passes(p)
  <2>1. PICK step \in {"dropNamespace", "cancel", "saveFailed"} :
          /\ Does(p, step) /\ (step = "dropNamespace" => op[p] = "deleteEnvironment")
          /\ step = "saveFailed" => op[p] = "errors"
    BY <1>9 DEF Passes
  <2>2. RowsStep(p, step)
    BY <1>9, <2>1 DEF Passes, RowsStep, Savings, rowsAndCluster
  <2>3. Effects(p, step)
    BY <1>0, <1>9, <2>1, <2>2 DEF Passes, Fails, Effects, github, rowsAndCluster
  <2> QED
    BY <2>1, <2>3 DEF Step, Savings
<1>10. ASSUME NEW step \in Savings, Save(p, step)
       PROVE  Does(p, step) /\ Effects(p, step)
  <2>1. RowsStep(p, step)
    BY <1>1, <1>10 DEF Save, RowsStep
  <2>2. /\ torn' \in BOOLEAN
        /\ torn' => torn \/ (/\ step = "saveInactive" /\ op[p] = "closed" /\ ~open
                             /\ {"deletion", "again"} \cap happened = {} /\ Len(rows) = 1)
    <3>1. op[p] = "closed" => step = "saveInactive"
      BY <1>1, <1>10 DEF Save, Rest, Deleters
    <3> QED
      BY <1>0, <1>10, <3>1 DEF Save
  <2> QED
    BY <1>0, <1>10, <2>1, <2>2 DEF Save, Effects, Savings
<1> QED
  BY <1>2, <1>3, <1>4, <1>5, <1>6, <1>7, <1>8, <1>9, <1>10 DEF HandlerStep, Step

\* What the end of a handler does beyond its own variables.
LEMMA HandlerEndsFacts ==
  ASSUME Shape, NEW p \in Process, HandlerEnds(p)
  PROVE  /\ Over(p) /\ UNCHANGED <<github, rowsAndCluster>>
         /\ happened \subseteq happened' /\ happened' \subseteq happened \cup {"failure"}
         /\ stage' \in [Run -> {"none", "queued", "get", "apply", "ended"} \cup InApply]
         /\ \A r \in Run : stage'[r] = stage[r] \/ (r = p /\ stage'[r] \in {"status", "ended"})
         /\ p \in Run /\ stage'[p] \in {"apply", "finalize"} => op[p] = "finalize" /\ plan[p] # << >>
         /\ p \in InFlight \cup InProgress
<1>0. stage \in [Run -> {"none", "queued", "get", "apply", "ended"} \cup InApply]
  BY DEF Shape, Typed
<1>1. CASE CallFails(p)
  BY <1>0, <1>1, RunAssumption DEF CallFails, Fails, InFlight
<1>2. CASE RunFails(p)
  BY <1>0, <1>2 DEF RunFails, Fails, AfterError, InApply, InProgress
<1>3. CASE Stops(p)
  <2>1. p \in Run => op[p] # "delete"
    BY <1>3 DEF Stops, Shape, Working, RunOps
  <2> QED
    BY <1>0, <1>3, <2>1 DEF Stops, InApply, InFlight, InProgress, Process
<1> QED
  BY <1>1, <1>2, <1>3 DEF HandlerEnds

\* The row of a handler of a run, once it is at work.
LEMMA RunHasRow ==
  ASSUME Shape, NEW r \in Run, plan[r] # << >>, NEW step, Does(r, step), RowsStep(r, step)
  PROVE  rows' # << >>
<1>0. Typed /\ Working(r) /\ r \in Process /\ rows \in Seq(Row)
  BY DEF Shape, Typed, Process
<1>1. /\ op[r] \in Savers \cup Deleters => mine[r].id \in DOMAIN rows
      /\ Rest(op[r], plan[r]) /\ Head(plan[r]) = step
  BY <1>0, DoesFacts, WorkingFacts
<1>2. RowsGrow /\ (step = "insert" => rows' # << >>)
  BY <1>0, RowsStepGrows
<1>3. op[r] \in RunOps
  BY <1>0 DEF Working
<1>4. CASE op[r] = "create"
  BY <1>0, <1>1, <1>2, <1>4 DEF Rest, Making, Working, MakesNamespace, RowsGrow
<1>5. CASE op[r] # "create"
  BY <1>0, <1>1, <1>2, <1>3, <1>5 DEF RunOps, Savers, RowsGrow
<1> QED
  BY <1>4, <1>5

LEMMA ElsewhereFacts ==
  ASSUME Shape, Elsewhere
  PROVE  /\ UNCHANGED <<plan, mine, rows, env, namespace, stage, happened>>
         /\ op' \in [Process -> {"none", "ended"} \cup DOMAIN Plan]
         /\ \A p \in Process : op'[p] = op[p] \/ plan[p] = << >>
         /\ open' \in BOOLEAN /\ due' \subseteq {"opened", "closed"}
         /\ torn' \in BOOLEAN /\ (torn' => torn) /\ (torn' /\ ~open => ~open')
<1>0. Typed /\ op \in [Process -> {"none", "ended"} \cup DOMAIN Plan]
  BY DEF Shape, Typed
<1>1. CASE Close
  BY <1>0, <1>1 DEF Close, rowsAndCluster, processes, Typed
<1>2. CASE Reopen
  BY <1>0, <1>2 DEF Reopen, rowsAndCluster, processes, Typed
<1>3. ASSUME NEW c \in Call, NEW e \in Events, Webhook(c, e) /\ ~Concerns(e)
      PROVE  /\ UNCHANGED <<plan, mine, rows, env, namespace, stage, happened, open, torn>>
             /\ op' \in [Process -> {"none", "ended"} \cup DOMAIN Plan] /\ due' \subseteq due
             /\ \A p \in Process : op'[p] = op[p] \/ plan[p] = << >>
  <2>1. /\ op' = [op EXCEPT ![c] = "ended"] /\ op[c] = "none" /\ due' = due \ {e}
        /\ UNCHANGED <<open, torn, rowsAndCluster, plan, mine, stage, happened>>
    BY <1>3 DEF Webhook, Begins
  <2>2. plan[c] = << >>
    <3>1. Working(c) /\ "none" \notin RunOps \cup CallOps
      BY DEF Shape, Process, RunOps, CallOps, Operations, Events, Requests
    <3> QED
      BY <2>1, <3>1 DEF Working
  <2> QED
    BY <1>0, <2>1, <2>2 DEF rowsAndCluster
<1> QED
  BY <1>0, <1>1, <1>2, <1>3 DEF Elsewhere, Typed

LEMMA KeepsShape ==
  ASSUME Shape, Next
  PROVE  Shape'
<1>0. /\ Typed /\ rows \in Seq(Row) /\ open \in BOOLEAN /\ env \in BOOLEAN /\ namespace \in BOOLEAN
      /\ torn \in BOOLEAN /\ due \subseteq {"opened", "closed"}
      /\ happened \subseteq {"creation", "deletion", "save", "other", "again", "late", "failure"}
      /\ stage \in [Run -> {"none", "queued", "get", "apply", "ended"} \cup InApply]
      /\ Run \subseteq Process /\ Call \subseteq Process /\ Call \cap Run = {}
      /\ \A r \in Run : RunWorking(r)
      /\ UNCHANGED rows => RowsGrow
  BY RunAssumption DEF Shape, Typed, Process, RowsGrow
<1>1. CASE Elsewhere
  <2>1. Handlers
    BY <1>1, ElsewhereFacts, FrozenShape
  <2>2. Surroundings
    BY <1>0, <1>1, ElsewhereFacts DEF Surroundings, RunWorking
  <2> QED
    BY <2>1, <2>2, ShapeFrom
<1>2. ASSUME NEW c \in Call, Admission(c)
      PROVE  Shape'
  <2>1. PICK o \in Operations, i \in 0..Len(rows) : Admitted(c, o, i)
    BY <1>2 DEF Admission
  <2>2. /\ Starts(c, o, i, Plan[o]) /\ UNCHANGED <<open, torn, env, rows, namespace, stage>>
        /\ due' \subseteq due /\ (o \in Savers \cup Deleters => i # 0) /\ Notes(o)
    BY <2>1 DEF Admitted, Admit, rowsAndCluster
  <2>3. o \in IF c \in Run THEN RunOps ELSE CallOps
    BY <1>0 DEF CallOps
  <2>4. Handlers
    BY <1>0, <2>2, <2>3, StartsShape
  <2>5. happened' \subseteq {"creation", "deletion", "save", "other", "again", "late", "failure"}
    BY <1>0, <2>2 DEF Notes, KindOf
  <2>6. \A r \in Run : plan'[r] = plan[r]
    <3>1. OthersStay(c)
      BY <1>0, <2>2, SameOps, StartsFacts
    <3> QED
      BY <1>0, <3>1 DEF OthersStay
  <2>7. Surroundings
    BY <1>0, <2>2, <2>5, <2>6 DEF Surroundings, RunWorking
  <2> QED
    BY <2>4, <2>7, ShapeFrom
<1>3. ASSUME NEW r \in Run, StartRun(r)
      PROVE  Shape'
  <2>1. /\ UNCHANGED <<open, due, torn, env, rows, namespace, op, plan, mine>>
        /\ stage' = [stage EXCEPT ![r] = "get"] /\ Notes("run")
    BY <1>3 DEF StartRun, github, rowsAndCluster
  <2>2. Handlers
    BY <1>0, <2>1, FrozenShape DEF Typed
  <2>3. happened' \subseteq {"creation", "deletion", "save", "other", "again", "late", "failure"}
    BY <1>0, <2>1 DEF Notes, KindOf
  <2>4. Surroundings
    BY <1>0, <2>1, <2>3 DEF Surroundings, RunWorking
  <2> QED
    BY <2>2, <2>4, ShapeFrom
<1>4. ASSUME NEW r \in Run, RunCall(r)
      PROVE  Shape'
  <2>1. PICK o \in RunOps :
          /\ Starts(r, o, IF o = "create" THEN 0 ELSE Latest, Plan[o])
          /\ o # "create" => rows # << >>
          /\ stage' = [stage EXCEPT ![r] = IF o \in {"create", "update"} THEN "apply" ELSE "ended"]
          /\ UNCHANGED <<open, due, torn, env, rows, namespace, happened>>
    BY <1>4 DEF RunCall, github, rowsAndCluster
  <2> DEFINE i == IF o = "create" THEN 0 ELSE Latest
  <2>2. i \in 0..Len(rows) /\ (o # "create" => i # 0) /\ Starts(r, o, i, Plan[o])
    BY <1>0, <2>1 DEF Latest
  <2> HIDE DEF i
  <2>3. Handlers
    BY <1>0, <2>1, <2>2, StartsShape DEF Savers, Deleters
  <2>4. OthersStay(r) /\ plan'[r] # << >>
    BY <1>0, <2>2, SameOps, StartsFacts
  <2>5. \A s \in Run : RunWorking(s)'
    BY <1>0, <2>1, <2>4 DEF OthersStay, RunWorking
  <2>6. Surroundings
    BY <1>0, <2>1, <2>5 DEF Surroundings, InApply
  <2> QED
    BY <2>3, <2>6, ShapeFrom
<1>5. ASSUME NEW r \in Run, RunGoesOn(r)
      PROVE  Shape'
  <2>1. PICK next \in {"create", "update", "finalize", "errors", "status", "ended"} :
          /\ stage' = [stage EXCEPT ![r] = next] /\ (next \in {"update", "finalize", "errors"} => rows # << >>)
          /\ UNCHANGED <<open, due, torn, env, rows, namespace, op, plan, mine, happened>>
    BY <1>5 DEF RunGoesOn, GoesOn, github, rowsAndCluster
  <2>2. Handlers
    BY <1>0, <2>1, FrozenShape DEF Typed
  <2>3. Surroundings
    BY <1>0, <2>1 DEF Surroundings, RunWorking, InApply
  <2> QED
    BY <2>2, <2>3, ShapeFrom
<1>6. ASSUME NEW p \in Process, HandlerStep(p)
      PROVE  Shape'
  <2>1. PICK step \in Step : Does(p, step) /\ Effects(p, step)
    BY <1>6, HandlerStepFacts
  <2>2. RowsGrow /\ (step = "insert" => rows' # << >>)
    BY <2>1, RowsStepGrows DEF Effects
  <2>3. Handlers
    BY <2>1, <2>2, DoesShape
  <2>4. OthersStay(p) /\ plan[p] # << >>
    BY <1>0, <2>1, DoesFacts DEF Shape
  <2>5. p \in Run => rows' # << >>
    BY <2>1, <2>4, RunHasRow DEF Effects
  <2>6. \A r \in Run : RunWorking(r)'
    <3>1. SUFFICES ASSUME NEW r \in Run PROVE RunWorking(r)'
      OBVIOUS
    <3>2. rows # << >> => rows' # << >>
      BY <1>0, <2>2 DEF RowsGrow
    <3>3. \/ stage'[r] = stage[r]
          \/ stage[r] = "none" /\ stage'[r] = "queued"
          \/ stage[r] = "queued" /\ stage'[r] = "ended"
      BY <2>1 DEF Effects
    <3> QED
      BY <1>0, <2>4, <2>5, <3>2, <3>3 DEF OthersStay, RunWorking
  <2>7. Surroundings
    BY <1>0, <2>1, <2>2, <2>6 DEF Effects, Surroundings
  <2> QED
    BY <2>3, <2>7, ShapeFrom
<1>7. ASSUME NEW p \in Process, HandlerEnds(p)
      PROVE  Shape'
  <2>1. /\ Over(p) /\ UNCHANGED <<open, due, torn, env, rows, namespace>>
        /\ happened' \subseteq happened \cup {"failure"}
        /\ stage' \in [Run -> {"none", "queued", "get", "apply", "ended"} \cup InApply]
        /\ \A r \in Run : stage'[r] = stage[r] \/ (r = p /\ stage'[r] \in {"status", "ended"})
        /\ p \in Run /\ stage'[p] = "apply" => op[p] # "create"
    BY <1>7, HandlerEndsFacts DEF github, rowsAndCluster
  <2>2. Handlers
    BY <1>0, <2>1, OverShape
  <2>3. OthersStay(p) /\ plan'[p] = << >>
    BY <1>0, <2>1, OverFacts
  <2>4. \A r \in Run : RunWorking(r)'
    <3>1. ASSUME NEW r \in Run, r = p, plan[r] # << >>
          PROVE  stage'[r] = "apply" => rows # << >>
      <4>1. op[r] # "create" => rows # << >>
        <5>1. op[r] \in RunOps /\ (op[r] \in Savers \cup Deleters => mine[r].id \in DOMAIN rows)
          BY <1>0, <3>1, WorkingFacts DEF Shape, Working
        <5> QED
          BY <1>0, <5>1 DEF RunOps, Savers
      <4> QED
        BY <2>1, <3>1, <4>1
    <3> QED
      BY <1>0, <2>1, <2>3, <3>1 DEF OthersStay, RunWorking
  <2>5. Surroundings
    BY <1>0, <2>1, <2>4 DEF Surroundings
  <2> QED
    BY <2>2, <2>5, ShapeFrom
<1> QED
  BY <1>1, <1>2, <1>3, <1>4, <1>5, <1>6, <1>7, StepKinds

-----------------------------------------------------------------------------
(* Who is under way.                                                       *)

\* A step that is nobody's beginning.
Calm ==
  /\ \A c \in Call : plan'[c] # << >> => plan[c] # << >> /\ op'[c] = op[c]
  /\ InProgress' \subseteq InProgress
  /\ happened \subseteq happened'

LEMMA CalmKeeps ==
  ASSUME OneRun, Alone, Calm
  PROVE  OneRun' /\ Alone'
<1>1. OneRun'
  BY DEF OneRun, Calm
<1>2. ASSUME NEW c \in InFlight', KindOf(op'[c]) \notin happened'
      PROVE  InFlight' = {c} /\ InProgress' = {}
  <2>1. c \in InFlight /\ InFlight' \subseteq InFlight /\ op'[c] = op[c] /\ KindOf(op[c]) \notin happened
    BY <1>2 DEF Calm, InFlight
  <2>2. InFlight = {c} /\ InProgress = {}
    BY <2>1 DEF Alone
  <2> QED
    BY <1>2, <2>1, <2>2 DEF Calm
<1>3. \A c : KindOf(op[c])' = KindOf(op'[c])
  BY DEF KindOf
<1> QED
  BY <1>1, <1>2, <1>3 DEF Alone

\* What begins notes its kind and those of all under way, unless nothing is.
LEMMA NotesFacts ==
  ASSUME NEW what, Notes(what)
  PROVE  /\ happened \subseteq happened'
         /\ \/ InFlight = {} /\ InProgress = {}
            \/ KindOf(what) \in happened' /\ \A c \in InFlight : KindOf(op[c]) \in happened'
         /\ what \in {"opened", "enable"} /\ rows # << >> => "again" \in happened'
         /\ what = "run" /\ rows # << >> /\ rows[Latest].status = "inactive" => "late" \in happened'
<1> DEFINE others == {KindOf(op[c]) : c \in InFlight} \cup (IF InProgress = {} THEN {} ELSE {"other"})
<1>1. others = {} => InFlight = {} /\ InProgress = {}
  OBVIOUS
<1>2. \A c \in InFlight : KindOf(op[c]) \in others
  OBVIOUS
<1>3. happened' = happened \cup (IF others = {} THEN {} ELSE {KindOf(what)} \cup others)
        \cup (IF what \in {"opened", "enable"} /\ rows # << >> THEN {"again"} ELSE {})
        \cup (IF what = "run" /\ rows # << >> /\ rows[Latest].status = "inactive" THEN {"late"} ELSE {})
  BY DEF Notes
<1> HIDE DEF others
<1> QED
  BY <1>1, <1>2, <1>3

\* The steps that begin nothing.
Others ==
  \/ Elsewhere
  \/ \E r \in Run : RunCall(r) \/ RunGoesOn(r)
  \/ \E p \in Process : HandlerStep(p) \/ HandlerEnds(p)

LEMMA OthersCalm ==
  ASSUME Shape, Others
  PROVE  Calm
<1>0. Call \subseteq Process /\ Run \subseteq Process /\ Call \cap Run = {} /\ Typed
  BY RunAssumption DEF Process, Shape
<1>1. CASE Elsewhere
  BY <1>0, <1>1, ElsewhereFacts DEF Calm, InProgress
<1>2. ASSUME NEW r \in Run, RunCall(r)
      PROVE  Calm
  <2>1. PICK o \in RunOps :
          /\ Starts(r, o, IF o = "create" THEN 0 ELSE Latest, Plan[o])
          /\ o # "create" => rows # << >>
          /\ stage[r] \in InApply
          /\ stage' = [stage EXCEPT ![r] = IF o \in {"create", "update"} THEN "apply" ELSE "ended"]
          /\ UNCHANGED <<rows, happened>>
    BY <1>2 DEF RunCall, github, rowsAndCluster
  <2>2. OthersStay(r)
    BY <1>0, <2>1, SameOps DEF Starts, OthersStay, Typed
  <2>3. stage \in [Run -> {"none", "queued", "get", "apply", "ended"} \cup InApply]
    BY <1>0 DEF Typed
  <2> QED
    BY <1>0, <2>1, <2>2, <2>3 DEF Calm, InProgress, OthersStay, InApply
<1>3. ASSUME NEW r \in Run, RunGoesOn(r)
      PROVE  Calm
  <2>1. PICK next \in {"create", "update", "finalize", "errors", "status", "ended"} :
          /\ stage' = [stage EXCEPT ![r] = next] /\ UNCHANGED <<op, plan, happened>>
          /\ r \in InProgress
    BY <1>3 DEF RunGoesOn, GoesOn
  <2>2. stage \in [Run -> {"none", "queued", "get", "apply", "ended"} \cup InApply]
    BY <1>0 DEF Typed
  <2> QED
    BY <2>1, <2>2 DEF Calm, InProgress
<1>4. ASSUME NEW p \in Process, HandlerStep(p)
      PROVE  Calm
  <2>1. PICK step \in Step : Does(p, step) /\ Effects(p, step)
    BY <1>4, HandlerStepFacts
  <2>2. /\ OthersStay(p) /\ plan[p] # << >>
        /\ plan'[p] = << >> \/ op'[p] = op[p]
    BY <1>0, <2>1, DoesFacts DEF Shape
  <2>3. \A r \in Run : \/ stage'[r] = stage[r]
                       \/ stage[r] = "none" /\ stage'[r] = "queued"
                       \/ stage[r] = "queued" /\ stage'[r] = "ended"
    BY <2>1 DEF Effects
  <2>4. InProgress' \subseteq InProgress
    BY <1>0, <2>2, <2>3 DEF InProgress, OthersStay
  <2> QED
    BY <1>0, <2>1, <2>2, <2>4 DEF Calm, OthersStay, Effects
<1>5. ASSUME NEW p \in Process, HandlerEnds(p)
      PROVE  Calm
  <2>1. /\ Over(p) /\ happened \subseteq happened' /\ p \in InFlight \cup InProgress
        /\ \A r \in Run : stage'[r] = stage[r] \/ (r = p /\ stage'[r] \in {"status", "ended"})
    BY <1>5, HandlerEndsFacts
  <2>2. OthersStay(p) /\ plan'[p] = << >>
    BY <1>0, <2>1, OverFacts
  <2>3. InProgress' \subseteq InProgress
    BY <1>0, <2>1, <2>2 DEF InProgress, InFlight, OthersStay
  <2> QED
    BY <1>0, <2>1, <2>2, <2>3 DEF Calm, OthersStay
<1> QED
  BY <1>1, <1>2, <1>3, <1>4, <1>5 DEF Others

LEMMA KeepsAlone ==
  ASSUME Shape, OneRun, Alone, Next
  PROVE  OneRun' /\ Alone' /\ happened \subseteq happened'
<1>0. Call \subseteq Process /\ Run \subseteq Process /\ Call \cap Run = {} /\ Typed
  BY RunAssumption DEF Process, Shape
<1>1. CASE Others
  BY <1>1, OthersCalm, CalmKeeps DEF Calm
<1>2. ASSUME NEW c \in Call, Admission(c)
      PROVE  OneRun' /\ Alone' /\ happened \subseteq happened'
  <2>1. PICK o \in Operations, i \in 0..Len(rows) : Admitted(c, o, i)
    BY <1>2 DEF Admission
  <2>2. Starts(c, o, i, Plan[o]) /\ Notes(o) /\ UNCHANGED stage
    BY <2>1 DEF Admitted, Admit
  <2>3. OthersStay(c) /\ op'[c] = o
    BY <1>0, <2>2, SameOps, StartsFacts
  <2>4. InProgress' = InProgress /\ InFlight' \subseteq InFlight \cup {c}
    BY <1>0, <2>2, <2>3 DEF InProgress, InFlight, OthersStay
  <2>5. OneRun'
    BY <2>4 DEF OneRun
  <2>6. ASSUME NEW d \in InFlight', KindOf(op'[d]) \notin happened'
        PROVE  InFlight' = {d} /\ InProgress' = {}
    <3>1. CASE InFlight = {} /\ InProgress = {}
      BY <2>4, <2>6, <3>1
    <3>2. CASE d = c
      <4>1. InFlight = {} /\ InProgress = {}
        BY <2>2, <2>3, <2>6, <3>2, NotesFacts
      <4> QED
        BY <3>1, <4>1
    <3>3. CASE d # c
      <4>1. d \in InFlight /\ op'[d] = op[d]
        BY <1>0, <2>3, <2>4, <2>6, <3>3 DEF OthersStay, InFlight
      <4>2. InFlight = {} /\ InProgress = {}
        BY <2>2, <2>6, <4>1, NotesFacts
      <4> QED
        BY <3>1, <4>2
    <3> QED
      BY <3>2, <3>3
  <2>7. \A d : KindOf(op[d])' = KindOf(op'[d])
    BY DEF KindOf
  <2> QED
    BY <2>2, <2>5, <2>6, <2>7, NotesFacts DEF Alone
<1>3. ASSUME NEW r \in Run, StartRun(r)
      PROVE  OneRun' /\ Alone' /\ happened \subseteq happened'
  <2>1. /\ InProgress = {} /\ stage' = [stage EXCEPT ![r] = "get"] /\ Notes("run")
        /\ UNCHANGED <<op, plan>>
    BY <1>3 DEF StartRun
  <2>2. InProgress' \subseteq {r} /\ InFlight' = InFlight
    BY <1>0, <2>1 DEF InProgress, InFlight, Typed
  <2>3. OneRun'
    BY <2>2 DEF OneRun
  <2>4. Alone'
    <3>1. \A c \in InFlight : KindOf(op[c]) \in happened'
      BY <2>1, NotesFacts
    <3>2. \A d : KindOf(op[d])' = KindOf(op[d])
      BY <2>1 DEF KindOf
    <3> QED
      BY <2>2, <3>1, <3>2 DEF Alone
  <2> QED
    BY <2>1, <2>3, <2>4, NotesFacts
<1> QED
  BY <1>1, <1>2, <1>3, StepKinds DEF Others

-----------------------------------------------------------------------------
(* What does not change, except where a handler does a step.               *)

\* The steps but those of handlers: the rows and the namespace stay, and whoever begins, with
\* the row as it is, is not about to make a namespace or to save a row as inactive.
Quietly ==
  /\ UNCHANGED <<rows, namespace, env>> /\ happened \subseteq happened'
  /\ \A p \in Process :
       plan'[p] # << >> =>
         \/ plan[p] # << >> /\ plan'[p] = plan[p] /\ op'[p] = op[p] /\ mine'[p] = mine[p]
         \/ /\ Head(plan'[p]) \notin {"makeNamespace", "saveInactive"}
            /\ op'[p] \in Savers => mine'[p].id # 0 /\ mine'[p].status = rows[mine'[p].id].status

LEMMA StartsQuietly ==
  ASSUME Shape, NEW p \in Process, NEW o \in IF p \in Run THEN RunOps ELSE CallOps,
         NEW i \in 0..Len(rows), o \in Savers => i # 0, Starts(p, o, i, Plan[o]),
         UNCHANGED <<rows, namespace, env>>, happened \subseteq happened'
  PROVE  Quietly
<1>1. o \in DOMAIN Plan /\ Typed
  BY SameOps DEF CallOps, Shape
<1>2. Head(Plan[o]) \notin {"makeNamespace", "saveInactive"}
  <2>1. o \in {"opened", "enable", "reenable", "trigger", "synchronize", "edited", "closed", "delete",
               "deleteEnvironment", "create", "update", "finalize", "errors", "status"}
    BY <1>1 DEF Plan
  <2>2. \A a \in Step, b \in Step, c \in Step :
          Head(<<a>>) = a /\ Head(<<a, b>>) = a /\ Head(<<a, b, c>>) = a
    BY TupleFacts
  <2> QED
    BY <2>1, <2>2 DEF Plan, Step, Savings
<1> QED
  BY <1>1, <1>2, StartsFacts DEF Quietly, OthersStay

LEMMA QuietSteps ==
  ASSUME Shape, Next
  PROVE  \/ Quietly
         \/ \E p \in Process, step \in Step : Does(p, step) /\ Effects(p, step)
<1>0. Call \subseteq Process /\ Run \subseteq Process /\ Call \cap Run = {} /\ Typed
  BY RunAssumption DEF Process, Shape
<1>1. CASE Elsewhere
  BY <1>1, ElsewhereFacts DEF Quietly
<1>2. ASSUME NEW c \in Call, Admission(c)
      PROVE  Quietly
  <2>1. PICK o \in Operations, i \in 0..Len(rows) : Admitted(c, o, i)
    BY <1>2 DEF Admission
  <2>2. /\ Starts(c, o, i, Plan[o]) /\ UNCHANGED <<env, rows, namespace>>
        /\ (o \in Savers \cup Deleters => i # 0) /\ happened \subseteq happened'
    BY <2>1, NotesFacts DEF Admitted, Admit, rowsAndCluster
  <2>3. o \in IF c \in Run THEN RunOps ELSE CallOps
    BY <1>0 DEF CallOps
  <2> QED
    BY <1>0, <2>2, <2>3, StartsQuietly
<1>3. ASSUME NEW r \in Run, StartRun(r)
      PROVE  Quietly
  BY <1>3, NotesFacts DEF StartRun, rowsAndCluster, Quietly
<1>4. ASSUME NEW r \in Run, RunCall(r)
      PROVE  Quietly
  <2>1. PICK o \in RunOps :
          /\ Starts(r, o, IF o = "create" THEN 0 ELSE Latest, Plan[o])
          /\ o # "create" => rows # << >>
          /\ UNCHANGED <<env, rows, namespace, happened>>
    BY <1>4 DEF RunCall, rowsAndCluster
  <2> DEFINE i == IF o = "create" THEN 0 ELSE Latest
  <2>2. i \in 0..Len(rows) /\ (o # "create" => i # 0) /\ Starts(r, o, i, Plan[o])
    BY <1>0, <2>1 DEF Latest, Typed
  <2> HIDE DEF i
  <2> QED
    BY <1>0, <2>1, <2>2, StartsQuietly DEF Savers
<1>5. ASSUME NEW r \in Run, RunGoesOn(r)
      PROVE  Quietly
  BY <1>5 DEF RunGoesOn, GoesOn, rowsAndCluster, Quietly
<1>6. ASSUME NEW p \in Process, HandlerEnds(p)
      PROVE  Quietly
  <2>1. Over(p) /\ UNCHANGED <<env, rows, namespace>> /\ happened \subseteq happened'
    BY <1>6, HandlerEndsFacts DEF rowsAndCluster
  <2>2. OthersStay(p) /\ plan'[p] = << >>
    BY <1>0, <2>1, OverFacts
  <2> QED
    BY <2>1, <2>2 DEF Quietly, OthersStay
<1> QED
  BY <1>1, <1>2, <1>3, <1>4, <1>5, <1>6, HandlerStepFacts, StepKinds

\* What a step of a handler makes of its own variables, with what its plan says of the step.
LEMMA StepFacts ==
  ASSUME Shape, NEW p \in Process, NEW step \in Step, Does(p, step), Effects(p, step)
  PROVE  /\ OthersStay(p) /\ plan[p] # << >> /\ Head(plan[p]) = step
         /\ step = "saveInactive" => plan'[p] = << >> /\ Saved(p, step).status = "inactive"
         /\ step = "saveInactive" <=> step \in Savings \cup {"comment"} /\ op[p] \in Deleters
         /\ step \in Making => op[p] \in Makers
         /\ step \in Savings \cup {"comment"} =>
              op[p] \in Savers \cup Deleters /\ mine[p].id \in DOMAIN rows
         /\ Saved(p, step) \in Row
         /\ Saved(p, step).status = "inactive" /\ step # "saveInactive" => mine[p].status = "inactive"
         /\ step = "saveCreating" => Saved(p, step).status = "creating"
         /\ plan'[p] # << >> =>
              /\ op'[p] = op[p] /\ mine'[p].id = mine[p].id /\ mine'[p].status = Saved(p, step).status
              /\ Head(plan'[p]) = "makeNamespace" => step \in {"insert", "saveCreating"}
              /\ Head(plan'[p]) = "saveInactive" => step = "dropNamespace" /\ op[p] \in Deleters
<1>0. Typed /\ Working(p)
  BY DEF Shape
<1>1. plan[p] # << >> /\ Head(plan[p]) = step /\ OthersStay(p)
  BY <1>0, DoesFacts
<1>2. Rest(op[p], plan[p]) /\ (op[p] \in Savers \cup Deleters => mine[p].id \in DOMAIN rows)
  BY <1>0, <1>1, WorkingFacts
<1>3. Saved(p, step) \in Row /\ (step = "saveInactive" => Saved(p, step).status = "inactive")
      /\ (Saved(p, step).status = "inactive" /\ step # "saveInactive" => mine[p].status = "inactive")
      /\ (step = "saveCreating" => Saved(p, step).status = "creating")
  BY <1>0, <1>1, SavedFacts
<1>4. plan'[p] # << >> =>
        /\ op'[p] = op[p] /\ mine'[p].id = mine[p].id /\ mine'[p].status = Saved(p, step).status
        /\ plan'[p] = Tail(plan[p]) /\ Len(plan[p]) # 1 /\ plan'[p] \in Left[op[p]]
  BY <1>0, DoesFacts
<1>5. op[p] \in DOMAIN Left
  BY <1>0, <1>1, WorkingFacts, SameOps
<1>6. plan'[p] # << >> => Rest(op[p], plan'[p])
  BY <1>4, <1>5, PlanFacts
<1>7. plan'[p] # << >> =>
        /\ Head(plan'[p]) = "makeNamespace" => step \in {"insert", "saveCreating"}
        /\ Head(plan'[p]) = "saveInactive" => step = "dropNamespace" /\ op[p] \in Deleters
  <2>1. SUFFICES ASSUME plan'[p] # << >>
                 PROVE  /\ Head(plan'[p]) = "makeNamespace" => step \in {"insert", "saveCreating"}
                        /\ Head(plan'[p]) = "saveInactive" => step = "dropNamespace" /\ op[p] \in Deleters
    OBVIOUS
  <2>2. plan'[p] = Tail(plan[p]) /\ Len(plan[p]) # 1
    BY <1>4, <2>1
  <2>3. Head(plan'[p]) = "saveInactive" => op[p] \in Deleters
    BY <1>6, <2>1 DEF Rest
  <2> QED
    BY <1>1, <1>2, <2>2, <2>3 DEF Rest
<1>8. step = "saveInactive" => plan'[p] = << >>
  BY <1>1, <1>2, <1>4 DEF Rest
<1>9. /\ step = "saveInactive" <=> step \in Savings \cup {"comment"} /\ op[p] \in Deleters
      /\ step \in Making => op[p] \in Makers
      /\ step \in Savings \cup {"comment"} => op[p] \in Savers \cup Deleters
  BY <1>1, <1>2 DEF Rest
<1> QED
  BY <1>1, <1>2, <1>3, <1>4, <1>7, <1>8, <1>9

\* The kind of a call that saves or deletes.
LEMMA Kinds ==
  ASSUME Shape, NEW p \in Process, plan[p] # << >>, op[p] \in Savers \cup Deleters
  PROVE  /\ op[p] \in Deleters => p \in Call /\ KindOf(op[p]) = "deletion"
         /\ op[p] \in Savers /\ p \in Call => KindOf(op[p]) = "save"
<1>1. op[p] \in (IF p \in Run THEN RunOps ELSE CallOps)
  BY DEF Shape, Working
<1> QED
  BY <1>1, RunAssumption DEF RunOps, CallOps, Operations, Events, Requests, Savers, Deleters, KindOf, Process

\* Who is alone is the only one at work.
LEMMA OnlyOne ==
  ASSUME Alone, NEW c \in Call, plan[c] # << >>, KindOf(op[c]) \notin happened
  PROVE  \A q \in Process : plan[q] # << >> => q = c
  BY DEF Alone, InFlight, InProgress, Process

-----------------------------------------------------------------------------
(* The namespace and its row.                                              *)

LEMMA KeepsDropped ==
  ASSUME Shape, Alone, Dropped, Next
  PROVE  Dropped'
<1>0. Call \subseteq Process
  BY DEF Process
<1>1. CASE Quietly
  BY <1>0, <1>1 DEF Quietly, Dropped, SavesInactive
<1>2. ASSUME NEW p \in Process, NEW step \in Step, Does(p, step), Effects(p, step)
      PROVE  Dropped'
  <2>1. SUFFICES ASSUME "deletion" \notin happened', NEW c \in Call, SavesInactive(c)'
                 PROVE  ~namespace'
    BY DEF Dropped
  <2>2. "deletion" \notin happened /\ plan'[c] # << >> /\ Head(plan'[c]) = "saveInactive"
    BY <1>2, <2>1 DEF Effects, SavesInactive
  <2>3. CASE c = p
    <3>1. step = "dropNamespace" /\ op[p] \in Deleters
      BY <1>2, <2>2, <2>3, StepFacts
    <3> QED
      BY <1>2, <3>1 DEF Effects, Deleters
  <2>4. CASE c # p
    <3>1. plan[c] # << >> /\ SavesInactive(c) /\ plan[p] # << >>
      BY <1>0, <1>2, <2>2, <2>4, StepFacts DEF OthersStay, SavesInactive
    <3>2. op[c] \in Deleters
      BY <1>0, <3>1, WorkingFacts DEF Shape, SavesInactive, Rest
    <3>3. KindOf(op[c]) = "deletion"
      BY <1>0, <3>1, <3>2, Kinds
    <3> QED
      BY <2>2, <2>4, <3>1, <3>3, OnlyOne
  <2> QED
    BY <2>3, <2>4
<1> QED
  BY <1>1, <1>2, QuietSteps

OwnedNow ==
  /\ namespace => Active # {}
  /\ \A p \in Process : MakesNamespace(p) => Active # {}
  /\ \A p \in Process : plan[p] # << >> /\ op[p] \in Savers /\ mine[p].status = "inactive" =>
       rows[mine[p].id].status = "inactive"

\* A step that leaves the rows, or adds one.
LEMMA OwnedWhenKept ==
  ASSUME Shape, OwnedNow, NEW p \in Process, NEW step \in Step, Does(p, step), Effects(p, step),
         \/ rows' = rows /\ step # "insert" /\ (step \in Savings => step = "saveFailed")
         \/ step = "insert" /\ \E row \in Row : row.status = "creating" /\ rows' = Append(rows, row)
  PROVE  OwnedNow'
<1>0. rows \in Seq(Row) /\ Typed
  BY DEF Shape, Typed
<1>1. /\ \A i \in DOMAIN rows : i \in DOMAIN rows' /\ rows'[i] = rows[i]
      /\ step = "insert" => Active' # {}
  <2>1. CASE rows' = rows /\ step # "insert"
    BY <2>1
  <2>2. ASSUME NEW row \in Row, row.status = "creating", rows' = Append(rows, row)
        PROVE  /\ \A i \in DOMAIN rows : i \in DOMAIN rows' /\ rows'[i] = rows[i]
               /\ Active' # {}
    BY <1>0, <2>2, AppendFacts DEF Active
  <2> QED
    BY <2>1, <2>2
<1>2. Active # {} => Active' # {}
  BY <1>1 DEF Active
<1>3. namespace' => namespace \/ MakesNamespace(p)
  BY StepFacts DEF Effects, MakesNamespace
<1>4. \A q \in Process : MakesNamespace(q)' => Active' # {}
  BY <1>1, <1>2, StepFacts DEF OwnedNow, MakesNamespace, OthersStay, Savings
<1>5. ASSUME NEW q \in Process, plan'[q] # << >>, op'[q] \in Savers, mine'[q].status = "inactive"
      PROVE  rows'[mine'[q].id].status = "inactive"
  <2>1. /\ plan[q] # << >> /\ op'[q] = op[q] /\ mine'[q].id = mine[q].id
        /\ mine[q].status = "inactive"
    BY <1>5, StepFacts DEF OthersStay, Savers, Deleters
  <2>2. mine[q].id \in DOMAIN rows /\ rows[mine[q].id].status = "inactive"
    BY <1>0, <1>5, <2>1, WorkingFacts DEF OwnedNow, Shape
  <2> QED
    BY <1>1, <2>1, <2>2
<1> QED
  BY <1>2, <1>3, <1>4, <1>5 DEF OwnedNow

\* A step that saves the row of a handler.
LEMMA OwnedWhenSaved ==
  ASSUME Shape, OneRun, Alone, Dropped, OwnedNow, {"deletion", "save"} \cap happened = {},
         NEW p \in Process, NEW step \in Step, Does(p, step), Effects(p, step),
         step \in Savings \cup {"comment"}, rows' = [rows EXCEPT ![mine[p].id] = Saved(p, step)]
  PROVE  OwnedNow'
<1>0. rows \in Seq(Row) /\ Typed /\ plan[p] # << >>
  BY StepFacts DEF Shape, Typed
<1>1. /\ mine[p].id \in DOMAIN rows /\ Saved(p, step) \in Row
      /\ op[p] \in Savers \cup Deleters
  BY StepFacts
<1>2. rows'[mine[p].id] = Saved(p, step) /\ DOMAIN rows' = DOMAIN rows
      /\ \A i \in DOMAIN rows \ {mine[p].id} : rows'[i] = rows[i]
  BY <1>0, <1>1
<1>3. step \notin Making /\ step # "dropNamespace"
  BY DEF Savings, Making
<1>4. namespace' = namespace
  BY <1>3 DEF Effects, Making
<1>5. CASE step = "saveInactive"
  <2>1. op[p] \in Deleters /\ p \in Call /\ KindOf(op[p]) = "deletion"
    BY <1>0, <1>5, StepFacts, Kinds
  <2>2. ~namespace
    BY <1>0, <1>5, <2>1, StepFacts DEF Dropped, SavesInactive
  <2>3. \A q \in Process : plan[q] # << >> => q = p
    BY <1>0, <2>1, OnlyOne
  <2>4. \A q \in Process : plan'[q] = << >>
    BY <1>5, <2>3, StepFacts DEF OthersStay
  <2> QED
    BY <1>4, <2>2, <2>4 DEF OwnedNow, MakesNamespace
<1>6. CASE step # "saveInactive"
  <2>1. op[p] \in Savers
    BY <1>1, <1>6, StepFacts
  <2>2. Saved(p, step).status = "inactive" => rows[mine[p].id].status = "inactive"
    BY <1>0, <1>6, <2>1, StepFacts DEF OwnedNow
  <2>3. Active \subseteq Active'
    BY <1>1, <1>2, <2>2 DEF Active
  <2>4. \A q \in Process : MakesNamespace(q)' => Active' # {}
    <3>1. ASSUME NEW q \in Process \ {p}, MakesNamespace(q)'
          PROVE  Active' # {}
      BY <2>3, <3>1, StepFacts DEF OwnedNow, MakesNamespace, OthersStay
    <3>2. ASSUME MakesNamespace(p)'
          PROVE  Active' # {}
      <4>1. Saved(p, step).status = "creating"
        BY <1>3, <3>2, StepFacts DEF MakesNamespace, Making
      <4> QED
        BY <1>1, <1>2, <4>1 DEF Active
    <3> QED
      BY <3>1, <3>2
  <2>5. ASSUME NEW q \in Process, plan'[q] # << >>, op'[q] \in Savers, mine'[q].status = "inactive"
        PROVE  rows'[mine'[q].id].status = "inactive"
    <3>1. CASE q = p
      BY <1>2, <2>5, <3>1, StepFacts
    <3>2. CASE q # p
      <4>1. plan[q] # << >> /\ op[q] \in Savers
        BY <2>5, <3>2, StepFacts DEF OthersStay
      <4>2. CASE p \in Run /\ q \in Run
        BY <1>0, <3>2, <4>1, <4>2 DEF OneRun, InProgress
      <4>3. CASE p \in Call
        BY <1>0, <2>1, <3>2, <4>1, <4>3, Kinds, OnlyOne
      <4>4. CASE q \in Call
        BY <1>0, <3>2, <4>1, <4>4, Kinds, OnlyOne
      <4> QED
        BY <4>2, <4>3, <4>4 DEF Process
    <3> QED
      BY <3>1, <3>2
  <2> QED
    BY <1>4, <2>3, <2>4, <2>5 DEF OwnedNow
<1> QED
  BY <1>5, <1>6

LEMMA KeepsOwned ==
  ASSUME Shape, OneRun, Alone, Dropped, Owned, Next
  PROVE  Owned'
<1>0. Typed /\ Owned' = (env' /\ {"deletion", "save"} \cap happened' = {} => OwnedNow')
  BY DEF Owned, OwnedNow, Shape
<1>1. CASE Quietly
  <2>1. env' /\ {"deletion", "save"} \cap happened' = {} => env /\ {"deletion", "save"} \cap happened = {}
    BY <1>1 DEF Quietly
  <2>2. OwnedNow => OwnedNow'
    BY <1>1 DEF Quietly, OwnedNow, MakesNamespace, Active
  <2> QED
    BY <1>0, <2>1, <2>2 DEF Owned, OwnedNow
<1>2. ASSUME NEW p \in Process, NEW step \in Step, Does(p, step), Effects(p, step)
      PROVE  Owned'
  <2>1. SUFFICES ASSUME env', {"deletion", "save"} \cap happened' = {}
                 PROVE  OwnedNow'
    BY <1>0
  <2>2. env /\ {"deletion", "save"} \cap happened = {}
    BY <1>2, <2>1 DEF Effects
  <2>3. OwnedNow
    BY <2>2 DEF Owned, OwnedNow
  <2> QED
    BY <1>2, <2>2, <2>3, OwnedWhenKept, OwnedWhenSaved DEF Effects, RowsStep
<1> QED
  BY <1>1, <1>2, QuietSteps

-----------------------------------------------------------------------------
(* The pull request that was closed.                                       *)

TornNow ==
  /\ ~open /\ ~namespace /\ Len(rows) = 1 /\ rows[1].status = "inactive"
  /\ \A p \in Process : plan[p] # << >> => op[p] \in {"delete", "deleteEnvironment"}
  /\ \A r \in Run : stage[r] \notin {"apply", "finalize", "errors"}

\* Whoever closes a pull request undisturbed leaves it torn down.
LEMMA ClosedTearsDown ==
  ASSUME Shape, Alone, Dropped, NEW p \in Process, NEW step \in Step, Does(p, step), Effects(p, step),
         step = "saveInactive", op[p] = "closed", ~open, {"deletion", "again"} \cap happened = {},
         Len(rows) = 1
  PROVE  TornNow'
<1>0. rows \in Seq(Row) /\ Typed /\ plan[p] # << >> /\ plan'[p] = << >> /\ Run \subseteq Process
  BY StepFacts DEF Shape, Typed, Process
<1>1. p \in Call /\ KindOf(op[p]) = "deletion"
  BY <1>0, Kinds DEF Deleters
<1>2. InFlight = {p} /\ InProgress = {}
  BY <1>0, <1>1 DEF Alone, InFlight
<1>3. \A q \in Process : plan'[q] = << >>
  BY <1>0, <1>1, OnlyOne, StepFacts DEF OthersStay
<1>4. ~open' /\ ~namespace'
  <2>1. ~namespace
    BY <1>0, <1>1, StepFacts DEF Dropped, SavesInactive
  <2> QED
    BY <2>1 DEF Effects
<1>5. Len(rows') = 1 /\ rows'[1].status = "inactive"
  <2>1. rows' = [rows EXCEPT ![mine[p].id] = Saved(p, step)]
    BY DEF Effects, RowsStep, Savings
  <2>2. mine[p].id \in DOMAIN rows /\ Saved(p, step) \in Row /\ Saved(p, step).status = "inactive"
    BY StepFacts DEF Savings
  <2> QED
    BY <1>0, <2>1, <2>2
<1>6. \A r \in Run : stage'[r] \notin {"apply", "finalize", "errors"}
  <2>1. \A r \in Run : stage[r] \notin {"apply", "finalize", "errors"}
    BY <1>2 DEF InProgress
  <2> QED
    BY <2>1 DEF Effects
<1> QED
  BY <1>3, <1>4, <1>5, <1>6 DEF TornNow

\* The steps of the deletions that may still come.
LEMMA TornStep ==
  ASSUME Shape, TornNow, NEW p \in Process, NEW step \in Step, Does(p, step), Effects(p, step)
  PROVE  TornNow'
<1>0. rows \in Seq(Row) /\ Typed /\ plan[p] # << >> /\ OthersStay(p)
  BY StepFacts DEF Shape, Typed
<1>1. op[p] \in {"delete", "deleteEnvironment"}
  BY <1>0 DEF TornNow
<1>2. step \notin Making /\ (step \in Savings \cup {"comment"} => step = "saveInactive")
  BY <1>1, StepFacts DEF Makers, Savers, Deleters
<1>3. ~open' /\ ~namespace'
  BY <1>2 DEF TornNow, Effects, Making
<1>4. Len(rows') = 1 /\ rows'[1].status = "inactive"
  <2>1. CASE rows' = rows
    BY <2>1 DEF TornNow
  <2>2. CASE rows' # rows
    <3>1. /\ step = "saveInactive" /\ rows' = [rows EXCEPT ![mine[p].id] = Saved(p, step)]
          /\ mine[p].id \in DOMAIN rows
      BY <1>2, <2>2 DEF Effects, RowsStep, Making
    <3>2. Saved(p, step) \in Row /\ Saved(p, step).status = "inactive"
      BY <3>1, StepFacts
    <3> QED
      BY <1>0, <3>1, <3>2 DEF TornNow
  <2> QED
    BY <2>1, <2>2
<1>5. \A q \in Process : plan'[q] # << >> => op'[q] \in {"delete", "deleteEnvironment"}
  BY <1>0, <1>1, StepFacts DEF TornNow, OthersStay
<1>6. \A r \in Run : stage'[r] \notin {"apply", "finalize", "errors"}
  BY DEF TornNow, Effects
<1> QED
  BY <1>3, <1>4, <1>5, <1>6 DEF TornNow

LEMMA KeepsTornDown ==
  ASSUME Shape, OneRun, Alone, Dropped, TornDown, Next
  PROVE  TornDown'
<1>0. /\ Call \subseteq Process /\ Run \subseteq Process /\ Call \cap Run = {} /\ Typed
      /\ rows \in Seq(Row) /\ happened \subseteq happened'
      /\ TornDown' = (torn' /\ "again" \notin happened' => TornNow')
      /\ stage \in [Run -> {"none", "queued", "get", "apply", "ended"} \cup InApply]
  BY RunAssumption, KeepsAlone DEF Process, Shape, Typed, TornDown, TornNow
<1> SUFFICES ASSUME torn', "again" \notin happened'
             PROVE  TornNow'
  BY <1>0
<1>1. torn => TornNow
  BY <1>0 DEF TornDown, TornNow
<1>2. CASE Elsewhere
  BY <1>1, <1>2, ElsewhereFacts DEF TornNow
<1>3. ASSUME NEW c \in Call, Admission(c)
      PROVE  TornNow'
  <2>1. PICK o \in Operations, i \in 0..Len(rows) : Admitted(c, o, i)
    BY <1>3 DEF Admission
  <2>2. /\ Starts(c, o, i, Plan[o]) /\ Notes(o) /\ UNCHANGED <<open, torn, env, rows, namespace, stage>>
    BY <2>1 DEF Admitted, Admit, rowsAndCluster
  <2>3. TornNow
    BY <1>1, <2>2
  <2>4. o \in {"delete", "deleteEnvironment"}
    <3>1. o \notin {"opened", "enable"}
      <4>1. rows # << >>
        BY <2>3 DEF TornNow
      <4> QED
        BY <2>2, <4>1, NotesFacts
    <3>2. o \notin {"enable", "reenable", "trigger", "synchronize", "edited", "closed"}
      BY <2>1, <2>3 DEF Admitted, TornNow
    <3> QED
      BY <3>1, <3>2 DEF Operations, Events, Requests
  <2>5. OthersStay(c) /\ op'[c] = o
    BY <1>0, <2>2, SameOps, StartsFacts
  <2> QED
    BY <2>2, <2>3, <2>4, <2>5 DEF TornNow, OthersStay
<1>4. ASSUME NEW r \in Run, StartRun(r)
      PROVE  TornNow'
  BY <1>0, <1>1, <1>4 DEF StartRun, github, rowsAndCluster, TornNow
<1>5. ASSUME NEW r \in Run, RunCall(r)
      PROVE  TornNow'
  <2>1. torn /\ (stage[r] # "finalize" => open)
    BY <1>5 DEF RunCall, github
  <2> QED
    BY <1>1, <2>1 DEF TornNow
<1>6. ASSUME NEW r \in Run, RunGoesOn(r)
      PROVE  TornNow'
  <2>1. PICK next \in {"create", "update", "finalize", "errors", "status", "ended"} :
          /\ stage' = [stage EXCEPT ![r] = next] /\ (next \in {"finalize", "errors"} => stage[r] = "apply")
          /\ UNCHANGED <<open, torn, rows, namespace, op, plan>>
    BY <1>6 DEF RunGoesOn, GoesOn, github, rowsAndCluster
  <2> QED
    BY <1>0, <1>1, <2>1 DEF TornNow
<1>7. ASSUME NEW p \in Process, HandlerStep(p)
      PROVE  TornNow'
  <2>1. PICK step \in Step : Does(p, step) /\ Effects(p, step)
    BY <1>7, HandlerStepFacts
  <2> QED
    BY <1>1, <2>1, TornStep, ClosedTearsDown DEF Effects
<1>8. ASSUME NEW p \in Process, HandlerEnds(p)
      PROVE  TornNow'
  <2>1. /\ Over(p) /\ UNCHANGED <<open, torn, rows, namespace>>
        /\ \A r \in Run : stage'[r] = stage[r] \/ (r = p /\ stage'[r] \in {"status", "ended"})
    BY <1>8, HandlerEndsFacts DEF github, rowsAndCluster
  <2>2. OthersStay(p) /\ plan'[p] = << >>
    BY <1>0, <2>1, OverFacts
  <2> QED
    BY <1>1, <2>1, <2>2 DEF TornNow, OthersStay
<1> QED
  BY <1>2, <1>3, <1>4, <1>5, <1>6, <1>7, <1>8, StepKinds

-----------------------------------------------------------------------------
(* The commit of a run.                                                    *)

\* What the plans of the runs are made of, and what becomes of the commit.
LEMMA RunSteps ==
  ASSUME Shape, NEW r \in Run, NEW step, Does(r, step)
  PROVE  /\ op[r] \in RunOps /\ plan[r] # << >> /\ Head(plan[r]) = step
         /\ op[r] = "create" => step \in Making
         /\ op[r] = "create" /\ step = "insert" => plan'[r] # << >> /\ Head(plan'[r]) = "makeNamespace"
         /\ op[r] = "create" /\ step = "makeNamespace" => plan'[r] = << >>
         /\ op[r] = "update" => step = "saveCommit" /\ plan'[r] = << >> /\ Saved(r, step).commit = r
         /\ op[r] = "finalize" => step # "saveCommit"
         /\ plan'[r] # << >> =>
              op'[r] = op[r] /\ (step # "saveCommit" => mine'[r].commit = mine[r].commit)
<1>0. Typed /\ Working(r) /\ r \in Process
  BY DEF Shape, Process
<1>1. /\ plan[r] # << >> /\ Head(plan[r]) = step
      /\ plan'[r] # << >> => plan'[r] = Tail(plan[r]) /\ Len(plan[r]) # 1 /\ op'[r] = op[r]
  BY <1>0, DoesFacts
<1>2. op[r] \in RunOps /\ plan[r] \in Left[op[r]] /\ Rest(op[r], plan[r])
  BY <1>0, <1>1, WorkingFacts DEF Working
<1>3. /\ Len(plan[r]) = 1 => plan'[r] = << >>
      /\ Len(plan[r]) # 1 => plan' = [plan EXCEPT ![r] = Tail(plan[r])]
                            /\ mine' = [mine EXCEPT ![r].status = Saved(r, step).status,
                                                   ![r].commit = Saved(r, step).commit]
  BY <1>0 DEF Does, Over, Typed
<1>4. CASE op[r] = "create"
  <2>1. plan[r] \in {<<"insert", "makeNamespace">>, <<"makeNamespace">>}
    BY <1>2, <1>4 DEF Left
  <2>2. /\ <<"makeNamespace">> # << >> /\ Head(<<"makeNamespace">>) = "makeNamespace"
        /\ Len(<<"makeNamespace">>) = 1
    BY TupleFacts DEF Step
  <2>3. /\ Head(<<"insert", "makeNamespace">>) = "insert" /\ Len(<<"insert", "makeNamespace">>) = 2
        /\ Tail(<<"insert", "makeNamespace">>) = <<"makeNamespace">>
    BY TupleFacts DEF Step
  <2>4. \/ Head(plan[r]) = "insert" /\ Len(plan[r]) = 2 /\ Tail(plan[r]) = <<"makeNamespace">>
        \/ Head(plan[r]) = "makeNamespace" /\ Len(plan[r]) = 1
    BY <2>1, <2>2, <2>3
  <2>5. plan \in [Process -> Seq(Step)]
    BY <1>0 DEF Typed
  <2>6. step # "saveCommit"
    BY <1>1, <2>4
  <2>7. plan'[r] # << >> => mine'[r].commit = mine[r].commit
    BY <1>0, <1>1, <1>3, <2>6 DEF Saved, Typed
  <2> QED
    <3>1. CASE Head(plan[r]) = "insert"
      <4>1. Len(plan[r]) # 1 /\ Tail(plan[r]) = <<"makeNamespace">>
        BY <2>4, <3>1
      <4>2. plan' = [plan EXCEPT ![r] = Tail(plan[r])]
        BY <1>3, <4>1
      <4>3. plan'[r] = <<"makeNamespace">>
        BY <1>0, <2>5, <4>1, <4>2
      <4> QED
        BY <1>1, <1>2, <1>4, <2>2, <2>7, <3>1, <4>3 DEF Making
    <3>2. CASE Head(plan[r]) = "makeNamespace"
      BY <1>1, <1>2, <1>3, <1>4, <2>4, <2>7, <3>2 DEF Making
    <3> QED
      BY <2>4, <3>1, <3>2
<1>5. CASE op[r] = "update"
  <2>1. plan[r] = <<"saveCommit">>
    BY <1>2, <1>5 DEF Left
  <2>2. Head(plan[r]) = "saveCommit" /\ Len(plan[r]) = 1
    BY <2>1, TupleFacts DEF Step, Savings
  <2>3. Saved(r, "saveCommit").commit = r
    BY DEF Saved
  <2> QED
    BY <1>1, <1>2, <1>3, <1>5, <2>2, <2>3
<1>6. CASE op[r] \notin {"create", "update"}
  <2>1. step # "saveCommit"
    BY <1>1, <1>2, <1>6 DEF Rest
  <2>2. plan'[r] # << >> => mine'[r].commit = mine[r].commit
    BY <1>0, <1>1, <1>3, <2>1 DEF Saved, Typed
  <2> QED
    BY <1>1, <1>2, <1>6, <2>1, <2>2
<1> QED
  BY <1>4, <1>5, <1>6

\* Whatever is under way beside a run, undisturbed, leaves the rows alone.
LEMMA BesideARun ==
  ASSUME Shape, OneRun, Alone, {"creation", "deletion", "save"} \cap happened = {},
         NEW r \in InProgress, NEW p \in Process, p # r, NEW step \in Step, Does(p, step), Effects(p, step)
  PROVE  rows' = rows
<1>1. plan[p] # << >> /\ Head(plan[p]) = step
  BY StepFacts
<1>2. p \in Call
  BY <1>1 DEF OneRun, InProgress, Process
<1>3. KindOf(op[p]) \in happened
  BY <1>1, <1>2 DEF Alone, InFlight
<1>4. op[p] \in CallOps
  BY <1>1, <1>2, RunAssumption DEF Shape, Working
<1>5. op[p] \in {"synchronize"}
  BY <1>3, <1>4 DEF KindOf, CallOps, Operations, Events, Requests
<1>6. step \notin Making /\ step \notin Savings \cup {"comment"}
  BY <1>5, StepFacts DEF Makers, Savers, Deleters
<1> QED
  BY <1>6 DEF Effects, RowsStep, Making

\* The step of a run's own handler.
LEMMA OwnStepCommits ==
  ASSUME Shape, NEW r \in Run, RunCommitted(r), NEW step \in Step, Does(r, step), Effects(r, step)
  PROVE  RunCommitted(r)'
<1>0. Typed /\ r \in Process /\ rows \in Seq(Row) /\ plan[r] # << >> /\ Working(r)
  BY RunSteps DEF Shape, Typed, Process
<1>1. stage'[r] = stage[r]
  BY <1>0 DEF Effects, Shape, RunWorking
<1>2. CASE op[r] = "create"
  <2>1. CASE step = "insert"
    <3>1. PICK row \in Row : row.commit = r /\ rows' = Append(rows, row)
      BY <2>1 DEF Effects, RowsStep, Savings
    <3>2. rows' # << >> /\ rows'[Len(rows')].commit = r
      BY <1>0, <3>1, AppendFacts
    <3> QED
      BY <1>2, <2>1, <3>2, RunSteps DEF RunCommitted, Latest
  <2>2. CASE step = "makeNamespace"
    <3>1. rows # << >> /\ rows[Latest].commit = r
      BY <1>0, <1>2, <2>2, RunSteps DEF RunCommitted
    <3>2. rows' = rows
      BY <2>2 DEF Effects, RowsStep, Savings
    <3> QED
      BY <1>2, <2>2, <3>1, <3>2, RunSteps DEF RunCommitted, Latest
  <2> QED
    BY <1>2, <2>1, <2>2, RunSteps DEF Making
<1>3. CASE op[r] = "update"
  <2>1. step = "saveCommit" /\ plan'[r] = << >> /\ Saved(r, step).commit = r
    BY <1>3, RunSteps
  <2>2. rows' = [rows EXCEPT ![mine[r].id] = Saved(r, step)]
    BY <2>1 DEF Effects, RowsStep, Savings
  <2>3. mine[r].id = Latest /\ Latest \in DOMAIN rows
    BY <1>0, <1>3, WorkingFacts DEF RunCommitted, Savers
  <2>4. rows' # << >> /\ rows'[Len(rows')].commit = r
    BY <1>0, <2>1, <2>2, <2>3 DEF Latest
  <2> QED
    BY <2>1, <2>4 DEF RunCommitted, Latest
<1>4. CASE op[r] \notin {"create", "update"}
  <2>1. stage'[r] = "ended"
    BY <1>0, <1>1, <1>4 DEF RunCommitted
  <2>2. plan'[r] # << >> /\ op[r] = "finalize" => mine'[r].commit = r
    BY <1>0, RunSteps DEF RunCommitted
  <2>3. plan'[r] # << >> => op'[r] = op[r]
    BY RunSteps
  <2> QED
    BY <1>4, <2>1, <2>2, <2>3 DEF RunCommitted
<1> QED
  BY <1>2, <1>3, <1>4

\* What leaves a run and the rows as they are.
LEMMA StillCommitted ==
  ASSUME NEW r \in Run, RunCommitted(r), UNCHANGED rows, plan'[r] = plan[r], op'[r] = op[r],
         mine'[r] = mine[r],
         \/ stage'[r] = stage[r]
         \/ stage'[r] \notin {"apply", "finalize"} /\ plan[r] = << >>
  PROVE  RunCommitted(r)'
  BY DEF RunCommitted, Latest

LEMMA KeepsCommitted ==
  ASSUME Shape, OneRun, Alone, Committed, Next
  PROVE  Committed'
<1>0. /\ Call \subseteq Process /\ Run \subseteq Process /\ Call \cap Run = {} /\ Typed
      /\ rows \in Seq(Row) /\ happened \subseteq happened'
      /\ stage \in [Run -> {"none", "queued", "get", "apply", "ended"} \cup InApply]
  BY RunAssumption, KeepsAlone DEF Process, Shape, Typed
<1> SUFFICES ASSUME {"creation", "deletion", "save"} \cap happened' = {}, NEW r \in Run
             PROVE  RunCommitted(r)'
  BY DEF Committed
<1>1. {"creation", "deletion", "save"} \cap happened = {} /\ RunCommitted(r)
  BY <1>0 DEF Committed
<1>2. CASE Elsewhere
  <2>1. /\ UNCHANGED <<rows, plan, mine, stage>>
        /\ op'[r] = op[r] \/ plan[r] = << >>
    BY <1>0, <1>2, ElsewhereFacts
  <2> QED
    BY <1>1, <2>1 DEF RunCommitted, Latest
<1>3. ASSUME NEW c \in Call, Admission(c)
      PROVE  RunCommitted(r)'
  <2>1. PICK o \in Operations, i \in 0..Len(rows) : Admitted(c, o, i)
    BY <1>3 DEF Admission
  <2>2. Starts(c, o, i, Plan[o]) /\ UNCHANGED <<rows, stage>>
    BY <2>1 DEF Admitted, Admit, rowsAndCluster
  <2>3. OthersStay(c)
    BY <1>0, <2>2, SameOps, StartsFacts
  <2> QED
    BY <1>0, <1>1, <2>2, <2>3, StillCommitted DEF OthersStay
<1>4. ASSUME NEW s \in Run, StartRun(s)
      PROVE  RunCommitted(r)'
  <2>1. /\ stage' = [stage EXCEPT ![s] = "get"] /\ UNCHANGED <<rows, op, plan, mine>>
        /\ stage[s] = "queued"
    BY <1>4 DEF StartRun, rowsAndCluster
  <2>2. plan[s] = << >>
    BY <2>1 DEF Shape, RunWorking
  <2> QED
    BY <1>0, <1>1, <2>1, <2>2, StillCommitted
<1>5. ASSUME NEW s \in Run, RunCall(s)
      PROVE  RunCommitted(r)'
  <2>1. PICK o \in RunOps :
          /\ Starts(s, o, IF o = "create" THEN 0 ELSE Latest, Plan[o])
          /\ (o # "create" => rows # << >>) /\ (o = "finalize" => stage[s] = "finalize")
          /\ stage' = [stage EXCEPT ![s] = IF o \in {"create", "update"} THEN "apply" ELSE "ended"]
          /\ UNCHANGED rows /\ plan[s] = << >>
    BY <1>5 DEF RunCall, rowsAndCluster
  <2> DEFINE i == IF o = "create" THEN 0 ELSE Latest
  <2>2. i \in 0..Len(rows) /\ (o # "create" => i = Latest /\ i # 0) /\ Starts(s, o, i, Plan[o])
    BY <1>0, <2>1 DEF Latest
  <2> HIDE DEF i
  <2>3. OthersStay(s) /\ op'[s] = o /\ plan'[s] # << >> /\ plan'[s] = Plan[o] /\ mine'[s].id = i
    BY <1>0, <2>2, SameOps, StartsFacts
  <2>4. CASE r = s
    <3>1. o = "create" => Head(plan'[s]) = "insert"
      BY <2>3, TupleFacts DEF Plan, Step
    <3>2. o = "finalize" => mine'[s].commit = s
      <4>1. ASSUME o = "finalize" PROVE rows[Latest].commit = s /\ mine' = [mine EXCEPT ![s] = ReadRow(Latest)]
        BY <1>1, <2>1, <2>2, <2>4, <4>1 DEF RunCommitted, Starts
      <4> QED
        BY <1>0, <4>1 DEF ReadRow, Typed
    <3>3. o \notin {"create", "update"} => stage'[s] = "ended"
      BY <1>0, <2>1
    <3> QED
      BY <2>1, <2>2, <2>3, <2>4, <3>1, <3>2, <3>3 DEF RunCommitted, Latest
  <2>5. CASE r # s
    BY <1>0, <1>1, <2>1, <2>3, <2>5, StillCommitted DEF OthersStay
  <2> QED
    BY <2>4, <2>5
<1>6. ASSUME NEW s \in Run, RunGoesOn(s)
      PROVE  RunCommitted(r)'
  <2>1. PICK next \in {"create", "update", "finalize", "errors", "status", "ended"} :
          /\ stage' = [stage EXCEPT ![s] = next] /\ (next \in {"finalize", "errors"} => stage[s] = "apply")
          /\ UNCHANGED <<rows, op, plan, mine>> /\ plan[s] = << >>
    BY <1>6 DEF RunGoesOn, GoesOn, rowsAndCluster
  <2> QED
    BY <1>0, <1>1, <2>1 DEF RunCommitted, Latest
<1>7. ASSUME NEW p \in Process, HandlerStep(p)
      PROVE  RunCommitted(r)'
  <2>1. PICK step \in Step : Does(p, step) /\ Effects(p, step)
    BY <1>7, HandlerStepFacts
  <2>2. CASE p = r
    BY <1>1, <2>1, <2>2, OwnStepCommits
  <2>3. CASE p # r
    <3>1. OthersStay(p)
      BY <2>1, StepFacts
    <3>2. /\ plan'[r] = plan[r] /\ op'[r] = op[r] /\ mine'[r] = mine[r]
      BY <1>0, <2>3, <3>1 DEF OthersStay
    <3>3. CASE r \in InProgress
      <4>1. rows' = rows
        BY <1>1, <2>1, <2>3, <3>3, BesideARun
      <4>2. stage'[r] = stage[r]
        BY <2>1, <3>3 DEF Effects, InProgress, Shape, RunWorking
      <4> QED
        BY <1>1, <3>2, <4>1, <4>2, StillCommitted
    <3>4. CASE r \notin InProgress
      <4>1. plan[r] = << >> /\ stage'[r] \notin {"apply", "finalize"}
        BY <1>0, <2>1, <3>4 DEF Effects, InProgress
      <4> QED
        BY <3>2, <4>1 DEF RunCommitted
    <3> QED
      BY <3>3, <3>4
  <2> QED
    BY <2>2, <2>3
<1>8. ASSUME NEW p \in Process, HandlerEnds(p)
      PROVE  RunCommitted(r)'
  <2>1. /\ Over(p) /\ UNCHANGED rows
        /\ \A s \in Run : stage'[s] = stage[s] \/ (s = p /\ stage'[s] \in {"status", "ended"})
        /\ p \in Run /\ stage'[p] \in {"apply", "finalize"} => op[p] = "finalize" /\ plan[p] # << >>
    BY <1>8, HandlerEndsFacts DEF rowsAndCluster
  <2>2. OthersStay(p) /\ plan'[p] = << >>
    BY <1>0, <2>1, OverFacts
  <2>3. CASE p = r
    BY <1>1, <2>1, <2>2, <2>3 DEF RunCommitted
  <2>4. CASE p # r
    BY <1>0, <1>1, <2>1, <2>2, <2>4, StillCommitted DEF OthersStay
  <2> QED
    BY <2>3, <2>4
<1> QED
  BY <1>2, <1>3, <1>4, <1>5, <1>6, <1>7, <1>8, StepKinds

-----------------------------------------------------------------------------
(* The rows that are active.                                               *)

LEMMA ReenableSaves ==
  ASSUME Shape, NEW p \in Process, op[p] = "reenable", plan[p] # << >>
  PROVE  Head(plan[p]) \notin (Savings \cup {"comment"}) \ {"saveCreating"}
<1>1. plan[p] \in {<<"saveCreating", "makeNamespace", "dispatch">>, <<"makeNamespace", "dispatch">>, <<"dispatch">>}
  BY DEF Shape, Working, Left
<1>2. /\ Head(<<"saveCreating", "makeNamespace", "dispatch">>) = "saveCreating"
      /\ Head(<<"makeNamespace", "dispatch">>) = "makeNamespace" /\ Head(<<"dispatch">>) = "dispatch"
  BY TupleFacts DEF Step, Savings
<1> QED
  BY <1>1, <1>2 DEF Savings

\* Undisturbed, a row only becomes inactive by deletion, and active by way of "creating".
LEMMA StepKeepsActive ==
  ASSUME Shape, Lively, happened = {}, NEW p \in Process, NEW step \in Step, Does(p, step), Effects(p, step)
  PROVE  \A i \in DOMAIN rows :
           /\ i \in DOMAIN rows'
           /\ step # "saveInactive" /\ rows[i].status # "inactive" => rows'[i].status # "inactive"
           /\ rows[i].status = "inactive" => rows'[i].status \in {"inactive", "creating"}
<1>0. rows \in Seq(Row) /\ plan[p] # << >> /\ Head(plan[p]) = step
  BY StepFacts DEF Shape, Typed
<1>1. CASE rows' = rows
  BY <1>1
<1>2. CASE step = "insert" /\ \E row \in Row : rows' = Append(rows, row)
  BY <1>0, <1>2, AppendFacts
<1>3. CASE /\ step \in Savings \cup {"comment"} /\ mine[p].id \in DOMAIN rows
           /\ rows' = [rows EXCEPT ![mine[p].id] = Saved(p, step)]
  <2>1. /\ Saved(p, step) \in Row /\ DOMAIN rows' = DOMAIN rows /\ rows'[mine[p].id] = Saved(p, step)
        /\ \A i \in DOMAIN rows \ {mine[p].id} : rows'[i] = rows[i]
    BY <1>0, <1>3, StepFacts
  <2>2. CASE step = "saveInactive"
    BY <2>1, <2>2, StepFacts
  <2>3. CASE step # "saveInactive" /\ op[p] = "reenable"
    <3>1. Saved(p, step).status = "creating"
      BY <1>0, <1>3, <2>3, ReenableSaves, StepFacts
    <3> QED
      BY <2>1, <3>1
  <2>4. CASE step # "saveInactive" /\ op[p] # "reenable"
    <3>1. op[p] \in Savers
      BY <1>3, <2>4, StepFacts
    <3>2. mine[p].status # "inactive" /\ rows[mine[p].id].status # "inactive"
      BY <1>0, <2>4, <3>1 DEF Lively
    <3>3. Saved(p, step).status # "inactive"
      BY <2>4, <3>2, StepFacts
    <3> QED
      BY <2>1, <3>2, <3>3
  <2> QED
    BY <2>2, <2>3, <2>4
<1> QED
  BY <1>1, <1>2, <1>3 DEF Effects, RowsStep

LEMMA StepLively ==
  ASSUME Shape, OneRun, Alone, Lively, Calm, happened' = {},
         NEW p \in Process, NEW step \in Step, Does(p, step), Effects(p, step)
  PROVE  Lively'
<1>0. /\ rows \in Seq(Row) /\ plan[p] # << >> /\ Head(plan[p]) = step /\ happened = {}
      /\ Call \cap Run = {} /\ Typed
  BY StepFacts, RunAssumption, ZenonT(40) DEF Shape, Typed, Effects
<1>1. CASE step = "saveInactive"
  <2>1. p \in Call /\ KindOf(op[p]) = "deletion"
    BY <1>0, <1>1, StepFacts, Kinds
  <2>2. InProgress = {}
    BY <1>0, <2>1 DEF Alone, InFlight
  <2>3. \A q \in Process : plan'[q] = << >>
    BY <1>0, <1>1, <2>1, OnlyOne, StepFacts DEF OthersStay
  <2> QED
    BY <2>2, <2>3 DEF Lively, Calm
<1>2. CASE step # "saveInactive"
  <2>1. \A i \in DOMAIN rows : i \in DOMAIN rows' /\ (rows[i].status # "inactive" => rows'[i].status # "inactive")
    BY <1>0, <1>2, StepKeepsActive
  <2>2. ASSUME NEW q \in Process, plan'[q] # << >>, op'[q] \in Savers \ {"reenable"}
        PROVE  mine'[q].status # "inactive" /\ rows'[mine'[q].id].status # "inactive"
    <3>1. plan[q] # << >> /\ op'[q] = op[q] /\ mine'[q].id = mine[q].id
      BY <2>2, StepFacts DEF OthersStay
    <3>2. mine[q].status # "inactive" /\ rows[mine[q].id].status # "inactive" /\ mine[q].id \in DOMAIN rows
      BY <1>0, <2>2, <3>1, WorkingFacts DEF Lively, Shape
    <3>3. mine'[q].status # "inactive"
      BY <1>2, <2>2, <3>2, StepFacts DEF OthersStay
    <3> QED
      BY <2>1, <3>1, <3>2, <3>3
  <2>3. InProgress' # {} /\ rows' # << >> => rows'[Len(rows')].status # "inactive"
    <3>1. SUFFICES ASSUME InProgress' # {}, rows' # << >>
                   PROVE  rows'[Len(rows')].status # "inactive"
      OBVIOUS
    <3>2. InProgress # {}
      BY <3>1 DEF Calm
    <3>3. CASE step = "insert" /\ \E row \in Row : row.status = "creating" /\ rows' = Append(rows, row)
      BY <1>0, <3>3, AppendFacts
    <3>4. CASE Len(rows') = Len(rows)
      <4>1. rows # << >> /\ Len(rows) \in DOMAIN rows
        BY <1>0, <3>1, <3>4, RowsStepGrows DEF Effects, RowsGrow
      <4>2. rows[Len(rows)].status # "inactive"
        BY <1>0, <3>2, <4>1 DEF Lively, Latest
      <4> QED
        BY <2>1, <3>4, <4>1, <4>2
    <3>5. Len(rows') = Len(rows) \/ (step = "insert" /\ \E row \in Row : row.status = "creating" /\ rows' = Append(rows, row))
      BY <1>0 DEF Effects, RowsStep
    <3> QED
      BY <3>3, <3>4, <3>5
  <2> QED
    BY <2>2, <2>3 DEF Lively, Latest
<1> QED
  BY <1>1, <1>2

LEMMA KeepsLively ==
  ASSUME Shape, OneRun, Alone, Lively, Next
  PROVE  Lively'
<1>0. /\ Call \subseteq Process /\ Run \subseteq Process /\ Call \cap Run = {} /\ Typed
      /\ rows \in Seq(Row) /\ happened \subseteq happened'
  BY RunAssumption, KeepsAlone DEF Process, Shape, Typed
<1> SUFFICES ASSUME happened' = {}
             PROVE  Lively'
  BY DEF Lively
<1>1. happened = {}
  BY <1>0
<1>2. CASE Elsewhere
  <2>1. UNCHANGED <<plan, mine, rows>> /\ InProgress' \subseteq InProgress
        /\ \A p \in Process : op'[p] = op[p] \/ plan[p] = << >>
    BY <1>2, ElsewhereFacts, OthersCalm DEF Others, Calm
  <2> QED
    BY <1>1, <2>1 DEF Lively, Latest
<1>3. ASSUME NEW c \in Call, Admission(c)
      PROVE  Lively'
  <2>1. PICK o \in Operations, i \in 0..Len(rows) : Admitted(c, o, i)
    BY <1>3 DEF Admission
  <2>2. Starts(c, o, i, Plan[o]) /\ UNCHANGED <<rows, stage>>
    BY <2>1 DEF Admitted, Admit, rowsAndCluster
  <2>3. OthersStay(c) /\ op'[c] = o /\ mine'[c].id = i /\ (i # 0 => mine'[c].status = rows[i].status)
    BY <1>0, <2>2, SameOps, StartsFacts
  <2>4. InProgress' = InProgress
    BY <1>0, <2>2, <2>3 DEF InProgress, OthersStay
  <2>5. o \in Savers \ {"reenable"} => i # 0 /\ rows[i].status # "inactive"
    BY <2>1 DEF Admitted, Savers, Operations, Events, Requests
  <2> QED
    BY <1>1, <2>2, <2>3, <2>4, <2>5 DEF Lively, Latest, OthersStay
<1>4. ASSUME NEW r \in Run, StartRun(r)
      PROVE  Lively'
  <2>1. UNCHANGED <<op, plan, mine, rows>> /\ Notes("run")
    BY <1>4 DEF StartRun, rowsAndCluster
  <2>2. rows # << >> => rows[Latest].status # "inactive"
    BY <2>1, NotesFacts
  <2> QED
    BY <1>1, <2>1, <2>2 DEF Lively, Latest
<1>5. ASSUME NEW r \in Run, RunCall(r)
      PROVE  Lively'
  <2>1. PICK o \in RunOps :
          /\ Starts(r, o, IF o = "create" THEN 0 ELSE Latest, Plan[o])
          /\ (o # "create" => rows # << >>) /\ stage[r] \in InApply /\ UNCHANGED rows
    BY <1>5 DEF RunCall, rowsAndCluster
  <2> DEFINE i == IF o = "create" THEN 0 ELSE Latest
  <2>2. i \in 0..Len(rows) /\ (o # "create" => i = Latest /\ i # 0) /\ Starts(r, o, i, Plan[o])
    BY <1>0, <2>1 DEF Latest
  <2> HIDE DEF i
  <2>3. OthersStay(r) /\ op'[r] = o /\ mine'[r].id = i /\ (i # 0 => mine'[r].status = rows[i].status)
    BY <1>0, <2>2, SameOps, StartsFacts
  <2>4. r \in InProgress /\ InProgress' \subseteq InProgress
    BY <1>5, <2>1, OthersCalm DEF Others, Calm, InProgress, InApply
  <2>5. o # "create" => rows[i].status # "inactive"
    BY <1>1, <2>1, <2>2, <2>4 DEF Lively
  <2> QED
    BY <1>1, <2>1, <2>2, <2>3, <2>4, <2>5 DEF Lively, Latest, OthersStay, Savers
<1>6. ASSUME NEW r \in Run, RunGoesOn(r)
      PROVE  Lively'
  <2>1. UNCHANGED <<op, plan, mine, rows>> /\ InProgress' \subseteq InProgress
    BY <1>6, OthersCalm DEF Others, Calm, RunGoesOn, GoesOn, rowsAndCluster
  <2> QED
    BY <1>1, <2>1 DEF Lively, Latest
<1>7. ASSUME NEW p \in Process, HandlerStep(p)
      PROVE  Lively'
  BY <1>7, HandlerStepFacts, StepLively, OthersCalm DEF Others
<1>8. ASSUME NEW p \in Process, HandlerEnds(p)
      PROVE  Lively'
  <2>1. Over(p) /\ UNCHANGED rows
    BY <1>8, HandlerEndsFacts DEF rowsAndCluster
  <2>2. OthersStay(p) /\ plan'[p] = << >>
    BY <1>0, <2>1, OverFacts
  <2>3. InProgress' \subseteq InProgress
    BY <1>8, OthersCalm DEF Others, Calm
  <2> QED
    BY <1>1, <2>1, <2>2, <2>3 DEF Lively, Latest, OthersStay
<1> QED
  BY <1>2, <1>3, <1>4, <1>5, <1>6, <1>7, <1>8, StepKinds

-----------------------------------------------------------------------------
(* The row and the namespace, when nothing is under way.                   *)

\* No call has failed or overlapped with a deletion, no run was late, and there is one row at most.
Undisturbed == {"deletion", "late", "failure"} \cap happened = {} /\ Len(rows) <= 1

RowActive == rows # << >> /\ rows[1].status # "inactive"
SavesCreating(p) == Head(plan[p]) = "saveCreating"
Deleting(p) == plan[p] # << >> /\ op[p] \in Deletions

\* A row that is active has its namespace, or whoever is to make it or to delete the row is
\* still under way; a row that is not has none, and nobody to bring it back but a handler that
\* reenables it.
PairedNow ==
  /\ InProgress # {} /\ rows # << >> => RowActive
  /\ \A p \in Process : plan[p] # << >> /\ op[p] \in Savers /\ ~SavesCreating(p) =>
       mine[p].status # "inactive" /\ RowActive
  /\ \A p \in Process : MakesNamespace(p) => RowActive
  /\ namespace => RowActive
  /\ env /\ RowActive /\ ~namespace => \E p \in Process : MakesNamespace(p) \/ Deleting(p)

Paired == Undisturbed => PairedNow

\* The order of the steps: a row is made or reenabled just before its namespace is made, and a
\* namespace is not the last thing that a deletion drops.
LEMMA StepOrder ==
  ASSUME Shape, NEW p \in Process, NEW step \in Step, Does(p, step), Effects(p, step)
  PROVE  /\ step \in {"insert", "saveCreating"} => MakesNamespace(p)'
         /\ step = "dropNamespace" => Deleting(p)'
         /\ Deleting(p) => Deleting(p)' \/ step \in {"saveInactive", "dropEnvironment"}
<1>0. Typed /\ Working(p)
  BY DEF Shape
<1>1. plan[p] # << >> /\ Head(plan[p]) = step
  BY <1>0, DoesFacts
<1>2. Rest(op[p], plan[p])
  BY <1>0, <1>1, WorkingFacts
<1>3. CASE Len(plan[p]) = 1
  BY <1>1, <1>2, <1>3 DEF Rest, Deleting
<1>4. CASE Len(plan[p]) # 1
  <2>1. plan' = [plan EXCEPT ![p] = Tail(plan[p])] /\ op' = op
    BY <1>4 DEF Does
  <2>2. plan'[p] # << >> /\ plan'[p] = Tail(plan[p]) /\ op'[p] = op[p]
    <3>1. plan'[p] = Tail(plan[p])
      BY <1>0, <2>1 DEF Typed
    <3>2. \/ plan'[p] = << >> /\ op'[p] = "ended"
          \/ plan'[p] # << >>
      BY <1>0, DoesFacts
    <3>3. op[p] # "ended"
      BY <1>0, <1>1, WorkingFacts DEF Plan
    <3> QED
      BY <2>1, <3>1, <3>2, <3>3
  <2> QED
    BY <1>1, <1>2, <2>2 DEF Rest, MakesNamespace, Deleting
<1> QED
  BY <1>3, <1>4

\* What reenables a deployment begins by saving the row.
LEMMA ReenableBegins == Head(Plan["reenable"]) = "saveCreating"
<1>1. Plan["reenable"] = <<"saveCreating", "makeNamespace", "dispatch">>
  BY DEF Plan
<1> QED
  BY <1>1

\* A step of a handler that does not delete the row leaves it active, and so does each that
\* makes or saves one.
LEMMA StepRow ==
  ASSUME Shape, PairedNow, Len(rows) <= 1, Len(rows') <= 1,
         NEW p \in Process, NEW step \in Step, step # "saveInactive", Does(p, step), Effects(p, step)
  PROVE  /\ RowActive \/ step \in {"insert", "saveCreating"} => RowActive'
         /\ rows' = rows \/ RowActive'
         /\ rows' # rows => RowActive \/ step \in {"insert", "saveCreating"}
<1>0. rows \in Seq(Row) /\ plan[p] # << >> /\ Head(plan[p]) = step
  BY StepFacts DEF Shape, Typed
<1>1. CASE rows' = rows /\ step # "insert" /\ (step \in Savings => step = "saveFailed")
  BY <1>1 DEF RowActive, Savings
<1>2. CASE step = "insert" /\ \E row \in Row : row.status = "creating" /\ rows' = Append(rows, row)
  <2>1. PICK row \in Row : row.status = "creating" /\ rows' = Append(rows, row)
    BY <1>2
  <2>2. Len(rows) = 0 /\ rows'[1] = row /\ rows' # << >>
    BY <1>0, <2>1, AppendFacts
  <2> QED
    BY <1>2, <2>1, <2>2 DEF RowActive
<1>3. CASE /\ step \in Savings \cup {"comment"} /\ mine[p].id \in DOMAIN rows
           /\ rows' = [rows EXCEPT ![mine[p].id] = Saved(p, step)]
  <2>1. mine[p].id = 1 /\ rows'[1] = Saved(p, step) /\ rows # << >> /\ rows' # << >>
    <3>1. mine[p].id = 1 /\ rows # << >> /\ DOMAIN rows' = DOMAIN rows
      BY <1>0, <1>3
    <3> QED
      BY <1>0, <1>3, <3>1
  <2>2. CASE step = "saveCreating"
    BY <2>1, <2>2, StepFacts DEF RowActive
  <2>3. CASE step # "saveCreating"
    <3>1. op[p] \in Savers
      BY <1>3, StepFacts
    <3>2. mine[p].status # "inactive" /\ RowActive
      BY <1>0, <2>3, <3>1 DEF PairedNow, SavesCreating
    <3>3. Saved(p, step).status # "inactive"
      BY <3>2, StepFacts
    <3> QED
      BY <2>1, <3>2, <3>3 DEF RowActive
  <2> QED
    BY <2>2, <2>3
<1> QED
  BY <1>1, <1>2, <1>3 DEF Effects, RowsStep

\* A row is saved as inactive with nothing else under way, when its namespace is gone.
LEMMA DeletionPairs ==
  ASSUME Shape, Alone, Dropped, Undisturbed, Calm,
         NEW p \in Process, NEW step \in Step, step = "saveInactive", Does(p, step), Effects(p, step)
  PROVE  PairedNow'
<1>0. rows \in Seq(Row) /\ plan[p] # << >> /\ Head(plan[p]) = step
  BY StepFacts DEF Shape, Typed
<1>1. op[p] \in Deleters /\ mine[p].id \in DOMAIN rows /\ Saved(p, step).status = "inactive"
  BY StepFacts DEF Savings
<1>2. p \in Call /\ KindOf(op[p]) = "deletion"
  BY <1>0, <1>1, Kinds
<1>3. "deletion" \notin happened
  BY DEF Undisturbed
<1>4. InProgress' = {}
  BY <1>0, <1>2, <1>3 DEF Alone, InFlight, Calm
<1>5. \A q \in Process : plan'[q] = << >>
  BY <1>0, <1>2, <1>3, OnlyOne, StepFacts DEF OthersStay
<1>6. ~namespace'
  <2>1. ~namespace
    BY <1>0, <1>2, <1>3 DEF Dropped, SavesInactive
  <2> QED
    BY <2>1 DEF Effects
<1>7. ~RowActive'
  <2>1. mine[p].id = 1 /\ rows' = [rows EXCEPT ![mine[p].id] = Saved(p, step)]
    BY <1>0, <1>1 DEF Undisturbed, Effects, RowsStep, Savings
  <2>2. 1 \in DOMAIN rows
    BY <1>1, <2>1
  <2> QED
    BY <1>0, <1>1, <2>1, <2>2 DEF RowActive
<1> QED
  BY <1>4, <1>5, <1>6, <1>7 DEF PairedNow, MakesNamespace

LEMMA StepPairs ==
  ASSUME Shape, Alone, Dropped, Undisturbed, PairedNow, Calm, Undisturbed',
         NEW p \in Process, NEW step \in Step, Does(p, step), Effects(p, step)
  PROVE  PairedNow'
<1>1. CASE step = "saveInactive"
  BY <1>1, DeletionPairs
<1>2. CASE step # "saveInactive"
  <2>0. /\ plan[p] # << >> /\ Head(plan[p]) = step /\ OthersStay(p)
        /\ step \in {"insert", "saveCreating"} => MakesNamespace(p)'
    BY StepFacts, StepOrder
  <2>1. /\ RowActive \/ step \in {"insert", "saveCreating"} => RowActive'
        /\ rows' = rows \/ RowActive'
        /\ rows' # rows => RowActive \/ step \in {"insert", "saveCreating"}
    BY <1>2, StepRow DEF Undisturbed
  <2>2. InProgress' # {} /\ rows' # << >> => RowActive'
    BY <2>1 DEF Calm, PairedNow
  <2>3. ASSUME NEW q \in Process, plan'[q] # << >>, op'[q] \in Savers, ~SavesCreating(q)'
        PROVE  mine'[q].status # "inactive" /\ RowActive'
    <3>1. CASE q # p
      BY <2>0, <2>1, <2>3, <3>1 DEF OthersStay, PairedNow, SavesCreating
    <3>2. CASE q = p
      <4>1. op'[p] = op[p] /\ mine'[p].status = Saved(p, step).status
        BY <2>3, <3>2, StepFacts
      <4>2. CASE step = "saveCreating"
        BY <2>1, <3>2, <4>1, <4>2, StepFacts
      <4>3. CASE step # "saveCreating"
        <5>1. mine[p].status # "inactive" /\ RowActive
          BY <2>0, <2>3, <3>2, <4>1, <4>3 DEF PairedNow, SavesCreating
        <5> QED
          BY <1>2, <2>1, <3>2, <4>1, <5>1, StepFacts
      <4> QED
        BY <4>2, <4>3
    <3> QED
      BY <3>1, <3>2
  <2>4. ASSUME NEW q \in Process, MakesNamespace(q)'
        PROVE  RowActive'
    <3>1. CASE q # p
      BY <2>0, <2>1, <2>4, <3>1 DEF OthersStay, PairedNow, MakesNamespace
    <3>2. CASE q = p
      BY <2>1, <2>4, <3>2, StepFacts DEF MakesNamespace
    <3> QED
      BY <3>1, <3>2
  <2>5. namespace' => RowActive'
    <3>1. namespace' => namespace \/ step = "makeNamespace"
      BY DEF Effects
    <3>2. step = "makeNamespace" => MakesNamespace(p)
      BY <2>0 DEF MakesNamespace
    <3> QED
      BY <2>1, <3>1, <3>2 DEF PairedNow
  <2>6. ASSUME env', RowActive', ~namespace'
        PROVE  (\E q \in Process : MakesNamespace(q) \/ Deleting(q))'
    <3>1. env /\ step # "dropEnvironment" /\ step # "makeNamespace"
      BY <2>6 DEF Effects
    <3>2. CASE ~RowActive
      <4>1. MakesNamespace(p)'
        BY <2>0, <2>1, <2>6, <3>2 DEF RowActive
      <4> QED
        BY <4>1
    <3>3. CASE RowActive /\ namespace
      <4>1. step = "dropNamespace"
        BY <2>6, <3>1, <3>3 DEF Effects
      <4>2. Deleting(p)'
        BY <4>1, StepOrder
      <4> QED
        BY <4>2
    <3>4. CASE RowActive /\ ~namespace
      <4>1. PICK q \in Process : MakesNamespace(q) \/ Deleting(q)
        BY <3>1, <3>4 DEF PairedNow
      <4>2. CASE q # p
        <5>1. plan'[q] = plan[q] /\ op'[q] = op[q]
          BY <2>0, <4>2 DEF OthersStay
        <5>2. (MakesNamespace(q) \/ Deleting(q))'
          BY <4>1, <5>1 DEF MakesNamespace, Deleting
        <5> QED
          BY <5>2
      <4>3. CASE q = p
        <5>1. Deleting(p)
          BY <2>0, <3>1, <4>1, <4>3 DEF MakesNamespace
        <5>2. Deleting(p)'
          BY <1>2, <3>1, <5>1, StepOrder
        <5> QED
          BY <5>2
      <4> QED
        BY <4>2, <4>3
    <3> QED
      BY <3>2, <3>3, <3>4
  <2> QED
    BY <2>2, <2>3, <2>4, <2>5, <2>6 DEF PairedNow
<1> QED
  BY <1>1, <1>2

\* Of the steps that are not a handler's: whoever is at work stays as it is, or is over, or has
\* just begun.
LEMMA QuietlyPairs ==
  ASSUME PairedNow, UNCHANGED <<rows, namespace, env>>,
         InProgress' \subseteq InProgress \/ (rows # << >> => RowActive),
         \A p \in Process : \/ plan'[p] = plan[p] /\ mine'[p] = mine[p]
                               /\ (op'[p] = op[p] \/ plan[p] = << >>)
                            \/ plan'[p] = << >> /\ (env => ~MakesNamespace(p) /\ ~Deleting(p))
                            \/ /\ plan[p] = << >> /\ Head(plan'[p]) # "makeNamespace"
                               /\ op'[p] \in Savers /\ ~SavesCreating(p)' =>
                                    mine'[p].status # "inactive" /\ RowActive
  PROVE  PairedNow'
<1>0. RowActive' = RowActive
  BY DEF RowActive
<1>1. InProgress' # {} /\ rows' # << >> => RowActive'
  BY <1>0 DEF PairedNow
<1>2. ASSUME NEW p \in Process, plan'[p] # << >>, op'[p] \in Savers, ~SavesCreating(p)'
      PROVE  mine'[p].status # "inactive" /\ RowActive'
  BY <1>0, <1>2 DEF PairedNow, SavesCreating
<1>3. ASSUME NEW p \in Process, MakesNamespace(p)'
      PROVE  RowActive'
  BY <1>0, <1>3 DEF PairedNow, MakesNamespace
<1>4. ASSUME env, NEW p \in Process, MakesNamespace(p) \/ Deleting(p)
      PROVE  (MakesNamespace(p) \/ Deleting(p))'
  BY <1>4 DEF MakesNamespace, Deleting
<1>5. env' /\ RowActive' /\ ~namespace' => (\E p \in Process : MakesNamespace(p) \/ Deleting(p))'
  BY <1>0, <1>4 DEF PairedNow
<1> QED
  BY <1>0, <1>1, <1>2, <1>3, <1>5 DEF PairedNow

LEMMA OneAtMost ==
  ASSUME NEW S, NEW s \in Seq(S), Len(s) <= 1, s # << >>
  PROVE  Len(s) = 1
<1>1. Len(s) # 0
  BY EmptySeq
<1> QED
  BY <1>1, LenProperties

LEMMA KeepsPaired ==
  ASSUME Shape, OneRun, Alone, Dropped, Paired, Next
  PROVE  Paired'
<1>0. /\ Call \subseteq Process /\ Run \subseteq Process /\ Call \cap Run = {} /\ Typed /\ Typed'
      /\ rows \in Seq(Row) /\ rows' \in Seq(Row) /\ happened \subseteq happened'
  BY RunAssumption, KeepsAlone, KeepsShape DEF Process, Shape, Typed
<1> SUFFICES ASSUME Undisturbed'
             PROVE  PairedNow'
  BY DEF Paired
<1>2. CASE Elsewhere
  <2>1. /\ UNCHANGED <<plan, mine, rows, namespace, env, happened>> /\ InProgress' \subseteq InProgress
        /\ \A p \in Process : op'[p] = op[p] \/ plan[p] = << >>
    BY <1>2, ElsewhereFacts, OthersCalm DEF Others, Calm
  <2>2. PairedNow
    BY <2>1 DEF Paired, Undisturbed
  <2> QED
    BY <2>1, <2>2, QuietlyPairs
<1>3. ASSUME NEW c \in Call, Admission(c)
      PROVE  PairedNow'
  <2>1. PICK o \in Operations, i \in 0..Len(rows) : Admitted(c, o, i)
    BY <1>3 DEF Admission
  <2>2. Starts(c, o, i, Plan[o]) /\ UNCHANGED <<rows, stage, namespace, env>> /\ op[c] = "none"
    BY <2>1 DEF Admitted, Admit, rowsAndCluster, Begins
  <2>3. /\ OthersStay(c) /\ op'[c] = o /\ plan'[c] = Plan[o] /\ plan'[c] # << >> /\ mine'[c].id = i
        /\ (i # 0 => mine'[c].status = rows[i].status)
    BY <1>0, <2>2, SameOps, StartsFacts
  <2>4. InProgress' = InProgress
    BY <1>0, <2>2, <2>3 DEF InProgress, OthersStay
  <2>5. PairedNow
    BY <1>0, <2>2 DEF Paired, Undisturbed
  <2>6. plan[c] = << >>
    <3>1. "none" \notin RunOps \cup CallOps
      BY DEF RunOps, CallOps, Operations, Events, Requests
    <3> QED
      BY <1>0, <2>2, <3>1 DEF Shape, Working
  <2>7. Head(plan'[c]) # "makeNamespace"
    <3>1. o \in (IF c \in Run THEN RunOps ELSE CallOps)
      BY <1>0 DEF CallOps
    <3>2. o \in Savers => i # 0
      BY <2>1 DEF Admitted
    <3>3. Quietly
      BY <1>0, <2>2, <3>1, <3>2, StartsQuietly
    <3> QED
      BY <1>0, <2>3, <2>6, <3>3 DEF Quietly
  <2>8. o \in Savers /\ ~SavesCreating(c)' => mine'[c].status # "inactive" /\ RowActive
    <3>1. SUFFICES ASSUME o \in Savers, ~SavesCreating(c)'
                   PROVE  mine'[c].status # "inactive" /\ RowActive
      OBVIOUS
    <3>2. o # "reenable"
      BY <2>3, <3>1, ReenableBegins DEF SavesCreating
    <3>3. i # 0 /\ rows[i].status # "inactive"
      BY <2>1, <3>1, <3>2 DEF Admitted, Savers, Operations, Events, Requests
    <3>4. i = 1 /\ rows # << >>
      BY <1>0, <2>2, <3>3 DEF Undisturbed
    <3> QED
      BY <2>3, <3>3, <3>4 DEF RowActive
  <2> QED
    BY <1>0, <2>2, <2>3, <2>4, <2>5, <2>6, <2>7, <2>8, QuietlyPairs DEF OthersStay
<1>4. ASSUME NEW r \in Run, StartRun(r)
      PROVE  PairedNow'
  <2>1. UNCHANGED <<op, plan, mine, rows, namespace, env>> /\ Notes("run")
    BY <1>4 DEF StartRun, rowsAndCluster
  <2>2. rows # << >> => RowActive
    <3>1. rows # << >> => rows[Latest].status # "inactive"
      BY <2>1, NotesFacts DEF Undisturbed
    <3>2. rows # << >> => Latest = 1
      <4>1. Len(rows) <= 1
        BY <2>1 DEF Undisturbed
      <4> QED
        BY <1>0, <4>1, OneAtMost DEF Latest
    <3> QED
      BY <3>1, <3>2 DEF RowActive
  <2>3. PairedNow
    BY <1>0, <2>1 DEF Paired, Undisturbed
  <2> QED
    BY <2>1, <2>2, <2>3, QuietlyPairs
<1>5. ASSUME NEW r \in Run, RunCall(r)
      PROVE  PairedNow'
  <2>1. PICK o \in RunOps :
          /\ Starts(r, o, IF o = "create" THEN 0 ELSE Latest, Plan[o])
          /\ (o # "create" => rows # << >>) /\ stage[r] \in InApply /\ plan[r] = << >>
          /\ UNCHANGED <<rows, namespace, env, happened>>
    BY <1>5 DEF RunCall, rowsAndCluster
  <2> DEFINE i == IF o = "create" THEN 0 ELSE Latest
  <2>2. i \in 0..Len(rows) /\ (o # "create" => i = 1) /\ Starts(r, o, i, Plan[o])
    <3>1. Len(rows) <= 1
      BY <2>1 DEF Undisturbed
    <3>2. rows # << >> => Len(rows) = 1
      BY <1>0, <3>1, OneAtMost
    <3> QED
      BY <1>0, <2>1, <3>2 DEF Latest
  <2> HIDE DEF i
  <2>3. /\ OthersStay(r) /\ op'[r] = o /\ plan'[r] # << >> /\ mine'[r].id = i
        /\ (i # 0 => mine'[r].status = rows[i].status)
    BY <1>0, <2>2, SameOps, StartsFacts
  <2>4. r \in InProgress /\ InProgress' \subseteq InProgress
    BY <1>5, <2>1, OthersCalm DEF Others, Calm, InProgress, InApply
  <2>5. PairedNow
    BY <2>1 DEF Paired, Undisturbed
  <2>6. o # "create" => RowActive /\ mine'[r].status # "inactive"
    BY <2>1, <2>2, <2>3, <2>4, <2>5 DEF PairedNow, RowActive
  <2>7. Head(plan'[r]) # "makeNamespace"
    <3>1. o \in (IF r \in Run THEN RunOps ELSE CallOps) /\ (o \in Savers => i # 0)
      BY <2>2 DEF Savers
    <3>2. Quietly
      BY <1>0, <2>1, <2>2, <3>1, StartsQuietly
    <3> QED
      BY <1>0, <2>1, <2>3, <3>2 DEF Quietly
  <2> QED
    BY <1>0, <2>1, <2>3, <2>4, <2>5, <2>6, <2>7, QuietlyPairs DEF OthersStay, Savers
<1>6. ASSUME NEW r \in Run, RunGoesOn(r)
      PROVE  PairedNow'
  <2>1. UNCHANGED <<op, plan, mine, rows, namespace, env, happened>> /\ InProgress' \subseteq InProgress
    BY <1>6, OthersCalm DEF Others, Calm, RunGoesOn, GoesOn, rowsAndCluster
  <2>2. PairedNow
    BY <2>1 DEF Paired, Undisturbed
  <2> QED
    BY <2>1, <2>2, QuietlyPairs
<1>7. ASSUME NEW p \in Process, HandlerStep(p)
      PROVE  PairedNow'
  <2>1. PICK step \in Step : Does(p, step) /\ Effects(p, step)
    BY <1>7, HandlerStepFacts
  <2>2. Undisturbed
    <3>1. Len(rows) <= Len(rows')
      BY <2>1, RowsStepGrows DEF Effects, RowsGrow
    <3> QED
      BY <1>0, <3>1 DEF Undisturbed
  <2> QED
    BY <1>7, <2>1, <2>2, StepPairs, OthersCalm DEF Others, Paired
<1>8. ASSUME NEW p \in Process, HandlerEnds(p)
      PROVE  PairedNow'
  <2>1. Over(p) /\ UNCHANGED <<rows, namespace, env>>
    BY <1>8, HandlerEndsFacts DEF rowsAndCluster
  <2>2. OthersStay(p) /\ plan'[p] = << >>
    BY <1>0, <2>1, OverFacts
  <2>3. InProgress' \subseteq InProgress
    BY <1>8, OthersCalm DEF Others, Calm
  <2>4. env => ~MakesNamespace(p) /\ ~Deleting(p)
    <3>1. Stops(p)
      BY <1>8 DEF HandlerEnds, CallFails, RunFails, Fails, Undisturbed
    <3> QED
      BY <3>1 DEF Stops, MakesNamespace, Deleting, Deletions, Deleters
  <2>5. PairedNow
    BY <1>0, <2>1 DEF Paired, Undisturbed
  <2> QED
    BY <2>1, <2>2, <2>3, <2>4, <2>5, QuietlyPairs DEF OthersStay
<1> QED
  BY <1>2, <1>3, <1>4, <1>5, <1>6, <1>7, <1>8, StepKinds

-----------------------------------------------------------------------------
(* The theorems.                                                           *)

\* The state of a pull request that has just got an environment has the invariant.
LEMMA InitiallyPreview ==
  ASSUME Init
  PROVE  PreviewInvariant
<1>1. NoRow \in [id : 0..Len(<< >>), status : Status, commit : Commit]
  BY DEF NoRow, Status, Commit
<1>2. Typed
  <2>1. rows \in Seq(Row) /\ plan \in [Process -> Seq(Step)]
    BY DEF Init
  <2>2. mine \in [Process -> [id : 0..Len(rows), status : Status, commit : Commit]]
    BY <1>1 DEF Init
  <2>3. due \subseteq {"opened", "closed"} /\ op \in [Process -> {"none", "ended"} \cup DOMAIN Plan]
    BY DEF Init
  <2> QED
    BY <2>1, <2>2, <2>3 DEF Init, Typed
<1>3. \A p \in Process : plan[p] = << >>
  BY DEF Init
<1>4. InFlight = {} /\ InProgress = {}
  BY <1>3 DEF InFlight, InProgress, Init, Process
<1>5. Shape
  BY <1>2, <1>3 DEF Shape, Working, RunWorking, Init, Process
<1>6. Dropped /\ Owned /\ TornDown
  BY <1>3 DEF Dropped, SavesInactive, Owned, MakesNamespace, TornDown, Init, Process
<1>7. Committed /\ Lively
  BY <1>3 DEF Committed, RunCommitted, Lively, Init, Process
<1> QED
  BY <1>4, <1>5, <1>6, <1>7 DEF PreviewInvariant, OneRun, Alone

LEMMA StutterKeeps ==
  ASSUME PreviewInvariant, UNCHANGED vars
  PROVE  PreviewInvariant'
<1>1. UNCHANGED <<open, due, env, rows, namespace, op, plan, mine, stage, torn, happened>>
  BY DEF vars
<1>2. Shape'
  BY <1>1 DEF PreviewInvariant, Shape, Typed, Working, RunWorking, MakesNamespace
<1>3. InFlight' = InFlight /\ InProgress' = InProgress /\ Active' = Active
  BY <1>1 DEF InFlight, InProgress, Active
<1>4. \A c : KindOf(op[c])' = KindOf(op[c])
  BY <1>1 DEF KindOf
<1>5. OneRun' /\ Alone'
  BY <1>1, <1>3, <1>4 DEF PreviewInvariant, OneRun, Alone
<1>6. Dropped' /\ Owned' /\ TornDown'
  BY <1>1, <1>3 DEF PreviewInvariant, Dropped, SavesInactive, Owned, MakesNamespace, TornDown
<1>7. Committed' /\ Lively'
  BY <1>1, <1>3 DEF PreviewInvariant, Committed, RunCommitted, Lively, Latest
<1> QED
  BY <1>2, <1>5, <1>6, <1>7 DEF PreviewInvariant

\* The state of a preview environment (its rows, its namespace, the handlers under way and what
\* they have read) is at all times the one the handlers are written for.
THEOREM PreviewInvariantHolds == Spec => []PreviewInvariant
<1>1. Init => PreviewInvariant
  BY InitiallyPreview
<1>2. PreviewInvariant /\ [Next]_vars => PreviewInvariant'
  <2>1. PreviewInvariant /\ Next => PreviewInvariant'
    BY KeepsShape, KeepsAlone, KeepsDropped, KeepsOwned, KeepsTornDown, KeepsCommitted, KeepsLively
       DEF PreviewInvariant
  <2> QED
    BY <2>1, StutterKeeps
<1> QED
  BY <1>1, <1>2, PTL DEF Spec

\* No handler that is admitted, or was under way, brings the deployment of a closed and torn
\* down pull request or its namespace back (processPullRequestEvent, the checks of the pull
\* request in the handlers of the dashboard and of the workflow runs). Torn down means by the
\* closing of the only row, with no deletion having overlapped with anything; an "opened" or an
\* enabling that makes a second row is excluded, failures and other overlaps are not.
THEOREM ClosedTornDown == Spec => []ClosedStaysTornDown
<1>1. PreviewInvariant => ClosedStaysTornDown
  BY DEF PreviewInvariant, TornDown, ClosedStaysTornDown, Disturbed, Active
<1> QED
  BY <1>1, PreviewInvariantHolds, PTL

\* A namespace always has an active deployment, whichever call of a handler fails: creation
\* inserts or saves the row before it makes the namespace, deletion saves it after. Deletions
\* and saves of webhooks and requests that overlap with anything are excluded.
THEOREM NamespaceOwned == Spec => []NamespaceIsOwned
<1>1. PreviewInvariant => NamespaceIsOwned
  BY DEF PreviewInvariant, Owned, NamespaceIsOwned, Disturbed
<1> QED
  BY <1>1, PreviewInvariantHolds, PTL

\* Once nothing is under way, and nothing has failed or overlapped with a deletion, the
\* namespace of a deployment is there exactly as long as its row is active: creation and
\* reenabling go on from the row to the namespace, deletion from the namespace to the row.
THEOREM ActiveNamespace == Spec => []ActiveHasNamespace
<1>1. Init => Paired
  BY DEF Init, Paired, PairedNow, InProgress, MakesNamespace, RowActive, Process
<1>2. PreviewInvariant /\ Paired /\ [Next]_vars => Paired'
  <2>1. CASE Next /\ PreviewInvariant /\ Paired
    BY <2>1, KeepsPaired DEF PreviewInvariant
  <2>2. CASE Paired /\ UNCHANGED vars
    BY <2>2 DEF vars, Paired, Undisturbed, PairedNow, InProgress, MakesNamespace, RowActive, SavesCreating, Deleting
  <2> QED
    BY <2>1, <2>2
<1>3. PreviewInvariant /\ Paired => ActiveHasNamespace
  <2>1. SUFFICES ASSUME PreviewInvariant, Paired, Quiet, env, Len(rows) = 1,
                        ~Disturbed({"deletion", "late", "failure"})
                 PROVE  Active # {} <=> namespace
    BY DEF ActiveHasNamespace
  <2>2. rows \in Seq(Row)
    BY <2>1 DEF PreviewInvariant, Shape, Typed
  <2>3. PairedNow /\ (Active # {} <=> RowActive)
    BY <2>1, <2>2 DEF Paired, Undisturbed, Disturbed, Active, RowActive
  <2>4. \A p \in Process : plan[p] = << >>
    BY <2>1 DEF Quiet, InFlight, InProgress, Process
  <2> QED
    BY <2>1, <2>3, <2>4 DEF PairedNow, MakesNamespace, Deleting
<1> QED
  BY <1>1, <1>2, <1>3, PreviewInvariantHolds, PTL DEF Spec

\* The commit that finalize_deployment.go names in its comment is the one that the run gave the
\* deployment when it created or updated it, as long as no webhook or request that creates,
\* deletes or saves the deployment has overlapped with anything; calls may fail.
THEOREM CommentCommit == Spec => []CommentNamesCommit
<1>1. PreviewInvariant => CommentNamesCommit
  <2>1. <<"comment">> # << >>
    OBVIOUS
  <2> QED
    BY <2>1 DEF PreviewInvariant, Committed, RunCommitted, CommentNamesCommit, Disturbed
<1> QED
  BY <1>1, PreviewInvariantHolds, PTL

\* Nothing but reenable_deployment.go makes an inactive deployment active, as long as nothing
\* overlaps or fails, no second row is made and no run begins after its deployment was deleted.
THEOREM ReenableRevives == Spec => OnlyReenableRevives
<1>1. PreviewInvariant /\ Next =>
        (\A i \in Revived : rows'[i].status = "creating" \/ happened # {})
  <2>1. SUFFICES ASSUME PreviewInvariant, Next, NEW i \in Revived, happened = {}
                 PROVE  rows'[i].status = "creating"
    OBVIOUS
  <2>2. Shape /\ Lively /\ i \in DOMAIN rows /\ rows[i].status = "inactive" /\ rows'[i].status # "inactive"
    BY <2>1 DEF PreviewInvariant, Revived
  <2>3. ~Quietly
    BY <2>2 DEF Quietly
  <2> QED
    BY <2>1, <2>2, <2>3, QuietSteps, StepKeepsActive
<1>2. PreviewInvariant /\ [Next]_vars =>
        [\A i \in Revived : rows'[i].status = "creating" \/ happened # {}]_vars
  BY <1>1
<1> QED
  BY <1>2, PreviewInvariantHolds, PTL DEF Spec, OnlyReenableRevives

-----------------------------------------------------------------------------
(* Types.                                                                  *)

LEMMA SuffixOf ==
  ASSUME NEW S, NEW t \in Seq(S), NEW n \in 1..Len(t), NEW u \in Seq(S), Len(u) = Len(t) - n + 1,
         \A i \in 1..Len(u) : u[i] = t[n + i - 1]
  PROVE  SubSeq(t, n, Len(t)) = u
<1>1. Len(t) \in Nat /\ \A i \in n..Len(t) : t[i] \in S
  OBVIOUS
<1>2. /\ SubSeq(t, n, Len(t)) \in Seq(S) /\ Len(SubSeq(t, n, Len(t))) = Len(t) - n + 1
      /\ \A i \in 1..Len(t) - n + 1 : SubSeq(t, n, Len(t))[i] = t[n + i - 1]
  BY <1>1, SubSeqProperties
<1>3. Len(SubSeq(t, n, Len(t))) = Len(u)
      /\ \A i \in 1..Len(SubSeq(t, n, Len(t))) : SubSeq(t, n, Len(t))[i] = u[i]
  BY <1>2
<1> QED
  BY <1>2, <1>3, SeqEqual

LEMMA SuffixFacts ==
  ASSUME NEW S, NEW a \in S, NEW b \in S, NEW c \in S
  PROVE  /\ SubSeq(<<a>>, 1, Len(<<a>>)) = <<a>>
         /\ SubSeq(<<a, b>>, 1, Len(<<a, b>>)) = <<a, b>> /\ SubSeq(<<a, b>>, 2, Len(<<a, b>>)) = <<b>>
         /\ SubSeq(<<a, b, c>>, 1, Len(<<a, b, c>>)) = <<a, b, c>>
         /\ SubSeq(<<a, b, c>>, 2, Len(<<a, b, c>>)) = <<b, c>>
         /\ SubSeq(<<a, b, c>>, 3, Len(<<a, b, c>>)) = <<c>>
<1>1. /\ <<a>> \in Seq(S) /\ Len(<<a>>) = 1 /\ <<a>>[1] = a
      /\ <<c>> \in Seq(S) /\ Len(<<c>>) = 1 /\ <<c>>[1] = c
      /\ <<b>> \in Seq(S) /\ Len(<<b>>) = 1 /\ <<b>>[1] = b
  OBVIOUS
<1>2. /\ <<a, b>> \in Seq(S) /\ Len(<<a, b>>) = 2 /\ <<a, b>>[1] = a /\ <<a, b>>[2] = b
      /\ <<b, c>> \in Seq(S) /\ Len(<<b, c>>) = 2 /\ <<b, c>>[1] = b /\ <<b, c>>[2] = c
  OBVIOUS
<1>3. /\ <<a, b, c>> \in Seq(S) /\ Len(<<a, b, c>>) = 3
      /\ <<a, b, c>>[1] = a /\ <<a, b, c>>[2] = b /\ <<a, b, c>>[3] = c
  OBVIOUS
<1>4. SubSeq(<<a>>, 1, Len(<<a>>)) = <<a>>
  BY <1>1, SubSeqFull
<1>5. SubSeq(<<a, b>>, 1, Len(<<a, b>>)) = <<a, b>> /\ SubSeq(<<a, b>>, 2, Len(<<a, b>>)) = <<b>>
  <2>1. 2 \in 1..Len(<<a, b>>) /\ Len(<<b>>) = Len(<<a, b>>) - 2 + 1
        /\ \A i \in 1..Len(<<b>>) : <<b>>[i] = <<a, b>>[2 + i - 1]
    BY <1>1, <1>2
  <2>2. SubSeq(<<a, b>>, 2, Len(<<a, b>>)) = <<b>>
    BY <1>1, <1>2, <2>1, SuffixOf
  <2> QED
    BY <1>2, <2>2, SubSeqFull
<1>6. SubSeq(<<a, b, c>>, 1, Len(<<a, b, c>>)) = <<a, b, c>>
  BY <1>3, SubSeqFull
<1>7. /\ SubSeq(<<a, b, c>>, 2, Len(<<a, b, c>>)) = <<b, c>>
      /\ SubSeq(<<a, b, c>>, 3, Len(<<a, b, c>>)) = <<c>>
  <2>1. 2 \in 1..Len(<<a, b, c>>) /\ Len(<<b, c>>) = Len(<<a, b, c>>) - 2 + 1
        /\ \A i \in 1..Len(<<b, c>>) : <<b, c>>[i] = <<a, b, c>>[2 + i - 1]
    BY <1>2, <1>3
  <2>2. 3 \in 1..Len(<<a, b, c>>) /\ Len(<<c>>) = Len(<<a, b, c>>) - 3 + 1
        /\ \A i \in 1..Len(<<c>>) : <<c>>[i] = <<a, b, c>>[3 + i - 1]
    BY <1>1, <1>3
  <2>3. SubSeq(<<a, b, c>>, 2, Len(<<a, b, c>>)) = <<b, c>>
    BY <1>2, <1>3, <2>1, SuffixOf
  <2>4. SubSeq(<<a, b, c>>, 3, Len(<<a, b, c>>)) = <<c>>
    BY <1>1, <1>3, <2>2, SuffixOf
  <2> QED
    BY <2>3, <2>4
<1> QED
  BY <1>4, <1>5, <1>6, <1>7

\* What may be left of a plan is the end of it.
LEMMA LeftIsSuffix ==
  ASSUME NEW o \in DOMAIN Left, NEW s \in Left[o]
  PROVE  \E n \in 1..3 : s = SubSeq(Plan[o], n, Len(Plan[o]))
<1> DEFINE Suffix(t) == \E n \in 1..3 : s = SubSeq(t, n, Len(t))
<1>1. \A a \in Step : s = <<a>> => Suffix(<<a>>)
  BY SuffixFacts
<1>2. \A a \in Step, b \in Step : s \in {<<a, b>>, <<b>>} => Suffix(<<a, b>>)
  BY SuffixFacts
<1>3. \A a \in Step, b \in Step, c \in Step :
        s \in {<<a, b, c>>, <<b, c>>, <<c>>} => Suffix(<<a, b, c>>)
  BY SuffixFacts
<1> HIDE DEF Suffix
<1>4. o \in {"opened", "enable", "reenable", "trigger", "synchronize", "edited", "closed", "delete",
             "deleteEnvironment", "create", "update", "finalize", "errors", "status"}
  BY DEF Left
<1>5. Suffix(Plan[o])
  <2>1. CASE o = "opened"
    <3>1. /\ s \in {<<"insert", "makeNamespace", "dispatch">>, <<"makeNamespace", "dispatch">>, <<"dispatch">>}
          /\ Plan[o] = <<"insert", "makeNamespace", "dispatch">>
      BY <2>1 DEF Plan, Left
    <3> QED
      BY <1>3, <3>1 DEF Step, Savings
  <2>2. CASE o = "enable"
    <3>1. /\ s \in {<<"dispatch", "insert", "makeNamespace">>, <<"insert", "makeNamespace">>, <<"makeNamespace">>}
          /\ Plan[o] = <<"dispatch", "insert", "makeNamespace">>
      BY <2>2 DEF Plan, Left
    <3> QED
      BY <1>3, <3>1 DEF Step, Savings
  <2>3. CASE o = "reenable"
    <3>1. /\ s \in {<<"saveCreating", "makeNamespace", "dispatch">>, <<"makeNamespace", "dispatch">>, <<"dispatch">>}
          /\ Plan[o] = <<"saveCreating", "makeNamespace", "dispatch">>
      BY <2>3 DEF Plan, Left
    <3> QED
      BY <1>3, <3>1 DEF Step, Savings
  <2>4. CASE o = "trigger"
    <3>1. /\ s \in {<<"dispatch", "saveUpdating">>, <<"saveUpdating">>}
          /\ Plan[o] = <<"dispatch", "saveUpdating">>
      BY <2>4 DEF Plan, Left
    <3> QED
      BY <1>2, <3>1 DEF Step, Savings
  <2>5. CASE o = "synchronize"
    <3>1. /\ s \in {<<"dispatch">>}
          /\ Plan[o] = <<"dispatch">>
      BY <2>5 DEF Plan, Left
    <3> QED
      BY <1>1, <3>1 DEF Step, Savings
  <2>6. CASE o = "edited"
    <3>1. /\ s \in {<<"saveEdited">>}
          /\ Plan[o] = <<"saveEdited">>
      BY <2>6 DEF Plan, Left
    <3> QED
      BY <1>1, <3>1 DEF Step, Savings
  <2>7. CASE o = "closed"
    <3>1. /\ s \in {<<"cancel", "dropNamespace", "saveInactive">>, <<"dropNamespace", "saveInactive">>, <<"saveInactive">>}
          /\ Plan[o] = <<"cancel", "dropNamespace", "saveInactive">>
      BY <2>7 DEF Plan, Left
    <3> QED
      BY <1>3, <3>1 DEF Step, Savings
  <2>8. CASE o = "delete"
    <3>1. /\ s \in {<<"dropNamespace", "saveInactive">>, <<"saveInactive">>}
          /\ Plan[o] = <<"dropNamespace", "saveInactive">>
      BY <2>8 DEF Plan, Left
    <3> QED
      BY <1>2, <3>1 DEF Step, Savings
  <2>9. CASE o = "deleteEnvironment"
    <3>1. /\ s \in {<<"dropNamespace", "dropEnvironment">>, <<"dropEnvironment">>}
          /\ Plan[o] = <<"dropNamespace", "dropEnvironment">>
      BY <2>9 DEF Plan, Left
    <3> QED
      BY <1>2, <3>1 DEF Step, Savings
  <2>10. CASE o = "create"
    <3>1. /\ s \in {<<"insert", "makeNamespace">>, <<"makeNamespace">>}
          /\ Plan[o] = <<"insert", "makeNamespace">>
      BY <2>10 DEF Plan, Left
    <3> QED
      BY <1>2, <3>1 DEF Step, Savings
  <2>11. CASE o = "update"
    <3>1. /\ s \in {<<"saveCommit">>}
          /\ Plan[o] = <<"saveCommit">>
      BY <2>11 DEF Plan, Left
    <3> QED
      BY <1>1, <3>1 DEF Step, Savings
  <2>12. CASE o = "finalize"
    <3>1. /\ s \in {<<"saveCreated", "comment">>, <<"comment">>}
          /\ Plan[o] = <<"saveCreated", "comment">>
      BY <2>12 DEF Plan, Left
    <3> QED
      BY <1>2, <3>1 DEF Step, Savings
  <2>13. CASE o = "errors"
    <3>1. /\ s \in {<<"saveFailed", "comment">>, <<"comment">>}
          /\ Plan[o] = <<"saveFailed", "comment">>
      BY <2>13 DEF Plan, Left
    <3> QED
      BY <1>2, <3>1 DEF Step, Savings
  <2>14. CASE o = "status"
    <3>1. /\ s \in {<<"saveFailed">>}
          /\ Plan[o] = <<"saveFailed">>
      BY <2>14 DEF Plan, Left
    <3> QED
      BY <1>1, <3>1 DEF Step, Savings
  <2> QED
    BY <1>4, <2>1, <2>2, <2>3, <2>4, <2>5, <2>6, <2>7, <2>8, <2>9, <2>10, <2>11, <2>12, <2>13, <2>14
<1> QED
  BY <1>5 DEF Suffix

\* Every variable keeps its type, and a handler at work has the end of its own plan left.
THEOREM PreviewTypeCorrect == Spec => []TypeOK
<1>1. ASSUME PreviewInvariant
      PROVE  TypeOK
  <2>1. \A p \in Process : plan[p] # << >> =>
          \E n \in 1..3 : plan[p] = SubSeq(Plan[op[p]], n, Len(Plan[op[p]]))
    <3>1. ASSUME NEW p \in Process, plan[p] # << >>
          PROVE  op[p] \in DOMAIN Left /\ plan[p] \in Left[op[p]]
      BY <1>1, <3>1, SameOps DEF PreviewInvariant, Shape, Working, CallOps
    <3> QED
      BY <3>1, LeftIsSuffix
  <2> QED
    BY <1>1, <2>1 DEF PreviewInvariant, Shape, Typed, TypeOK
<1> QED
  BY <1>1, PreviewInvariantHolds, PTL
=============================================================================
