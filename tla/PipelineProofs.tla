--------------------------- MODULE PipelineProofs ---------------------------
(***************************************************************************)
(* Theorems about Pipeline for any set of applications and workers and any *)
(* bound on versions.  They assume callers who send only versions the API  *)
(* has returned to them (CallerLead = 0): the UPDATE of a caller who counts*)
(* one ahead can match a row its request never looked at.                  *)
(*                                                                         *)
(* The argument rests on Snapshots: what a request loaded is never newer   *)
(* than what is stored, and as long as the version has not moved it is     *)
(* what is stored.  So a guarded UPDATE that matches acts on the row its   *)
(* guard was evaluated on, and each commit is one legal move.              *)
(*                                                                         *)
(* At the end, theorems about Merge for any reviews, candidates and merges *)
(* in flight, whatever versions callers send.  There the argument is       *)
(* OneIsSafe: while a person has a row for a job, one of that person's is  *)
(* live and came by no candidate whose rows a late merge is yet to archive.*)
(***************************************************************************)
EXTENDS Merge, FiniteSetTheorems, TLAPS

HonestCallers == CallerLead = 0

Writing(w) == req[w].op \in {"move", "evaluate"}

\* What a writing request q loaded, against the row stored now.
Fresh(q, now) ==
  /\ q.seen.version <= now.version
  /\ q.expected <= q.seen.version
  /\ q.seen.version = now.version => q.seen.stage = now.stage /\ q.seen.hold = now.hold
  /\ q.seen.rtr => now.rtr
  /\ Legal(q.seen, q.to, TRUE)

Snapshots ==
  \A w \in Worker :
    /\ Writing(w) => Fresh(req[w], row[req[w].app])
    /\ req[w].op = "rtr" => row[req[w].app].stage # "unborn"

\* A row that does not exist holds nothing; one that does counts from 1.
Numbered == \A a \in App : IF Exists(a) THEN row[a].version >= 1 ELSE row[a] = NoRow

-----------------------------------------------------------------------------
LEMMA WritingRequest ==
  ASSUME NEW w \in Worker, TypeOK, Writing(w)
  PROVE  /\ req[w] \in WriteRequest
         /\ req[w].app \in App
         /\ req[w].seen \in Row
         /\ req[w].to \in Stages
         /\ req[w].expected \in 1 .. MaxVersion - 1
  <1>1. req[w] \in Requests
    BY DEF TypeOK
  <1>2. req[w] \in WriteRequest
    <2>1. req[w] # Idle
      BY DEF Writing, Idle
    <2>2. req[w] \notin [op : {"create", "rtr"}, app : App]
      BY DEF Writing
    <2> QED
      BY <1>1, <2>1, <2>2 DEF Requests
  <1> QED
    BY <1>2 DEF WriteRequest

LEMMA HoldAfterType ==
  ASSUME NEW stored \in Stages \cup {NoStage}, NEW seen \in Row, NEW to \in Stages,
         seen.stage \in Stages
  PROVE  HoldAfter(stored, seen, to) \in Stages \cup {NoStage}
  BY DEF HoldAfter, Row

-----------------------------------------------------------------------------
\* The shape of the state, and what requests know of it, is preserved.
Base == TypeOK /\ Snapshots /\ Numbered

LEMMA BaseInit == Init => Base
  <1> SUFFICES ASSUME Init PROVE Base
    OBVIOUS
  <1>1. TypeOK
    BY PipelineAssumption DEF Init, TypeOK, Row, NoRow, Requests
  <1>2. Snapshots
    BY DEF Init, Snapshots, Writing, Idle
  <1>3. Numbered
    BY DEF Init, Numbered, Exists, NoRow
  <1> QED
    BY <1>1, <1>2, <1>3 DEF Base

\* Under honest callers a commit acts on the row its request loaded.
LEMMA CommitsWhatItSaw ==
  ASSUME NEW w \in Worker, Base, Writing(w), WriteStage(w)
  PROVE  LET r == req[w]
             now == row[req[w].app]
         IN /\ r.app \in App /\ r.to \in Stages
            /\ now \in Row
            /\ now.version \in 1 .. MaxVersion - 1
            /\ r.seen.stage = now.stage
            /\ Legal(now, r.to, TRUE)
            /\ row' = [row EXCEPT ![r.app] =
                         [stage |-> r.to,
                          version |-> now.version + 1,
                          hold |-> HoldAfter(now.hold, now, r.to),
                          rtr |-> now.rtr]]
            /\ journal' = [journal EXCEPT ![r.app] =
                             Append(@, [from |-> now.stage, to |-> r.to])]
  <1> DEFINE r == req[w]
             now == row[req[w].app]
  <1>1. r.app \in App /\ r.seen \in Row /\ r.to \in Stages
        /\ r.expected \in 1 .. MaxVersion - 1
    BY WritingRequest DEF Base
  <1>2. now \in Row
    BY <1>1 DEF Base, TypeOK
  <1>3. now.version = r.expected
    BY DEF WriteStage, VersionMatches
  <1>4. /\ r.seen.version <= now.version
        /\ r.expected <= r.seen.version
        /\ r.seen.version = now.version =>
             r.seen.stage = now.stage /\ r.seen.hold = now.hold
        /\ r.seen.rtr => now.rtr
        /\ Legal(r.seen, r.to, TRUE)
    BY DEF Base, Snapshots, Fresh
  <1>5. r.seen.version \in Nat /\ now.version \in Nat
    BY <1>1, <1>2 DEF Row
  <1>6. r.seen.stage = now.stage /\ r.seen.hold = now.hold
    BY <1>3, <1>4, <1>5
  <1>7. Legal(now, r.to, TRUE)
    BY <1>4, <1>6 DEF Legal, Close, Hold, Reopen, Advance
  <1>8. HoldAfter(now.hold, r.seen, r.to) = HoldAfter(now.hold, now, r.to)
    BY <1>6 DEF HoldAfter
  <1> QED
    BY <1>1, <1>2, <1>3, <1>6, <1>7, <1>8 DEF WriteStage, Written, Base, TypeOK

\* Nothing a request relies on is undone: versions only grow, a row of an
\* unchanged version has an unchanged stage, consent and existence stay.
Grows == \A a \in App :
  /\ row[a].version <= row'[a].version
  /\ row[a].version = row'[a].version /\ Exists(a) =>
       row[a].stage = row'[a].stage /\ row[a].hold = row'[a].hold
  /\ row[a].rtr => row'[a].rtr
  /\ Exists(a) => Exists(a)'

LEMMA SnapshotsSurvive ==
  ASSUME Base, TypeOK', Grows,
         \A w \in Worker : req'[w] \in {req[w], Idle}
  PROVE  Snapshots'
  <1> SUFFICES ASSUME NEW w \in Worker
               PROVE  /\ req'[w].op \in {"move", "evaluate"} =>
                           Fresh(req'[w], row'[req'[w].app])
                      /\ req'[w].op = "rtr" => row'[req'[w].app].stage # "unborn"
    BY DEF Snapshots, Writing
  <1>1. CASE req'[w] = Idle
    BY <1>1 DEF Idle, Writing
  <1>2. CASE req'[w] = req[w] /\ Writing(w)
    <2> DEFINE a == req[w].app
               seen == req[w].seen
    <2>1. a \in App /\ seen \in Row
      BY <1>2, WritingRequest DEF Base
    <2>2. row[a] \in Row /\ row'[a] \in Row
      BY <2>1 DEF Base, TypeOK
    <2>3. seen.version \in Nat /\ row[a].version \in Nat /\ row'[a].version \in Nat
      BY <2>1, <2>2 DEF Row
    <2>4. Fresh(req[w], row[a])
      BY <1>2 DEF Base, Snapshots
    <2>5. /\ row[a].version <= row'[a].version
          /\ row[a].version = row'[a].version /\ Exists(a) =>
               row[a].stage = row'[a].stage /\ row[a].hold = row'[a].hold
          /\ row[a].rtr => row'[a].rtr
      BY <2>1 DEF Grows
    <2>6. seen.stage # "unborn"
      BY <2>4 DEF Fresh, Legal, Stages
    <2>7. Fresh(req[w], row'[a])
      <3>1. seen.version <= row'[a].version
        BY <2>3, <2>4, <2>5 DEF Fresh
      <3>2. seen.version = row'[a].version => row[a].version = row'[a].version
                                              /\ seen.version = row[a].version
        BY <2>3, <2>4, <2>5 DEF Fresh
      <3>3. seen.version = row'[a].version =>
              seen.stage = row'[a].stage /\ seen.hold = row'[a].hold
        BY <2>4, <2>5, <2>6, <3>2 DEF Fresh, Exists
      <3>4. seen.rtr => row'[a].rtr
        BY <2>4, <2>5, Zenon DEF Fresh
      <3> QED
        BY <2>4, <3>1, <3>3, <3>4 DEF Fresh
    <2>8. req[w].op # "rtr"
      BY <1>2 DEF Writing
    <2> QED
      BY <1>2, <2>7, <2>8
  <1>3. CASE req'[w] = req[w] /\ ~Writing(w)
    <2>1. req[w].op = "rtr" => req[w].app \in App
      <3>1. req[w] \in Requests
        BY DEF Base, TypeOK
      <3> QED
        BY <3>1 DEF Requests, Idle, WriteRequest
    <2> QED
      BY <1>3, <2>1 DEF Base, Snapshots, Writing, Grows, Exists
  <1> QED
    BY <1>1, <1>2, <1>3

\* A request that starts holds the row as it is stored.
LEMMA StartWrite ==
  ASSUME Base, NEW w \in Worker
  PROVE  \A r \in WriteRequest :
           /\ Start(w, r)
           /\ r.seen = row[r.app]
           /\ r.expected <= row[r.app].version
           /\ Legal(row[r.app], r.to, TRUE)
           => Base'
  <1> SUFFICES ASSUME NEW r \in WriteRequest, Start(w, r),
                      r.seen = row[r.app],
                      r.expected <= row[r.app].version,
                      Legal(row[r.app], r.to, TRUE)
               PROVE  Base'
    OBVIOUS
  <1>1. TypeOK'
    BY DEF Base, TypeOK, Start, Requests
  <1>2. Numbered'
    BY DEF Base, Numbered, Start, Exists
  <1>3. req'[w] = r /\ \A v \in Worker \ {w} : req'[v] = req[v]
    BY DEF Start, Base, TypeOK
  <1>4. r.app \in App /\ r.op # "rtr" /\ row[r.app] \in Row
    BY DEF WriteRequest, Base, TypeOK
  <1>5. row[r.app].version <= row[r.app].version
    BY <1>4 DEF Row
  <1>6. Fresh(r, row[r.app])
    BY <1>5 DEF Fresh
  <1>7. Snapshots'
    BY <1>3, <1>4, <1>6 DEF Base, Snapshots, Writing, Start
  <1> QED
    BY <1>1, <1>2, <1>7 DEF Base

LEMMA StartOther ==
  ASSUME Base, NEW w \in Worker
  PROVE  \A r \in [op : {"create", "rtr"}, app : App] :
           Start(w, r) /\ (r.op = "rtr" => Exists(r.app)) => Base'
  <1> SUFFICES ASSUME NEW r \in [op : {"create", "rtr"}, app : App], Start(w, r),
                      r.op = "rtr" => Exists(r.app)
               PROVE  Base'
    OBVIOUS
  <1>1. TypeOK'
    BY DEF Base, TypeOK, Start, Requests
  <1>2. Numbered'
    BY DEF Base, Numbered, Start, Exists
  <1>3. req'[w] = r /\ \A v \in Worker \ {w} : req'[v] = req[v]
    BY DEF Start, Base, TypeOK
  <1>4. ~(r.op \in {"move", "evaluate"})
    OBVIOUS
  <1>5. Snapshots'
    BY <1>3, <1>4 DEF Base, Snapshots, Writing, Start, Exists
  <1> QED
    BY <1>1, <1>2, <1>5 DEF Base

-----------------------------------------------------------------------------
(* Every step of the system is one of four things to the tables it writes. *)

Quiet == UNCHANGED <<row, journal, consents>>

Born(a) == /\ ~Exists(a)
           /\ row' = [row EXCEPT ![a] = NewRow]
           /\ UNCHANGED <<journal, consents>>

Consented(a) == /\ Exists(a)
                /\ row' = [row EXCEPT ![a].rtr = TRUE]
                /\ consents' = [consents EXCEPT ![a] = @ + 1]
                /\ UNCHANGED journal

Moved(a, to) ==
  /\ Legal(row[a], to, TRUE)
  /\ row[a].version \in 1 .. MaxVersion - 1
  /\ row' = [row EXCEPT ![a] = [stage |-> to,
                               version |-> row[a].version + 1,
                               hold |-> HoldAfter(row[a].hold, row[a], to),
                               rtr |-> row[a].rtr]]
  /\ journal' = [journal EXCEPT ![a] = Append(@, [from |-> row[a].stage, to |-> to])]
  /\ UNCHANGED consents

Effect == \/ Quiet
          \/ \E a \in App : Born(a) \/ Consented(a)
          \/ \E a \in App, to \in Stages : Moved(a, to)

LEMMA RequestBase ==
  ASSUME HonestCallers, Base, NEW w \in Worker, Request(w)
  PROVE  Base' /\ Quiet
  <1>1. Quiet
    BY DEF Request, PostApplication, PostRtr, PatchStage, PostTransition,
           PostEvaluation, Start, Quiet
  <1>2. PICK a \in App :
          \/ PostApplication(w, a)
          \/ PostRtr(w, a)
          \/ \E to \in Stages : PatchStage(w, a, to)
          \/ \E to \in Stages, v \in Expected(a) : PostTransition(w, a, to, v)
          \/ \E to \in EvalTargets, v \in Expected(a) : PostEvaluation(w, a, to, v)
    BY DEF Request
  <1>3. row[a] \in Row
    BY DEF Base, TypeOK
  <1>4. ASSUME NEW op \in {"move", "evaluate"}, NEW to \in Stages,
               NEW v \in 1 .. MaxVersion - 1, v <= row[a].version,
               Legal(row[a], to, TRUE), Start(w, Write(op, a, to, v))
        PROVE  Base'
    <2>1. Write(op, a, to, v) \in WriteRequest
      BY <1>3, <1>4 DEF Write, WriteRequest
    <2> QED
      BY <1>4, <2>1, StartWrite DEF Write
  <1>5. \A v \in Expected(a) : v \in 1 .. MaxVersion - 1 /\ v <= row[a].version
    BY <1>3, PipelineAssumption DEF Expected, HonestCallers, Row
  <1>6. CASE PostApplication(w, a)
    <2> DEFINE r == [op |-> "create", app |-> a]
    <2>1. r \in [op : {"create", "rtr"}, app : App] /\ r.op # "rtr"
      OBVIOUS
    <2>2. Start(w, r)
      BY <1>6 DEF PostApplication
    <2> HIDE DEF r
    <2> QED
      BY <1>1, <2>1, <2>2, StartOther
  <1>7. CASE PostRtr(w, a)
    <2> DEFINE r == [op |-> "rtr", app |-> a]
    <2>1. r \in [op : {"create", "rtr"}, app : App]
      OBVIOUS
    <2>2. Exists(r.app) /\ Start(w, r)
      BY <1>7 DEF PostRtr
    <2> HIDE DEF r
    <2> QED
      BY <1>1, <2>1, <2>2, StartOther
  <1>8. ASSUME NEW to \in Stages, PatchStage(w, a, to)
        PROVE  Base'
    <2>1. row[a].version \in 1 .. MaxVersion - 1 /\ row[a].version <= row[a].version
      <3>1. Exists(a)
        BY <1>8 DEF PatchStage, Legal, Exists, Stages
      <3> QED
        BY <1>3, <1>8, <3>1, PipelineAssumption DEF PatchStage, Row, Base, Numbered
    <2>2. Legal(row[a], to, TRUE)
      BY <1>8 DEF PatchStage, Legal, Close
    <2> QED
      BY <1>4, <1>8, <2>1, <2>2 DEF PatchStage
  <1>9. ASSUME NEW to \in Stages, NEW v \in Expected(a), PostTransition(w, a, to, v)
        PROVE  Base'
    BY <1>4, <1>5, <1>9 DEF PostTransition
  <1>10. ASSUME NEW to \in EvalTargets, NEW v \in Expected(a),
                PostEvaluation(w, a, to, v)
         PROVE  Base'
    BY <1>4, <1>5, <1>10 DEF PostEvaluation, EvalTargets, Stages
  <1> QED
    BY <1>1, <1>2, <1>6, <1>7, <1>8, <1>9, <1>10

\* A commit that changes a row leaves it a row no request is misled about.
LEMMA MovedBase ==
  ASSUME Base, NEW a \in App, NEW to \in Stages, Moved(a, to),
         TypeOK', \A w \in Worker : req'[w] \in {req[w], Idle}
  PROVE  Base'
  <1>1. row[a] \in Row /\ \A b \in App : row[b] \in Row
    BY DEF Base, TypeOK
  <1>2. /\ row'[a] = [stage |-> to, version |-> row[a].version + 1,
                      hold |-> HoldAfter(row[a].hold, row[a], to), rtr |-> row[a].rtr]
        /\ \A b \in App \ {a} : row'[b] = row[b]
    BY DEF Moved, Base, TypeOK
  <1>3. row'[a].version = row[a].version + 1 /\ row[a].version \in Nat
    BY <1>1, <1>2 DEF Row
  <1>4. Grows
    <2> SUFFICES ASSUME NEW b \in App
                 PROVE  /\ row[b].version <= row'[b].version
                        /\ row[b].version = row'[b].version /\ Exists(b) =>
                             row[b].stage = row'[b].stage /\ row[b].hold = row'[b].hold
                        /\ row[b].rtr => row'[b].rtr
                        /\ Exists(b) => Exists(b)'
      BY DEF Grows
    <2>1. CASE b = a
      BY <1>2, <1>3, <2>1 DEF Exists, Stages
    <2>2. CASE b # a
      BY <1>1, <1>2, <2>2 DEF Row, Exists
    <2> QED
      BY <2>1, <2>2
  <1>5. Numbered'
    BY <1>1, <1>2, <1>3 DEF Base, Numbered, Exists, Stages, Moved
  <1> QED
    BY <1>4, <1>5, SnapshotsSurvive DEF Base

LEMMA RespondBase ==
  ASSUME HonestCallers, Base, NEW w \in Worker, Respond(w)
  PROVE  Base' /\ Effect
  <1>1. \A v \in Worker : req'[v] \in {req[v], Idle}
    BY DEF Respond, CommitApplication, RefuseDuplicate, CommitRtr, CommitMove,
           CommitEvaluation, RefuseStale, Die, Finish, Base, TypeOK
  <1>2. req' \in [Worker -> Requests]
    BY DEF Respond, CommitApplication, RefuseDuplicate, CommitRtr, CommitMove,
           CommitEvaluation, RefuseStale, Die, Finish, Base, TypeOK, Requests
  <1>3. \A a \in App : row[a] \in Row
    BY DEF Base, TypeOK
  <1>4. CASE UNCHANGED <<row, journal, evals, consents>>
    <2>1. TypeOK' /\ Quiet /\ Numbered'
      BY <1>2, <1>4 DEF Base, TypeOK, Quiet, Numbered, Exists
    <2>2. Grows
      BY <1>3, <1>4 DEF Grows, Row, Exists
    <2> QED
      BY <1>1, <2>1, <2>2, SnapshotsSurvive DEF Base, Effect
  <1>5. CASE CommitApplication(w)
    <2> DEFINE a == req[w].app
    <2>1. a \in App
      <3>1. req[w] \in Requests /\ req[w].op = "create"
        BY <1>5 DEF Base, TypeOK, CommitApplication
      <3> QED
        BY <3>1 DEF Requests, Idle, WriteRequest
    <2>2. Born(a)
      BY <1>5 DEF CommitApplication, Born
    <2>3. row[a].version = 0 /\ row[a].rtr = FALSE
      BY <2>1, <2>2 DEF Base, Numbered, Born, NoRow
    <2>4. /\ row'[a] = NewRow
          /\ \A b \in App \ {a} : row'[b] = row[b]
      BY <2>1, <2>2 DEF Born, Base, TypeOK
    <2>5. TypeOK'
      <3>1. row'[a] \in Row
        BY <2>4, PipelineAssumption DEF NewRow, Row, Stages
      <3>2. row' \in [App -> Row]
        BY <2>1, <2>2, <3>1, <2>4 DEF Born, Base, TypeOK
      <3> QED
        BY <1>2, <1>5, <3>2 DEF CommitApplication, Base, TypeOK
    <2>6. Grows
      <3> SUFFICES ASSUME NEW b \in App
                   PROVE  /\ row[b].version <= row'[b].version
                          /\ row[b].version = row'[b].version /\ Exists(b) =>
                               row[b].stage = row'[b].stage /\ row[b].hold = row'[b].hold
                          /\ row[b].rtr => row'[b].rtr
                          /\ Exists(b) => Exists(b)'
        BY DEF Grows
      <3>1. CASE b = a
        BY <2>2, <2>3, <2>4, <3>1 DEF Exists, Born, NewRow
      <3>2. CASE b # a
        BY <1>3, <2>4, <3>2 DEF Row, Exists
      <3> QED
        BY <3>1, <3>2
    <2>7. Numbered'
      BY <2>4 DEF Base, Numbered, Exists, NewRow
    <2> QED
      BY <1>1, <2>1, <2>2, <2>5, <2>6, <2>7, SnapshotsSurvive DEF Base, Effect
  <1>6. CASE CommitRtr(w)
    <2> DEFINE a == req[w].app
    <2>1. a \in App
      <3>1. req[w] \in Requests /\ req[w].op = "rtr"
        BY <1>6 DEF Base, TypeOK, CommitRtr
      <3> QED
        BY <3>1 DEF Requests, Idle, WriteRequest
    <2>2. Consented(a)
      BY <1>6 DEF CommitRtr, Consented, Base, Snapshots, Exists
    <2>3. /\ row'[a] = [row[a] EXCEPT !.rtr = TRUE]
          /\ \A b \in App \ {a} : row'[b] = row[b]
      BY <2>1, <2>2 DEF Consented, Base, TypeOK
    <2>4. /\ row'[a].stage = row[a].stage /\ row'[a].version = row[a].version
          /\ row'[a].hold = row[a].hold /\ row'[a].rtr
          /\ row'[a] \in Row
      BY <1>3, <2>1, <2>3 DEF Row
    <2>5. TypeOK'
      <3>1. row' \in [App -> Row]
        BY <2>1, <2>2, <2>3, <2>4 DEF Consented, Base, TypeOK
      <3>2. consents' \in [App -> Nat]
        BY <2>1, <2>2 DEF Consented, Base, TypeOK
      <3> QED
        BY <1>2, <1>6, <3>1, <3>2 DEF CommitRtr, Base, TypeOK
    <2>6. Grows
      <3> SUFFICES ASSUME NEW b \in App
                   PROVE  /\ row[b].version <= row'[b].version
                          /\ row[b].version = row'[b].version /\ Exists(b) =>
                               row[b].stage = row'[b].stage /\ row[b].hold = row'[b].hold
                          /\ row[b].rtr => row'[b].rtr
                          /\ Exists(b) => Exists(b)'
        BY DEF Grows
      <3>1. CASE b = a
        BY <1>3, <2>4, <3>1 DEF Exists, Row
      <3>2. CASE b # a
        BY <1>3, <2>3, <3>2 DEF Row, Exists
      <3> QED
        BY <3>1, <3>2
    <2>7. Numbered'
      BY <2>1, <2>2, <2>3, <2>4 DEF Base, Numbered, Exists, Consented
    <2> QED
      BY <1>1, <2>1, <2>2, <2>5, <2>6, <2>7, SnapshotsSurvive DEF Base, Effect
  <1>7. ASSUME Writing(w), WriteStage(w), consents' = consents,
               evals' \in [App -> [EvalTargets -> Nat]]
        PROVE  Base' /\ Effect
    <2> DEFINE a == req[w].app
               to == req[w].to
    <2>1. a \in App /\ to \in Stages /\ Moved(a, to)
      BY <1>7, CommitsWhatItSaw DEF Moved
    <2>2. HoldAfter(row[a].hold, row[a], to) \in Stages \cup {NoStage}
      <3>1. row[a] \in Row /\ row[a].stage \in Stages
        BY <2>1 DEF Base, TypeOK, Moved, Legal
      <3> QED
        BY <2>1, <3>1 DEF HoldAfter, Row
    <2>3. TypeOK'
      <3>1. row[a].version + 1 \in 0 .. MaxVersion /\ row[a].rtr \in BOOLEAN
        BY <1>3, <2>1, PipelineAssumption DEF Moved, Row
      <3>2. row' \in [App -> Row]
        BY <2>1, <2>2, <3>1 DEF Moved, Base, TypeOK, Row
      <3>3. [from |-> row[a].stage, to |-> to] \in Entry
        BY <2>1 DEF Moved, Legal, Entry
      <3>4. journal' \in [App -> Seq(Entry)]
        BY <2>1, <3>3 DEF Moved, Base, TypeOK
      <3> QED
        BY <1>2, <1>7, <3>2, <3>4 DEF Base, TypeOK
    <2> HIDE DEF a, to
    <2> QED
      BY <1>1, <2>1, <2>3, MovedBase DEF Effect
  <1>8. CASE CommitMove(w)
    BY <1>7, <1>8 DEF CommitMove, Writing, Base, TypeOK
  <1>9. CASE CommitEvaluation(w)
    <2>1. req[w].app \in App
      BY <1>9, WritingRequest DEF CommitEvaluation, Writing, Base
    <2>2. evals' \in [App -> [EvalTargets -> Nat]]
      <3> DEFINE a == req[w].app
                 more == [evals[a] EXCEPT ![req[w].to] = @ + 1]
      <3>1. evals[a] \in [EvalTargets -> Nat]
        BY <2>1 DEF Base, TypeOK
      <3>2. more \in [EvalTargets -> Nat]
        <4>1. DOMAIN more = EvalTargets /\ more = [t \in EvalTargets |-> more[t]]
          BY <3>1
        <4>2. \A t \in EvalTargets : more[t] = evals[a][t] \/ more[t] = evals[a][t] + 1
          BY <3>1
        <4>3. \A t \in EvalTargets : evals[a][t] \in Nat
          BY <3>1
        <4> HIDE DEF more
        <4>4. \A t \in EvalTargets : more[t] \in Nat
          BY <4>2, <4>3
        <4> QED
          BY <4>1, <4>4
      <3>3. evals' = [evals EXCEPT ![a] = more]
        BY <1>9 DEF CommitEvaluation
      <3> HIDE DEF more
      <3> QED
        BY <3>2, <3>3 DEF Base, TypeOK
    <2> QED
      BY <1>7, <1>9, <2>2 DEF CommitEvaluation, Writing
  <1> QED
    BY <1>4, <1>5, <1>6, <1>8, <1>9 DEF Respond, RefuseDuplicate, RefuseStale, Die

LEMMA BaseStep ==
  ASSUME HonestCallers, Base, [Next]_vars
  PROVE  Base' /\ Effect
  <1>1. CASE UNCHANGED vars
    BY <1>1 DEF vars, Base, TypeOK, Snapshots, Numbered, Writing, Exists, Effect, Quiet
  <1>2. CASE Next
    BY <1>2, RequestBase, RespondBase DEF Next, Effect
  <1> QED
    BY <1>1, <1>2

-----------------------------------------------------------------------------
(* The invariants, each against the four effects a step can have.          *)

\* What a move does to the one row it is about, and to no other.
LEMMA MoveChanges ==
  ASSUME Base, NEW a \in App, NEW to \in Stages, Moved(a, to)
  PROVE  /\ Exists(a) /\ row[a].version \in Nat
         /\ row'[a].stage = to
         /\ row'[a].version = row[a].version + 1
         /\ row'[a].hold = HoldAfter(row[a].hold, row[a], to)
         /\ row'[a].rtr = row[a].rtr
         /\ journal[a] \in Seq(Entry)
         /\ row[a].stage \in Stages \ Terminal
         /\ journal'[a] = Append(journal[a], [from |-> row[a].stage, to |-> to])
         /\ \A b \in App \ {a} : row'[b] = row[b] /\ journal'[b] = journal[b]
  BY DEF Base, TypeOK, Moved, Exists, Legal, Stages

LEMMA BornChanges ==
  ASSUME Base, NEW a \in App, Born(a)
  PROVE  /\ row'[a] = NewRow
         /\ journal' = journal
         /\ \A b \in App \ {a} : row'[b] = row[b]
  BY DEF Base, TypeOK, Born

LEMMA ConsentChanges ==
  ASSUME Base, NEW a \in App, Consented(a)
  PROVE  /\ row'[a].stage = row[a].stage /\ row'[a].version = row[a].version
         /\ row'[a].hold = row[a].hold /\ row'[a].rtr
         /\ journal' = journal /\ Exists(a)
         /\ consents'[a] = consents[a] + 1
         /\ \A b \in App \ {a} : row'[b] = row[b] /\ consents'[b] = consents[b]
  BY DEF Base, TypeOK, Consented, Row

JournalOf(b) ==
  IF Exists(b)
  THEN /\ row[b].version = Len(journal[b]) + 1
       /\ row[b].stage = StageAfter(b, Len(journal[b]))
       /\ \A i \in Moves(b) : journal[b][i].from = StageAfter(b, i - 1)
  ELSE journal[b] = <<>>

LEMMA JournalStep ==
  ASSUME Base, Effect, JournalComplete
  PROVE  JournalComplete'
  <1>1. \A b \in App : JournalOf(b)
    BY DEF JournalComplete, JournalOf
  <1> SUFFICES ASSUME NEW b \in App
               PROVE  JournalOf(b)'
    BY DEF JournalComplete, JournalOf
  <1>2. ASSUME journal'[b] = journal[b], row'[b].stage = row[b].stage,
               row'[b].version = row[b].version
        PROVE  JournalOf(b)'
    BY <1>1, <1>2 DEF JournalOf, Exists, Moves, StageAfter
  <1>3. CASE Quiet
    BY <1>2, <1>3 DEF Quiet
  <1>4. ASSUME NEW a \in App, Born(a)
        PROVE  JournalOf(b)'
    <2>1. CASE b # a
      BY <1>2, <1>4, <2>1, BornChanges
    <2>2. CASE b = a
      <3>1. journal[b] = <<>>
        BY <1>1, <1>4, <2>2 DEF JournalOf, Born
      <3>2. Len(journal[b]) = 0 /\ journal'[b] = journal[b] /\ row'[b] = NewRow
        BY <1>4, <2>2, <3>1, BornChanges
      <3> QED
        BY <3>2 DEF JournalOf, Exists, NewRow, Moves, StageAfter
    <2> QED
      BY <2>1, <2>2
  <1>5. ASSUME NEW a \in App, Consented(a)
        PROVE  JournalOf(b)'
    BY <1>2, <1>5, ConsentChanges
  <1>6. ASSUME NEW a \in App, NEW to \in Stages, Moved(a, to)
        PROVE  JournalOf(b)'
    <2>1. CASE b # a
      BY <1>2, <1>6, <2>1, MoveChanges
    <2>2. CASE b = a
      <3> DEFINE e == [from |-> row[b].stage, to |-> to]
      <3>0. PICK n \in Nat : n = Len(journal[b])
        BY DEF Base, TypeOK
      <3>1. /\ Exists(b) /\ row'[b].stage = to /\ row[b].version \in Nat
            /\ row'[b].version = row[b].version + 1
            /\ journal[b] \in Seq(Entry) /\ journal'[b] = Append(journal[b], e)
        BY <1>6, <2>2, MoveChanges
      <3>2. e \in Entry
        BY <1>6, <2>2, MoveChanges DEF Entry
      <3>3. /\ n \in Nat /\ Len(journal'[b]) = n + 1
            /\ journal'[b][n + 1] = e
            /\ \A i \in 1 .. n : journal'[b][i] = journal[b][i]
        BY <3>0, <3>1, <3>2
      <3>4. /\ row[b].version = n + 1
            /\ row[b].stage = StageAfter(b, n)
            /\ \A i \in 1 .. n : journal[b][i].from = StageAfter(b, i - 1)
        BY <1>1, <3>0, <3>1 DEF JournalOf, Moves
      <3>5. \A i \in 0 .. n : StageAfter(b, i)' = StageAfter(b, i)
        BY <3>3 DEF StageAfter
      <3>6. StageAfter(b, n + 1)' = to
        BY <3>3 DEF StageAfter
      <3>7. \A i \in 1 .. n + 1 : journal'[b][i].from = StageAfter(b, i - 1)'
        <4> SUFFICES ASSUME NEW i \in 1 .. n + 1
                     PROVE  journal'[b][i].from = StageAfter(b, i - 1)'
          OBVIOUS
        <4>1. CASE i = n + 1
          BY <3>3, <3>4, <3>5, <4>1
        <4>2. CASE i \in 1 .. n
          BY <3>3, <3>4, <3>5, <4>2
        <4> QED
          BY <3>3, <4>1, <4>2
      <3>8. Exists(b)' /\ row'[b].version = n + 2
        BY <3>1, <3>3, <3>4 DEF Exists, Stages
      <3> QED
        BY <3>1, <3>3, <3>6, <3>7, <3>8 DEF JournalOf, Moves
    <2> QED
      BY <2>1, <2>2
  <1> QED
    BY <1>3, <1>4, <1>5, <1>6 DEF Effect

HoldOf(b) ==
  /\ row[b].stage = "on_hold" =>
       /\ row[b].hold = journal[b][Len(journal[b])].from
       /\ row[b].hold \in Stages \ (Terminal \cup {"on_hold"})
  /\ row[b].stage \notin Closing \cup {"on_hold"} => row[b].hold = NoStage

LEMMA HoldStep ==
  ASSUME Base, Effect, HoldRemembers
  PROVE  HoldRemembers'
  <1>1. \A b \in App : HoldOf(b)
    BY DEF HoldRemembers, HoldOf
  <1> SUFFICES ASSUME NEW b \in App
               PROVE  HoldOf(b)'
    BY DEF HoldRemembers, HoldOf
  <1>2. ASSUME journal'[b] = journal[b], row'[b].stage = row[b].stage,
               row'[b].hold = row[b].hold
        PROVE  HoldOf(b)'
    BY <1>1, <1>2 DEF HoldOf
  <1>3. CASE Quiet
    BY <1>2, <1>3 DEF Quiet
  <1>4. ASSUME NEW a \in App, Born(a)
        PROVE  HoldOf(b)'
    <2>1. CASE b # a
      BY <1>2, <1>4, <2>1, BornChanges
    <2>2. CASE b = a
      BY <1>4, <2>2, BornChanges DEF HoldOf, NewRow
    <2> QED
      BY <2>1, <2>2
  <1>5. ASSUME NEW a \in App, Consented(a)
        PROVE  HoldOf(b)'
    BY <1>2, <1>5, ConsentChanges
  <1>6. ASSUME NEW a \in App, NEW to \in Stages, Moved(a, to)
        PROVE  HoldOf(b)'
    <2>1. CASE b # a
      BY <1>2, <1>6, <2>1, MoveChanges
    <2>2. CASE b = a
      <3>1. /\ row'[b].stage = to
            /\ row'[b].hold = HoldAfter(row[b].hold, row[b], to)
            /\ journal'[b] = Append(journal[b], [from |-> row[b].stage, to |-> to])
            /\ journal[b] \in Seq(Entry)
            /\ row[b].stage \in Stages \ Terminal
        BY <1>6, <2>2, MoveChanges
      <3>2. [from |-> row[b].stage, to |-> to] \in Entry
        BY <3>1 DEF Entry
      <3>3. journal'[b][Len(journal'[b])].from = row[b].stage
        BY <3>1, <3>2
      <3>4. to = "on_hold" => row[b].stage # "on_hold"
        BY <1>6, <2>2 DEF Moved, Legal, Close, Hold, Reopen, Advance, Closing
      <3>5. CASE to = "on_hold"
        BY <3>1, <3>3, <3>4, <3>5 DEF HoldOf, HoldAfter
      <3>6. CASE to # "on_hold" /\ row[b].stage = "on_hold"
        BY <3>1, <3>6 DEF HoldOf, HoldAfter
      <3>7. CASE to # "on_hold" /\ row[b].stage # "on_hold"
        BY <1>1, <3>1, <3>7 DEF HoldOf, HoldAfter, Closing, Terminal
      <3> QED
        BY <3>5, <3>6, <3>7
    <2> QED
      BY <2>1, <2>2
  <1> QED
    BY <1>3, <1>4, <1>5, <1>6 DEF Effect

\* The gate needs to know besides that a recorded consent has its ledger row,
\* and what a closed application still remembers in hold_prior_stage.
GateOf(b) ==
  /\ {row[b].stage, row[b].hold} \cap Represented # {} => row[b].rtr
  /\ row[b].rtr => consents[b] > 0

Gate == \A b \in App : GateOf(b)

\* Only the gate leads to the client's side of the graph.
LEMMA Gateway ==
  ASSUME NEW s \in Stages, NEW t \in Represented \ {"submitted_to_client"},
         <<s, t>> \in Edges
  PROVE  s \in Represented
  BY DEF Represented, Edges

LEMMA GateStep ==
  ASSUME Base, Base', Effect, Gate
  PROVE  Gate'
  <1>1. \A b \in App : GateOf(b) /\ consents[b] \in Nat
    BY DEF Gate, Base, TypeOK
  <1> SUFFICES ASSUME NEW b \in App
               PROVE  GateOf(b)'
    BY DEF Gate
  <1>2. ASSUME row'[b] = row[b], consents'[b] = consents[b]
        PROVE  GateOf(b)'
    BY <1>1, <1>2 DEF GateOf
  <1>3. CASE Quiet
    BY <1>2, <1>3 DEF Quiet
  <1>4. ASSUME NEW a \in App, Born(a)
        PROVE  GateOf(b)'
    <2>1. CASE b # a
      BY <1>2, <1>4, <2>1, BornChanges DEF Born
    <2>2. CASE b = a
      BY <1>4, <2>2, BornChanges DEF GateOf, NewRow, Represented, NoStage
    <2> QED
      BY <2>1, <2>2
  <1>5. ASSUME NEW a \in App, Consented(a)
        PROVE  GateOf(b)'
    <2>1. CASE b # a
      BY <1>2, <1>5, <2>1, ConsentChanges
    <2>2. CASE b = a
      BY <1>1, <1>5, <2>2, ConsentChanges DEF GateOf
    <2> QED
      BY <2>1, <2>2
  <1>6. ASSUME NEW a \in App, NEW to \in Stages, Moved(a, to)
        PROVE  GateOf(b)'
    <2>0. consents' = consents
      BY <1>6 DEF Moved
    <2>1. CASE b # a
      BY <1>2, <1>6, <2>0, <2>1, MoveChanges
    <2>2. CASE b = a
      <3>1. /\ row'[b].stage = to
            /\ row'[b].hold = HoldAfter(row[b].hold, row[b], to)
            /\ row'[b].rtr = row[b].rtr
            /\ row[b].stage \in Stages \ Terminal
            /\ Legal(row[b], to, TRUE)
        BY <1>6, <2>2, MoveChanges DEF Moved
      <3>2. to \in Represented => row[b].rtr
        <4>1. CASE to = "submitted_to_client"
          BY <3>1, <4>1 DEF Legal
        <4>2. CASE to \in Represented \ {"submitted_to_client"} /\ Reopen(row[b], to)
          BY <1>1, <4>2 DEF Reopen, GateOf
        <4>3. CASE to \in Represented \ {"submitted_to_client"} /\ Advance(row[b], to)
          <5>1. row[b].stage \in Represented
            BY <3>1, <4>3, Gateway DEF Advance
          <5> QED
            BY <1>1, <5>1 DEF GateOf
        <4>4. to \notin Closing \cup {"on_hold"} => Reopen(row[b], to) \/ Advance(row[b], to)
          BY <3>1 DEF Legal, Close, Hold
        <4>5. to \in Represented => to \notin Closing \cup {"on_hold"}
          BY DEF Represented, Closing
        <4> QED
          BY <4>1, <4>2, <4>3, <4>4, <4>5
      <3>3. row'[b].hold \in {row[b].stage, row[b].hold, NoStage}
        BY <3>1 DEF HoldAfter
      <3>4. NoStage \notin Represented
        BY DEF NoStage, Represented
      <3>5. row'[b].hold \in Represented => row[b].rtr
        BY <1>1, <3>3, <3>4 DEF GateOf
      <3> QED
        BY <1>1, <2>0, <3>1, <3>2, <3>5 DEF GateOf
    <2> QED
      BY <2>1, <2>2
  <1> QED
    BY <1>3, <1>4, <1>5, <1>6 DEF Effect

\* Vetted, carried by every stage behind a round and through every hold.
BehindAptitude == Represented \cup {"aptitude_passed", "internal_interview",
                                    "internal_passed", "rtr_pending"}
BehindInternal == Represented \cup {"internal_passed", "rtr_pending"}

PassedAptitude(b) == \E i \in Moves(b) : journal[b][i].to = "aptitude_passed"

PassedBoth(b) == \E i, j \in Moves(b) : /\ i < j
                                        /\ journal[b][i].to = "aptitude_passed"
                                        /\ journal[b][j].to = "internal_passed"

VettedOf(b) ==
  /\ {row[b].stage, row[b].hold} \cap BehindAptitude # {} => PassedAptitude(b)
  /\ {row[b].stage, row[b].hold} \cap BehindInternal # {} => PassedBoth(b)

VettedInv == \A b \in App : VettedOf(b)

LEMMA Rounds ==
  ASSUME NEW s \in Stages, NEW t \in Stages, <<s, t>> \in Edges
  PROVE  /\ t \in BehindAptitude => s \in BehindAptitude \/ t = "aptitude_passed"
         /\ t \in BehindInternal =>
              \/ s \in BehindInternal
              \/ t = "internal_passed" /\ s \in BehindAptitude
  BY DEF BehindAptitude, BehindInternal, Represented, Edges

LEMMA VettedStep ==
  ASSUME Base, Effect, VettedInv
  PROVE  VettedInv'
  <1>1. \A b \in App : VettedOf(b)
    BY DEF VettedInv
  <1> SUFFICES ASSUME NEW b \in App
               PROVE  VettedOf(b)'
    BY DEF VettedInv
  <1>2. ASSUME journal'[b] = journal[b], row'[b].stage = row[b].stage,
               row'[b].hold = row[b].hold
        PROVE  VettedOf(b)'
    BY <1>1, <1>2 DEF VettedOf, PassedAptitude, PassedBoth, Moves
  <1>3. CASE Quiet
    BY <1>2, <1>3 DEF Quiet
  <1>4. ASSUME NEW a \in App, Born(a)
        PROVE  VettedOf(b)'
    <2>1. CASE b # a
      BY <1>2, <1>4, <2>1, BornChanges
    <2>2. CASE b = a
      BY <1>4, <2>2, BornChanges
      DEF VettedOf, NewRow, BehindAptitude, BehindInternal, Represented, NoStage
    <2> QED
      BY <2>1, <2>2
  <1>5. ASSUME NEW a \in App, Consented(a)
        PROVE  VettedOf(b)'
    BY <1>2, <1>5, ConsentChanges
  <1>6. ASSUME NEW a \in App, NEW to \in Stages, Moved(a, to)
        PROVE  VettedOf(b)'
    <2>1. CASE b # a
      BY <1>2, <1>6, <2>1, MoveChanges
    <2>2. CASE b = a
      <3> DEFINE e == [from |-> row[b].stage, to |-> to]
      <3>1. PICK n \in Nat : n = Len(journal[b])
        BY DEF Base, TypeOK
      <3>2. /\ row'[b].stage = to
            /\ row'[b].hold = HoldAfter(row[b].hold, row[b], to)
            /\ journal[b] \in Seq(Entry)
            /\ journal'[b] = Append(journal[b], e)
            /\ row[b].stage \in Stages \ Terminal
            /\ Legal(row[b], to, TRUE)
        BY <1>6, <2>2, MoveChanges DEF Moved
      <3>3. e \in Entry
        BY <3>2 DEF Entry
      <3>4. /\ Len(journal'[b]) = n + 1
            /\ journal'[b][n + 1].to = to
            /\ \A i \in 1 .. n : journal'[b][i] = journal[b][i]
        BY <3>1, <3>2, <3>3
      <3>5. PassedAptitude(b) => PassedAptitude(b)'
        BY <3>1, <3>4 DEF PassedAptitude, Moves
      <3>6. PassedBoth(b) => PassedBoth(b)'
        <4> SUFFICES ASSUME PassedBoth(b) PROVE PassedBoth(b)'
          OBVIOUS
        <4>1. PICK i \in 1 .. n, j \in 1 .. n : /\ i < j
                                              /\ journal[b][i].to = "aptitude_passed"
                                              /\ journal[b][j].to = "internal_passed"
          BY <3>1 DEF PassedBoth, Moves
        <4>2. i \in 1 .. n + 1 /\ j \in 1 .. n + 1
          OBVIOUS
        <4> QED
          BY <3>4, <4>1, <4>2 DEF PassedBoth, Moves
      <3>7. to = "aptitude_passed" => PassedAptitude(b)'
        BY <3>4 DEF PassedAptitude, Moves
      <3>8. to = "internal_passed" /\ PassedAptitude(b) => PassedBoth(b)'
        <4> SUFFICES ASSUME to = "internal_passed", PassedAptitude(b)
                     PROVE  PassedBoth(b)'
          OBVIOUS
        <4>1. PICK i \in 1 .. n : journal[b][i].to = "aptitude_passed"
          BY <3>1 DEF PassedAptitude, Moves
        <4>2. i < n + 1 /\ i \in 1 .. n + 1 /\ n + 1 \in 1 .. n + 1
          OBVIOUS
        <4> QED
          BY <3>4, <4>1, <4>2 DEF PassedBoth, Moves
      <3>9. NoStage \notin BehindAptitude \cup BehindInternal
        BY DEF NoStage, BehindAptitude, BehindInternal, Represented
      <3>10. row'[b].hold \in {row[b].stage, row[b].hold, NoStage}
        BY <3>2 DEF HoldAfter
      <3>11. /\ row'[b].hold \in BehindAptitude => PassedAptitude(b)
             /\ row'[b].hold \in BehindInternal => PassedBoth(b)
        BY <1>1, <3>9, <3>10 DEF VettedOf
      <3>12. \/ to \notin BehindAptitude \cup BehindInternal
             \/ to = row[b].hold
             \/ <<row[b].stage, to>> \in Edges
        BY <3>2 DEF Legal, Close, Hold, Reopen, Advance, BehindAptitude,
                    BehindInternal, Represented, Closing
      <3>13. /\ to \in BehindAptitude => PassedAptitude(b) \/ to = "aptitude_passed"
             /\ to \in BehindInternal =>
                  PassedBoth(b) \/ (to = "internal_passed" /\ PassedAptitude(b))
        <4>1. CASE to \notin BehindAptitude \cup BehindInternal
          BY <4>1
        <4>2. CASE to = row[b].hold
          BY <1>1, <4>2 DEF VettedOf
        <4>3. CASE <<row[b].stage, to>> \in Edges
          BY <1>1, <3>2, <4>3, Rounds DEF VettedOf
        <4> QED
          BY <3>12, <4>1, <4>2, <4>3
      <3> QED
        BY <3>2, <3>5, <3>6, <3>7, <3>8, <3>11, <3>13 DEF VettedOf
    <2> QED
      BY <2>1, <2>2
  <1> QED
    BY <1>3, <1>4, <1>5, <1>6 DEF Effect

-----------------------------------------------------------------------------
(* Evaluations are backed by the timeline: each is one entry's.            *)

Hits(s, t) == {i \in 1 .. Len(s) : s[i].to = t}

LEMMA HitsCounted ==
  ASSUME NEW s \in Seq(Entry), NEW t
  PROVE  IsFiniteSet(Hits(s, t)) /\ Cardinality(Hits(s, t)) \in Nat
  <1>1. Len(s) \in Nat
    OBVIOUS
  <1>2. IsFiniteSet(1 .. Len(s))
    BY <1>1, FS_Interval
  <1>3. Hits(s, t) \subseteq 1 .. Len(s)
    BY DEF Hits
  <1> QED
    BY <1>2, <1>3, FS_Subset, FS_CardinalityType

\* One more entry is one more hit, if it is one.
LEMMA HitsOfAppend ==
  ASSUME NEW s \in Seq(Entry), NEW e \in Entry, NEW t
  PROVE  /\ Cardinality(Hits(s, t)) <= Cardinality(Hits(Append(s, e), t))
         /\ e.to = t => Cardinality(Hits(Append(s, e), t)) = Cardinality(Hits(s, t)) + 1
  <1>1. PICK n \in Nat : n = Len(s)
    OBVIOUS
  <1>2. /\ Len(Append(s, e)) = n + 1
        /\ Append(s, e)[n + 1] = e
        /\ \A i \in 1 .. n : Append(s, e)[i] = s[i]
        /\ Append(s, e) \in Seq(Entry)
    BY <1>1
  <1>3. IsFiniteSet(Hits(s, t)) /\ Cardinality(Hits(s, t)) \in Nat
    BY HitsCounted
  <1>4. CASE e.to = t
    <2>1. Hits(Append(s, e), t) = Hits(s, t) \cup {n + 1}
      BY <1>1, <1>2, <1>4 DEF Hits
    <2>2. n + 1 \notin Hits(s, t)
      BY <1>1 DEF Hits
    <2>3. Cardinality(Hits(Append(s, e), t)) = Cardinality(Hits(s, t)) + 1
      BY <1>3, <2>1, <2>2, FS_AddElement
    <2> QED
      BY <1>3, <2>3
  <1>5. CASE e.to # t
    <2>1. Hits(Append(s, e), t) = Hits(s, t)
      BY <1>1, <1>2, <1>5 DEF Hits
    <2> QED
      BY <1>3, <1>5, <2>1
  <1> QED
    BY <1>4, <1>5

LEMMA BackedStep ==
  ASSUME Base, EvaluationsBacked, [Next]_vars
  PROVE  EvaluationsBacked'
  <1> SUFFICES ASSUME NEW a \in App, NEW t \in EvalTargets
               PROVE  evals'[a][t] <= Cardinality(Hits(journal'[a], t))
    BY DEF EvaluationsBacked, Moves, Hits
  <1>1. /\ journal[a] \in Seq(Entry)
        /\ evals \in [App -> [EvalTargets -> Nat]]
        /\ evals[a][t] \in Nat
    BY DEF Base, TypeOK
  <1>2. evals[a][t] <= Cardinality(Hits(journal[a], t))
    BY DEF EvaluationsBacked, Moves, Hits
  <1>3. CASE UNCHANGED <<journal, evals>>
    BY <1>2, <1>3
  <1>4. ASSUME NEW w \in Worker, Writing(w), WriteStage(w)
        PROVE  \/ /\ journal'[a] = journal[a]
                  /\ a # req[w].app
               \/ \E e \in Entry : /\ journal'[a] = Append(journal[a], e)
                                   /\ a = req[w].app
                                   /\ e.to = req[w].to
    <2> DEFINE e == [from |-> row[a].stage, to |-> req[w].to]
    <2>1. /\ req[w].to \in Stages
          /\ row[req[w].app].stage \in Stages
          /\ journal' = [journal EXCEPT ![req[w].app] =
                Append(@, [from |-> row[req[w].app].stage, to |-> req[w].to])]
      BY <1>4, CommitsWhatItSaw DEF Legal
    <2>2. CASE a # req[w].app
      BY <2>1, <2>2 DEF Base, TypeOK
    <2>3. CASE a = req[w].app
      <3>1. journal'[a] = Append(journal[a], e)
        BY <2>1, <2>3 DEF Base, TypeOK
      <3>2. e \in Entry
        BY <2>1, <2>3 DEF Entry
      <3> QED
        BY <2>3, <3>1, <3>2
    <2> QED
      BY <2>2, <2>3
  <1>5. ASSUME NEW w \in Worker, CommitMove(w)
        PROVE  evals'[a][t] <= Cardinality(Hits(journal'[a], t))
    <2>1. Writing(w) /\ WriteStage(w) /\ evals' = evals
      BY <1>5 DEF CommitMove, Writing
    <2>2. CASE journal'[a] = journal[a]
      BY <1>2, <2>1, <2>2
    <2>3. ASSUME NEW e \in Entry, journal'[a] = Append(journal[a], e)
          PROVE  evals'[a][t] <= Cardinality(Hits(journal'[a], t))
      <3>1. Cardinality(Hits(journal[a], t)) <= Cardinality(Hits(journal'[a], t))
        BY <1>1, <2>3, HitsOfAppend
      <3>2. journal'[a] \in Seq(Entry)
        BY <1>1, <2>3
      <3>3. /\ Cardinality(Hits(journal[a], t)) \in Nat
            /\ Cardinality(Hits(journal'[a], t)) \in Nat
        BY <1>1, <3>2, HitsCounted
      <3> QED
        BY <1>1, <1>2, <2>1, <3>1, <3>3
    <2> QED
      BY <1>4, <2>1, <2>2, <2>3
  <1>6. ASSUME NEW w \in Worker, CommitEvaluation(w)
        PROVE  evals'[a][t] <= Cardinality(Hits(journal'[a], t))
    <2>1. /\ Writing(w) /\ WriteStage(w)
          /\ evals' = [evals EXCEPT ![req[w].app][req[w].to] = @ + 1]
      BY <1>6 DEF CommitEvaluation, Writing
    <2>2. CASE a # req[w].app
      <3>1. journal'[a] = journal[a]
        BY <1>4, <2>1, <2>2
      <3> QED
        BY <1>1, <1>2, <2>1, <2>2, <3>1
    <2>3. CASE a = req[w].app
      <3>1. PICK e \in Entry : journal'[a] = Append(journal[a], e) /\ e.to = req[w].to
        BY <1>4, <2>1, <2>3
      <3>2. evals'[a][t] = IF t = e.to THEN evals[a][t] + 1 ELSE evals[a][t]
        BY <1>1, <2>1, <2>3, <3>1
      <3>3. /\ Cardinality(Hits(journal[a], t)) <= Cardinality(Hits(journal'[a], t))
            /\ e.to = t =>
                 Cardinality(Hits(journal'[a], t)) = Cardinality(Hits(journal[a], t)) + 1
        BY <1>1, <3>1, HitsOfAppend
      <3>4. journal'[a] \in Seq(Entry)
        BY <1>1, <3>1
      <3>5. /\ Cardinality(Hits(journal[a], t)) \in Nat
            /\ Cardinality(Hits(journal'[a], t)) \in Nat
        BY <1>1, <3>4, HitsCounted
      <3> QED
        BY <1>1, <1>2, <3>2, <3>3, <3>5
    <2> QED
      BY <2>2, <2>3
  <1> QED
    BY <1>3, <1>5, <1>6
    DEF Next, vars, Request, Respond, PostApplication, PostRtr, PatchStage,
        PostTransition, PostEvaluation, Start, CommitApplication, RefuseDuplicate,
        CommitRtr, RefuseStale, Die

-----------------------------------------------------------------------------
(* The invariant of the specification and what follows from it.            *)

IInv == /\ Base
        /\ JournalComplete
        /\ HoldRemembers
        /\ Gate
        /\ VettedInv
        /\ EvaluationsBacked

LEMMA IInvInit == Init => IInv
  <1> SUFFICES ASSUME Init PROVE IInv
    OBVIOUS
  <1>1. Base
    BY BaseInit
  <1>2. JournalComplete
    BY DEF Init, JournalComplete, Exists, NoRow
  <1>3. HoldRemembers
    BY DEF Init, HoldRemembers, NoRow
  <1>4. Gate
    BY DEF Init, Gate, GateOf, NoRow, NoStage, Represented
  <1>5. VettedInv
    BY DEF Init, VettedInv, VettedOf, NoRow, NoStage, BehindAptitude,
           BehindInternal, Represented
  <1>6. EvaluationsBacked
    <2> SUFFICES ASSUME NEW a \in App, NEW t \in EvalTargets
                 PROVE  0 <= Cardinality(Hits(<<>>, t))
      BY DEF Init, EvaluationsBacked, Moves, Hits
    <2>1. <<>> \in Seq(Entry)
      OBVIOUS
    <2>2. Cardinality(Hits(<<>>, t)) \in Nat
      BY <2>1, HitsCounted
    <2> QED
      BY <2>2
  <1> QED
    BY <1>1, <1>2, <1>3, <1>4, <1>5, <1>6 DEF IInv

LEMMA IInvStep ==
  ASSUME HonestCallers, IInv, [Next]_vars
  PROVE  IInv'
  BY BaseStep, JournalStep, HoldStep, GateStep, VettedStep, BackedStep DEF IInv

LEMMA Invariance ==
  ASSUME HonestCallers
  PROVE  Spec => []IInv
  BY IInvInit, IInvStep, HonestCallers, PTL DEF Spec

\* Type correctness of applications, requests and the rows they write.
THEOREM TypeCorrect ==
  ASSUME HonestCallers
  PROVE  Spec => []TypeOK
  <1>1. IInv => TypeOK
    BY DEF IInv, Base
  <1> QED
    BY <1>1, Invariance, HonestCallers, PTL

\* However requests interleave, the timeline of an application is an unbroken
\* chain from applied to the stored stage, one entry per version: of two
\* movers that loaded the same version one at most wins (pipeline.py:24-28).
THEOREM TimelineUnbroken ==
  ASSUME HonestCallers
  PROVE  Spec => []JournalComplete
  <1>1. IInv => JournalComplete
    BY DEF IInv
  <1> QED
    BY <1>1, Invariance, HonestCallers, PTL

\* A hold remembers the stage it was entered from and nothing else does, so
\* a reopened application continues exactly where it was held.
THEOREM HoldsReopenInPlace ==
  ASSUME HonestCallers
  PROVE  Spec => []HoldRemembers
  <1>1. IInv => HoldRemembers
    BY DEF IInv
  <1> QED
    BY <1>1, Invariance, HonestCallers, PTL

\* Nobody is represented to a client without recorded right-to-represent
\* consent (the gate of transition(), read from a possibly stale row).
THEOREM RepresentedWithConsent ==
  ASSUME HonestCallers
  PROVE  Spec => []NeverRepresentedWithoutConsent
  <1>1. IInv => NeverRepresentedWithoutConsent
    BY DEF IInv, Gate, GateOf, NeverRepresentedWithoutConsent
  <1> QED
    BY <1>1, Invariance, HonestCallers, PTL

\* No shortcut: whoever is represented passed both internal rounds in order.
THEOREM RepresentedVetted ==
  ASSUME HonestCallers
  PROVE  Spec => []Vetted
  <1>1. IInv => Vetted
    BY DEF IInv, VettedInv, VettedOf, PassedBoth, BehindInternal, Vetted
  <1> QED
    BY <1>1, Invariance, HonestCallers, PTL

\* A verdict is recorded only together with the stage change it drives: a
\* refused or lost move leaves no evaluation behind.
THEOREM VerdictsBacked ==
  ASSUME HonestCallers
  PROVE  Spec => []EvaluationsBacked
  <1>1. IInv => EvaluationsBacked
    BY DEF IInv
  <1> QED
    BY <1>1, Invariance, HonestCallers, PTL

\* No request, however stale, moves an application out of a terminal stage.
THEOREM TerminalIsFinal ==
  ASSUME HonestCallers
  PROVE  Spec => ClosedForGood
  <1>1. ASSUME IInv, [Next]_vars
        PROVE  [\A a \in App : row[a].stage \in Terminal =>
                  row'[a].stage = row[a].stage]_vars
    <2> SUFFICES ASSUME NEW a \in App, row[a].stage \in Terminal
                 PROVE  row'[a].stage = row[a].stage
      OBVIOUS
    <2>1. Base /\ Effect
      BY <1>1, BaseStep DEF IInv
    <2>2. Exists(a)
      BY DEF Exists, Terminal
    <2>3. ASSUME NEW b \in App, Born(b)
          PROVE  row'[a].stage = row[a].stage
      BY <2>1, <2>2, <2>3, BornChanges DEF Born
    <2>4. ASSUME NEW b \in App, Consented(b)
          PROVE  row'[a].stage = row[a].stage
      BY <2>1, <2>4, ConsentChanges
    <2>5. ASSUME NEW b \in App, NEW to \in Stages, Moved(b, to)
          PROVE  row'[a].stage = row[a].stage
      BY <2>1, <2>5, MoveChanges
    <2> QED
      BY <2>1, <2>3, <2>4, <2>5 DEF Effect, Quiet
  <1> QED
    BY <1>1, Invariance, HonestCallers, PTL DEF Spec, ClosedForGood

\* The requests implement ApplicationLife: a commit is one legal move of one
\* application, and every other step is invisible.
THEOREM ImplementsApplicationLife ==
  ASSUME HonestCallers
  PROVE  Spec => ImplementsLife
  <1> DEFINE life == [a \in App |-> [stage |-> row[a].stage, hold |-> row[a].hold,
                                    rtr |-> row[a].rtr]]
  <1>1. Init => Life!Init
    BY DEF Init, NoRow, Life!Init, Life!Unborn, NoStage, Life!NoStage
  <1>2. ASSUME IInv, [Next]_vars
        PROVE  [Life!Next]_life
    <2>1. Base /\ Effect
      BY <1>2, BaseStep DEF IInv
    <2>2. CASE Quiet
      BY <2>2 DEF Quiet
    <2>3. ASSUME NEW a \in App, Born(a)
          PROVE  Life!Next
      <3>1. life[a].stage = "unborn"
        BY <2>3 DEF Born, Exists
      <3>2. row'[a] = NewRow /\ \A b \in App \ {a} : row'[b] = row[b]
        BY <2>1, <2>3, BornChanges
      <3>3. life' = [life EXCEPT ![a] = [stage |-> "applied", hold |-> NoStage, rtr |-> FALSE]]
        <4>1. /\ row'[a].stage = "applied" /\ row'[a].hold = NoStage
              /\ row'[a].rtr = FALSE
          BY <3>2 DEF NewRow
        <4> QED
          BY <3>2, <4>1
      <3> QED
        BY <3>1, <3>3 DEF Life!Next, Life!Apply, Life!Become, NoStage, Life!NoStage
    <2>4. ASSUME NEW a \in App, Consented(a)
          PROVE  Life!Next
      <3>1. life[a].stage \in Stages
        BY <2>1, <2>4 DEF Consented, Exists, Base, TypeOK, Row
      <3>2. row'[a].rtr = TRUE
        BY <2>1, <2>4 DEF Consented, Base, TypeOK, Row
      <3>3. /\ row'[a].stage = row[a].stage /\ row'[a].hold = row[a].hold
            /\ \A b \in App \ {a} : row'[b] = row[b]
        BY <2>1, <2>4, ConsentChanges
      <3>4. life' = [life EXCEPT ![a] = [stage |-> life[a].stage, hold |-> life[a].hold,
                                         rtr |-> TRUE]]
        BY <3>2, <3>3
      <3> QED
        BY <3>1, <3>4 DEF Life!Next, Life!Consent, Life!Become, Stages, Life!Stages
    <2>5. ASSUME NEW a \in App, NEW to \in Stages, Moved(a, to)
          PROVE  Life!Next
      <3> DEFINE h == HoldAfter(row[a].hold, row[a], to)
      <3>1. /\ row'[a].stage = to /\ row'[a].hold = h /\ row'[a].rtr = row[a].rtr
            /\ \A b \in App \ {a} : row'[b] = row[b]
        BY <2>1, <2>5, MoveChanges
      <3>2. h = Life!HoldAfter(life[a].hold, life[a], to)
        BY DEF HoldAfter, Life!HoldAfter, Closing, Life!Closing, NoStage, Life!NoStage
      <3>3. Life!Legal(life[a], to, TRUE)
        BY <2>5 DEF Moved, Legal, Close, Hold, Reopen, Advance, Stages, Terminal,
           Closing, Edges, NoStage, Life!Legal, Life!Close, Life!Hold, Life!Reopen,
           Life!Advance, Life!Stages, Life!Terminal, Life!Closing, Life!Edges,
           Life!NoStage
      <3> HIDE DEF h
      <3>4. life' = [life EXCEPT ![a] = [stage |-> to, hold |-> h, rtr |-> life[a].rtr]]
        BY <3>1
      <3>5. Life!Move(a, to)
        BY <3>2, <3>3, <3>4 DEF Life!Move, Life!Become
      <3>6. to \in Life!Stages
        BY DEF Stages, Life!Stages
      <3> QED
        BY <3>5, <3>6 DEF Life!Next
    <2> QED
      BY <2>1, <2>2, <2>3, <2>4, <2>5 DEF Effect
  <1> QED
    BY <1>1, <1>2, Invariance, HonestCallers, PTL DEF Spec, ImplementsLife, Life!Spec

-----------------------------------------------------------------------------
(* Merges.                                                                 *)

\* Nobody leaves C by the merges that made R of the candidates go.
Settled(R, C) == \A r \in Review : Loser(r) \in R /\ Loser(r) \in C => Survivor(r) \in C

\* With R gone, who was x before the merges is now y, or was y on the way.
Became(R, x, y) == \A C \in SUBSET Cand : x \in C /\ Settled(R, C) => y \in C

\* Merged into one person.
Together(R, a, b) == \E n \in Cand : Became(R, Home[a], n) /\ Became(R, Home[b], n)

-----------------------------------------------------------------------------
(* Merges lead every candidate to one other, and never back.               *)

LEMMA Reviewed ==
  ASSUME NEW r \in Review
  PROVE  Loser(r) \in Cand /\ Survivor(r) \in Cand /\ Loser(r) # Survivor(r)
  <1>1. r \in Cand \X Cand
    BY MergeAssumption
  <1>2. r[1] \in Cand /\ r[2] \in Cand
    BY <1>1
  <1>3. {r[1]} \in (SUBSET Cand) \ {{}}
    BY <1>2
  <1>4. r[2] \notin {r[1]}
    BY <1>3, MergeAssumption
  <1> QED
    BY <1>2, <1>4 DEF Loser, Survivor

LEMMA OneReview ==
  ASSUME NEW r \in Review, NEW t \in Review, Loser(r) = Loser(t)
  PROVE  r = t
  BY MergeAssumption DEF Loser

LEMMA BecameItself == \A R : \A x \in Cand : Became(R, x, x)
  BY DEF Became

LEMMA BecameOn ==
  ASSUME NEW R, NEW x \in Cand, NEW y \in Cand, NEW z \in Cand, Became(R, x, y), Became(R, y, z)
  PROVE  Became(R, x, z)
  BY DEF Became

LEMMA BecameSurvivor ==
  ASSUME NEW R, NEW r \in Review, Loser(r) \in R
  PROVE  Became(R, Loser(r), Survivor(r))
  BY DEF Became, Settled

\* Whoever became somebody else was first merged into a survivor.
LEMMA FirstMerge ==
  ASSUME NEW R, NEW x \in Cand, NEW y \in Cand, x # y, Became(R, x, y)
  PROVE  \E r \in Review : Loser(r) = x /\ x \in R /\ Became(R, Survivor(r), y)
  <1>1. SUFFICES ASSUME \A r \in Review : Loser(r) = x /\ x \in R => ~Became(R, Survivor(r), y)
                 PROVE  FALSE
    OBVIOUS
  <1>2. CASE \E r \in Review : Loser(r) = x /\ x \in R
    <2>1. PICK r \in Review : Loser(r) = x /\ x \in R
      BY <1>2
    <2>2. PICK C \in SUBSET Cand : Survivor(r) \in C /\ Settled(R, C) /\ y \notin C
      BY <1>1, <2>1 DEF Became
    <2>3. Settled(R, C \cup {x})
      <3>1. ASSUME NEW t \in Review, Loser(t) \in R, Loser(t) \in C \cup {x}
            PROVE  Survivor(t) \in C \cup {x}
        <4>1. CASE Loser(t) = x
          BY <2>1, <2>2, <4>1, OneReview
        <4>2. CASE Loser(t) \in C
          BY <2>2, <3>1, <4>2 DEF Settled
        <4> QED
          BY <3>1, <4>1, <4>2
      <3> QED
        BY <3>1 DEF Settled
    <2>4. C \cup {x} \in SUBSET Cand /\ x \in C \cup {x} /\ y \notin C \cup {x}
      BY <2>2
    <2> QED
      BY <2>3, <2>4 DEF Became
  <1>3. CASE ~\E r \in Review : Loser(r) = x /\ x \in R
    <2>1. Settled(R, {x})
      BY <1>3 DEF Settled
    <2>2. {x} \in SUBSET Cand /\ x \in {x} /\ y \notin {x}
      OBVIOUS
    <2> QED
      BY <2>1, <2>2 DEF Became
  <1> QED
    BY <1>2, <1>3

\* Of two that somebody became, one became the other.
LEMMA OneWay ==
  ASSUME NEW R, NEW x \in Cand, NEW y \in Cand, NEW z \in Cand, Became(R, x, y), Became(R, x, z)
  PROVE  Became(R, y, z) \/ Became(R, z, y)
  <1> PICK C : C = {c \in Cand : Became(R, c, y) \/ Became(R, y, c)}
    OBVIOUS
  <1>1. ASSUME NEW r \in Review, Loser(r) \in R, Loser(r) \in C
        PROVE  Survivor(r) \in C
    <2>1. /\ Loser(r) \in Cand /\ Survivor(r) \in Cand /\ Became(R, Loser(r), Survivor(r))
          /\ Became(R, Loser(r), y) \/ Became(R, y, Loser(r))
      BY <1>1, Reviewed, BecameSurvivor
    <2>2. CASE Became(R, y, Loser(r))
      BY <2>1, <2>2, BecameOn
    <2>3. CASE Loser(r) = y
      BY <2>1, <2>3
    <2>4. CASE Became(R, Loser(r), y) /\ Loser(r) # y
      <3>1. PICK t \in Review : Loser(t) = Loser(r) /\ Became(R, Survivor(t), y)
        BY <2>1, <2>4, FirstMerge
      <3>2. t = r
        BY <3>1, OneReview
      <3> QED
        BY <2>1, <3>1, <3>2
    <2> QED
      BY <2>1, <2>2, <2>3, <2>4
  <1>2. Settled(R, C) /\ C \in SUBSET Cand /\ x \in C
    BY <1>1 DEF Settled
  <1>3. z \in C
    BY <1>2 DEF Became
  <1> QED
    BY <1>3

LEMMA NeverBack ==
  ASSUME NEW R, NEW x \in Cand, NEW y \in Cand, Became(R, x, y), Became(R, y, x)
  PROVE  x = y
  <1> SUFFICES ASSUME x # y PROVE FALSE
    OBVIOUS
  <1> PICK C : C = {c \in Cand : Became(R, x, c) /\ Became(R, c, x)}
    OBVIOUS
  <1>1. C \in (SUBSET Cand) \ {{}} /\ x \in C /\ y \in C
    BY BecameItself
  <1>2. PICK c \in C : \A r \in Review : r[1] = c => r[2] \notin C
    BY <1>1, MergeAssumption
  <1>3. PICK d \in {x, y} : d # c
    OBVIOUS
  <1>4. c \in Cand /\ Became(R, c, x) /\ Became(R, x, c) /\ d \in Cand /\ Became(R, x, d) /\ Became(R, d, x)
    BY <1>2, <1>3, BecameItself
  <1>5. Became(R, c, d)
    BY <1>4, BecameOn
  <1>6. PICK r \in Review : Loser(r) = c /\ c \in R /\ Became(R, Survivor(r), d)
    BY <1>3, <1>4, <1>5, FirstMerge
  <1>7. Survivor(r) \in Cand /\ Became(R, c, Survivor(r))
    BY <1>6, Reviewed, BecameSurvivor
  <1>8. Became(R, Survivor(r), x) /\ Became(R, x, Survivor(r))
    BY <1>4, <1>6, <1>7, BecameOn
  <1> QED
    BY <1>2, <1>6, <1>7, <1>8 DEF Loser, Survivor

\* Who has not been merged away became nobody else.
LEMMA StillHimself ==
  ASSUME NEW R, NEW x \in Cand, NEW y \in Cand, Became(R, x, y), x \notin R
  PROVE  x = y
  BY FirstMerge

LEMMA BecameStays ==
  ASSUME NEW R, NEW Q, R \subseteq Q, NEW x, NEW y, Became(R, x, y)
  PROVE  Became(Q, x, y)
  BY DEF Became, Settled

\* What one merge adds.
LEMMA BecameByOne ==
  ASSUME NEW R, NEW Q, NEW r \in Review, Q = R \cup {Loser(r)},
         NEW x \in Cand, NEW y \in Cand, Became(Q, x, y)
  PROVE  Became(R, x, y) \/ (Became(R, x, Loser(r)) /\ Became(R, Survivor(r), y))
  <1> PICK C : C = {c \in Cand : Became(R, x, c) \/ (Became(R, x, Loser(r)) /\ Became(R, Survivor(r), c))}
    OBVIOUS
  <1>0. Loser(r) \in Cand /\ Survivor(r) \in Cand
    BY Reviewed
  <1>1. ASSUME NEW t \in Review, Loser(t) \in Q, Loser(t) \in C
        PROVE  Survivor(t) \in C
    <2>0. Loser(t) \in Cand /\ Survivor(t) \in Cand
      BY Reviewed
    <2>1. CASE Loser(t) \in R
      <3>1. Became(R, Loser(t), Survivor(t))
        BY <2>1, BecameSurvivor
      <3> QED
        BY <1>0, <1>1, <2>0, <3>1, BecameOn
    <2>2. CASE Loser(t) = Loser(r) /\ Loser(t) \notin R
      <3>1. t = r /\ Became(R, Survivor(r), Survivor(r))
        BY <1>0, <2>2, OneReview, BecameItself
      <3>2. Became(R, x, Loser(r))
        BY <1>1, <2>2
      <3> QED
        BY <1>0, <3>1, <3>2
    <2> QED
      BY <1>1, <2>1, <2>2
  <1>2. Settled(Q, C) /\ C \in SUBSET Cand /\ x \in C
    BY <1>1, BecameItself DEF Settled
  <1>3. y \in C
    BY <1>2 DEF Became
  <1> QED
    BY <1>3

LEMMA TogetherOn ==
  ASSUME NEW R, NEW a \in App, NEW b \in App, NEW c \in App, Together(R, a, b), Together(R, b, c)
  PROVE  Together(R, a, c)
  <1>0. Home[a] \in Cand /\ Home[b] \in Cand /\ Home[c] \in Cand
    BY MergeAssumption
  <1>1. PICK m \in Cand : Became(R, Home[a], m) /\ Became(R, Home[b], m)
    BY DEF Together
  <1>2. PICK n \in Cand : Became(R, Home[b], n) /\ Became(R, Home[c], n)
    BY DEF Together
  <1>3. CASE Became(R, m, n)
    BY <1>0, <1>1, <1>2, <1>3, BecameOn DEF Together
  <1>4. CASE Became(R, n, m)
    BY <1>0, <1>1, <1>2, <1>4, BecameOn DEF Together
  <1> QED
    BY <1>0, <1>1, <1>2, <1>3, <1>4, OneWay

-----------------------------------------------------------------------------
(* Somebody of the job is left, whatever is archived.                      *)

StoredRow == [stage : Stages \cup {"unborn"}, version : Nat, hold : Stages \cup {NoStage},
              rtr : BOOLEAN]

Logins == {NoLogin} \cup {LoginOf[c] : c \in Cand}

\* What a request of the pipeline relies on.
Asked(w) ==
  req[w].op # "idle" =>
    /\ req[w].app \in App
    /\ req[w].op \in {"move", "evaluate"} => req[w].to \in Stages /\ req[w].seen.stage \in Stages

PipelineRows == /\ row \in [App -> StoredRow]
                /\ req = [w \in Worker |-> req[w]]
                /\ \A w \in Worker : Asked(w)

\* What a merge has loaded: rows are not deleted, and owners moved on since.
Copied(m) ==
  LET s == merge[m] IN
  /\ s.op \in {"idle", "merge", "dismiss"}
  /\ s.op # "idle" =>
       /\ s.review \in Review
       /\ s.owner \in [App -> Cand]
       /\ s.login \in [Cand -> Logins]
       /\ s.stage \in [App -> Stages \cup {"unborn"}]
       /\ \A a \in App : s.stage[a] # "unborn" => Exists(a) /\ Became(retired, Home[a], s.owner[a])

\* A merge that has been overtaken by another of the same review, and is about
\* to archive a row of the job.
Late(m, j) == /\ merge[m].op = "merge"
              /\ Loser(merge[m].review) \in retired
              /\ \E a \in Redundant(merge[m]) : JobOf[a] = j

\* A live row that no such merge can archive: it did not come by way of the
\* candidate whose rows it archives.
Safe(b) == /\ Exists(b)
           /\ b \notin archived
           /\ \A m \in Merger : Late(m, JobOf[b]) => ~Became(retired, Home[b], Loser(merge[m].review))

OneIsSafe == \A a \in App : Exists(a) =>
               \E b \in App : Safe(b) /\ JobOf[b] = JobOf[a] /\ Together(retired, a, b)

MergeInv == /\ PipelineRows
            /\ MergeTypeOK
            /\ merge = [m \in Merger |-> merge[m]]
            /\ \A a \in archived : Exists(a)
            /\ \A a \in App : Became(retired, Home[a], owner[a])
            /\ \A m \in Merger : Copied(m)
            /\ OneIsSafe

LEMMA Homes == \A a \in App : Home[a] \in Cand
  BY MergeAssumption

\* Who is archived was the loser's, and somebody of the survivor's had the job.
LEMMA Archiving ==
  ASSUME NEW m \in Merger, Copied(m), merge[m].op = "merge",
         NEW a \in RowsOf(merge[m], Loser(merge[m].review))
  PROVE  /\ a \in App /\ Exists(a) /\ Became(retired, Home[a], Loser(merge[m].review))
         /\ a \in Redundant(merge[m]) =>
              \E c \in App : /\ Exists(c) /\ JobOf[c] = JobOf[a]
                             /\ Became(retired, Home[c], Survivor(merge[m].review))
  <1> PICK s : s = merge[m]
    OBVIOUS
  <1>1. /\ \A b \in App : s.stage[b] # "unborn" => Exists(b) /\ Became(retired, Home[b], s.owner[b])
        /\ a \in App /\ s.stage[a] # "unborn" /\ s.owner[a] = Loser(s.review)
    BY DEF Copied, RowsOf
  <1>2. ASSUME a \in Redundant(s)
        PROVE  \E c \in App : /\ Exists(c) /\ JobOf[c] = JobOf[a]
                              /\ Became(retired, Home[c], Survivor(s.review))
    <2>1. Collides(s, a) # {}
      BY <1>2 DEF Redundant, Repointed
    <2>2. PICK c \in RowsOf(s, Survivor(s.review)) : JobOf[c] = JobOf[a]
      BY <2>1 DEF Collides
    <2>3. c \in App /\ s.stage[c] # "unborn" /\ s.owner[c] = Survivor(s.review)
      BY <2>2 DEF RowsOf
    <2> QED
      BY <1>1, <2>2, <2>3
  <1> QED
    BY <1>1, <1>2

\* A late merge leaves the safe rows, and no other becomes late by it.
LEMMA LateLeaves ==
  ASSUME MergeInv, NEW m \in Merger, merge[m].op = "merge",
         Loser(merge[m].review) \in retired,
         retired' = retired, archived' = archived \cup Redundant(merge[m]),
         merge' = [merge EXCEPT ![m] = NoMerge], \A a \in App : Exists(a)' <=> Exists(a)
  PROVE  OneIsSafe'
  <1>1. \A x, y : Became(retired', x, y) <=> Became(retired, x, y)
    BY DEF Became, Settled
  <1>2. ASSUME NEW n \in Merger, NEW j, Late(n, j)'
        PROVE  Late(n, j) /\ merge'[n] = merge[n]
    BY <1>2 DEF Late, NoMerge, MergeInv
  <1>3. ASSUME NEW b \in App, Safe(b)
        PROVE  Safe(b)'
    <2>1. b \notin Redundant(merge[m])
      <3> SUFFICES ASSUME b \in Redundant(merge[m]) PROVE FALSE
        OBVIOUS
      <3>1. b \in RowsOf(merge[m], Loser(merge[m].review)) /\ Copied(m)
        BY DEF Redundant, MergeInv
      <3>2. Became(retired, Home[b], Loser(merge[m].review))
        BY <3>1, Archiving
      <3>3. Late(m, JobOf[b])
        BY DEF Late
      <3> QED
        BY <1>3, <3>2, <3>3 DEF Safe
    <2>2. ASSUME NEW n \in Merger, Late(n, JobOf[b])'
          PROVE  ~Became(retired', Home[b], Loser(merge[n].review)) 
      <3>1. Late(n, JobOf[b]) /\ merge'[n] = merge[n]
        BY <1>2, <2>2
      <3>2. ~Became(retired, Home[b], Loser(merge[n].review))
        BY <1>3, <3>1 DEF Safe
      <3> QED
        BY <1>1, <3>1, <3>2
    <2> QED
      BY <1>2, <1>3, <2>1, <2>2 DEF Safe
  <1>4. \A a, b \in App : Together(retired, a, b) => Together(retired', a, b)
    BY <1>1 DEF Together
  <1> QED
    BY <1>3, <1>4 DEF OneIsSafe, MergeInv

\* The first merge of a review to commit.
LEMMA FirstLeaves ==
  ASSUME MergeInv, NEW m \in Merger, merge[m].op = "merge",
         Loser(merge[m].review) \notin retired,
         retired' = retired \cup {Loser(merge[m].review)},
         archived' = archived \cup Redundant(merge[m]),
         merge' = [merge EXCEPT ![m] = NoMerge], \A a \in App : Exists(a)' <=> Exists(a)
  PROVE  OneIsSafe'
  <1> PICK r : r = merge[m].review
    OBVIOUS
  <1> PICK l : l = Loser(r)
    OBVIOUS
  <1> PICK v : v = Survivor(r)
    OBVIOUS
  <1>0. /\ r \in Review /\ l \in Cand /\ v \in Cand /\ l # v /\ l \notin retired
        /\ retired' = retired \cup {l}
        /\ \A n \in Merger : Copied(n)
        /\ merge = [n \in Merger |-> merge[n]]
    BY Reviewed DEF MergeInv, Copied
  <1>1. \A x, y : Became(retired, x, y) => Became(retired', x, y)
    BY <1>0, BecameStays
  <1>2. \A x, y \in Cand : Became(retired', x, y) => Became(retired, x, y) \/ (Became(retired, x, l) /\ Became(retired, v, y))
    BY <1>0, BecameByOne
  <1>3. Became(retired', l, v)
    BY <1>0, BecameSurvivor
  <1>4. \A y \in Cand : Became(retired, l, y) => y = l
    BY <1>0, StillHimself
  <1>5. ~Became(retired, v, l)
    BY <1>0, <1>1, <1>3, NeverBack
  <1>6. ASSUME NEW n \in Merger, NEW j, Late(n, j)'
        PROVE  /\ merge'[n] = merge[n] /\ merge[n].op = "merge" /\ merge[n].review \in Review
               /\ Loser(merge[n].review) \in Cand
               /\ \E a \in Redundant(merge[n]) : JobOf[a] = j
               /\ Late(n, j) \/ merge[n].review = r
    <2>1. n # m
      BY <1>0, <1>6 DEF Late, NoMerge
    <2>2. merge'[n] = merge[n]
      BY <1>0, <2>1
    <2>3. /\ merge[n].op = "merge" /\ Loser(merge[n].review) \in retired \cup {l}
          /\ \E a \in Redundant(merge[n]) : JobOf[a] = j
      BY <1>0, <1>6, <2>2 DEF Late
    <2>4. merge[n].review \in Review
      BY <1>0, <2>3 DEF Copied
    <2>5. Loser(merge[n].review) = l => merge[n].review = r
      BY <1>0, <2>4, OneReview
    <2> QED
      BY <2>2, <2>3, <2>4, <2>5, Reviewed DEF Late
  <1>7. \A b \in Redundant(merge[m]) : Became(retired, Home[b], l)
    BY <1>0, Archiving DEF Redundant
  \* A safe row that did not come by way of the loser.
  <1>8. ASSUME NEW b \in App, Safe(b), ~Became(retired, Home[b], l)
        PROVE  Safe(b)'
    <2>1. b \notin archived' /\ Exists(b)'
      BY <1>7, <1>8 DEF Safe
    <2>2. ASSUME NEW n \in Merger, Late(n, JobOf[b])', Became(retired', Home[b], Loser(merge[n].review))
          PROVE  FALSE
      <3>1. Loser(merge[n].review) \in Cand /\ (Late(n, JobOf[b]) \/ merge[n].review = r)
        BY <1>6, <2>2
      <3>2. Became(retired, Home[b], Loser(merge[n].review))
        BY <1>2, <1>8, <2>2, <3>1, Homes
      <3> QED
        BY <1>8, <3>1, <3>2 DEF Safe
    <2>3. \A n \in Merger : Late(n, JobOf[b])' => ~Became(retired', Home[b], Loser(merge[n].review)) 
      BY <2>2
    <2>4. \A n \in Merger : Late(n, JobOf[b])' => merge'[n] = merge[n]
      BY <1>6
    <2> QED
      BY <2>1, <2>3, <2>4 DEF Safe
  <1>9. \A a, b \in App : Together(retired, a, b) => Together(retired', a, b)
    BY <1>1 DEF Together
  <1>10. ASSUME NEW a \in App, Exists(a)'
         PROVE  \E b \in App : Safe(b)' /\ JobOf[b] = JobOf[a] /\ Together(retired', a, b)
    <2>1. PICK b \in App : Safe(b) /\ JobOf[b] = JobOf[a] /\ Together(retired, a, b)
      BY <1>10 DEF MergeInv, OneIsSafe
    <2>2. CASE ~Became(retired, Home[b], l)
      BY <1>8, <1>9, <2>1, <2>2
    \* The survivor, or who he was or is, has a row of the job.
    <2>3. ASSUME Became(retired, Home[b], l),
                 NEW c \in App, Exists(c), JobOf[c] = JobOf[a],
                 NEW n \in Cand, Became(retired, Home[c], n), Became(retired, v, n)
          PROVE  \E d \in App : Safe(d)' /\ JobOf[d] = JobOf[a] /\ Together(retired', a, d)
      <3>1. PICK d \in App : Safe(d) /\ JobOf[d] = JobOf[c] /\ Together(retired, c, d)
        BY <2>3 DEF MergeInv, OneIsSafe
      <3>2. PICK k \in Cand : Became(retired, Home[c], k) /\ Became(retired, Home[d], k)
        BY <3>1 DEF Together
      <3>3. ~Became(retired, Home[c], l)
        <4> SUFFICES ASSUME Became(retired, Home[c], l) PROVE FALSE
          OBVIOUS
        <4>1. Became(retired, l, n) \/ Became(retired, n, l)
          BY <1>0, <2>3, Homes, OneWay
        <4>2. Became(retired, n, l)
          BY <1>4, <2>3, <4>1
        <4> QED
          BY <1>0, <1>5, <2>3, <4>2, BecameOn
      <3>4. ~Became(retired, Home[d], l)
        <4> SUFFICES ASSUME Became(retired, Home[d], l) PROVE FALSE
          OBVIOUS
        <4>1. Became(retired, l, k) \/ Became(retired, k, l)
          BY <1>0, <3>2, Homes, OneWay
        <4>2. Became(retired, k, l)
          BY <1>4, <3>2, <4>1
        <4> QED
          BY <1>0, <3>2, <3>3, <4>2, Homes, BecameOn
      <3>5. Together(retired', a, b) /\ Together(retired', c, d)
        BY <1>9, <2>1, <3>1
      <3>6. Together(retired', b, c)
        <4>1. Became(retired', Home[b], l) /\ Became(retired', l, v) /\ Became(retired', v, n) /\ Became(retired', Home[c], n)
          BY <1>1, <1>3, <2>3
        <4>2. Became(retired', Home[b], n)
          BY <1>0, <4>1, Homes, BecameOn
        <4> QED
          BY <4>1, <4>2 DEF Together
      <3>7. Together(retired', a, d)
        BY <3>5, <3>6, TogetherOn
      <3> QED
        BY <1>8, <2>3, <3>1, <3>4, <3>7
    \* He has none: the loser's rows of the job are repointed.
    <2>4. ASSUME Became(retired, Home[b], l),
                 \A c \in App, n \in Cand :
                   Exists(c) /\ JobOf[c] = JobOf[a] => ~(Became(retired, Home[c], n) /\ Became(retired, v, n))
          PROVE  Safe(b)'
      <3>0. \A c \in App : Exists(c) /\ JobOf[c] = JobOf[a] => ~Became(retired, Home[c], v)
        BY <1>0, <2>4, BecameItself
      <3>1. b \notin Redundant(merge[m])
        <4> SUFFICES ASSUME b \in Redundant(merge[m]) PROVE FALSE
          OBVIOUS
        <4>1. b \in RowsOf(merge[m], Loser(merge[m].review))
          BY DEF Redundant
        <4>2. PICK c \in App : Exists(c) /\ JobOf[c] = JobOf[b] /\ Became(retired, Home[c], v)
          BY <1>0, <4>1, Archiving
        <4> QED
          BY <2>1, <3>0, <4>2
      <3>2. ASSUME NEW n \in Merger, Late(n, JobOf[b])', Became(retired', Home[b], Loser(merge[n].review))
            PROVE  FALSE
        <4>1. /\ merge[n].op = "merge" /\ Loser(merge[n].review) \in Cand /\ Copied(n)
              /\ Late(n, JobOf[b]) \/ merge[n].review = r
          BY <1>0, <1>6, <3>2
        <4>2. PICK c \in Redundant(merge[n]) : JobOf[c] = JobOf[b]
          BY <1>6, <3>2
        <4>3. c \in RowsOf(merge[n], Loser(merge[n].review))
          BY <4>2 DEF Redundant
        <4>4. /\ c \in App /\ Exists(c) /\ Became(retired, Home[c], Loser(merge[n].review))
              /\ \E d \in App : /\ Exists(d) /\ JobOf[d] = JobOf[c]
                                /\ Became(retired, Home[d], Survivor(merge[n].review))
          BY <4>1, <4>2, <4>3, Archiving
        <4>5. CASE merge[n].review = r
          BY <2>1, <3>0, <4>2, <4>4, <4>5
        <4>6. CASE Late(n, JobOf[b])
          <5>1. ~Became(retired, Home[b], Loser(merge[n].review))
            BY <2>1, <4>6 DEF Safe
          <5>2. Became(retired, v, Loser(merge[n].review))
            BY <1>2, <3>2, <4>1, <5>1, Homes
          <5> QED
            BY <2>1, <2>4, <4>1, <4>2, <4>4, <5>2
        <4> QED
          BY <4>1, <4>5, <4>6
      <3>3. \A n \in Merger : Late(n, JobOf[b])' => ~Became(retired', Home[b], Loser(merge[n].review)) 
        BY <3>2
      <3>4. \A n \in Merger : Late(n, JobOf[b])' => merge'[n] = merge[n]
        BY <1>6
      <3> QED
        BY <2>1, <3>1, <3>3, <3>4 DEF Safe
    <2> QED
      BY <1>9, <2>1, <2>2, <2>3, <2>4
  <1> QED
    BY <1>10 DEF OneIsSafe

-----------------------------------------------------------------------------
(* The steps.                                                              *)

\* The pipeline deletes no row and touches nothing of the merges.
LEMMA PipelineRuns ==
  ASSUME PipelineRows, PipelineStep
  PROVE  PipelineRows' /\ UNCHANGED mvars /\ \A a \in App : Exists(a) => Exists(a)'
  <1>9. UNCHANGED mvars
    BY DEF PipelineStep
  <1>0. /\ row \in [App -> StoredRow] /\ req = [w \in Worker |-> req[w]]
        /\ \A w \in Worker : Asked(w)
    BY DEF PipelineRows
  <1>1. PICK w \in Worker : \/ Load(w) \/ Insert(w) \/ CommitRtr(w) \/ CommitMove(w)
                            \/ CommitEvaluation(w) \/ RefuseStale(w) \/ Die(w)
    BY DEF PipelineStep
  <1>2. ASSUME row' \in [App -> StoredRow], \A a \in App : Exists(a) => Exists(a)', Finish(w)
        PROVE  PipelineRows' /\ \A a \in App : Exists(a) => Exists(a)'
    <2>1. req' = [v \in Worker |-> IF v = w THEN Idle ELSE req[v]]
      BY <1>0, <1>2 DEF Finish
    <2>2. \A v \in Worker : Asked(v)'
      BY <1>0, <2>1 DEF Asked, Idle
    <2> QED
      BY <1>2, <2>1, <2>2 DEF PipelineRows
  <1>3. CASE RefuseStale(w) \/ Die(w)
    BY <1>0, <1>2, <1>3, <1>9 DEF RefuseStale, Die, Exists
  <1>4. ASSUME NEW a \in App, NEW r, Start(w, r), r.app = a,
               r.op \in {"move", "evaluate"} => r.to \in Stages /\ r.seen.stage \in Stages
        PROVE  PipelineRows' /\ \A b \in App : Exists(b) => Exists(b)'
    <2>1. req' = [v \in Worker |-> IF v = w THEN r ELSE req[v]] /\ UNCHANGED row
      BY <1>0, <1>4 DEF Start
    <2>2. \A v \in Worker : Asked(v)'
      BY <1>0, <1>4, <2>1 DEF Asked
    <2> QED
      BY <1>0, <2>1, <2>2 DEF PipelineRows, Exists
  <1>5. CASE Load(w)
    <2>1. ASSUME NEW a \in App, PostApplication(w, a) \/ PostRtr(w, a)
          PROVE  PipelineRows' /\ \A b \in App : Exists(b) => Exists(b)'
      BY <1>4, <2>1 DEF PostApplication, PostRtr
    <2>2. ASSUME NEW a \in App, NEW to, NEW reason, NEW v, NEW op, Legal(row[a], to, reason),
                 Start(w, Write(op, a, to, v))
          PROVE  PipelineRows' /\ \A b \in App : Exists(b) => Exists(b)'
      BY <1>4, <2>2 DEF Write, Legal
    <2>3. ASSUME NEW a \in App, NEW to, PatchStage(w, a, to)
          PROVE  PipelineRows' /\ \A b \in App : Exists(b) => Exists(b)'
      BY <2>2, <2>3 DEF PatchStage
    <2>4. ASSUME NEW a \in App, NEW to, NEW v, PostTransition(w, a, to, v) \/ PostEvaluation(w, a, to, v)
          PROVE  PipelineRows' /\ \A b \in App : Exists(b) => Exists(b)'
      BY <2>2, <2>4 DEF PostTransition, PostEvaluation
    <2> QED
      BY <1>5, <1>9, <2>1, <2>3, <2>4 DEF Load
  <1>6. CASE Insert(w)
    <2> PICK a : a = req[w].app
      OBVIOUS
    <2>1. a \in App /\ row' = [row EXCEPT ![a] = NewRow] /\ Finish(w)
      BY <1>0, <1>6 DEF Insert, CommitApplication, Asked
    <2>2. NewRow \in StoredRow /\ NewRow.stage # "unborn"
      BY DEF NewRow, StoredRow, Stages
    <2> QED
      BY <1>0, <1>2, <1>9, <2>1, <2>2 DEF Exists
  <1>7. CASE CommitRtr(w)
    <2> PICK a : a = req[w].app
      OBVIOUS
    <2> PICK old : old = row[a]
      OBVIOUS
    <2>1. a \in App /\ row' = [row EXCEPT ![a] = [old EXCEPT !.rtr = TRUE]] /\ Finish(w) /\ old \in StoredRow
      BY <1>0, <1>7 DEF CommitRtr, Asked
    <2>2. [old EXCEPT !.rtr = TRUE] \in StoredRow /\ [old EXCEPT !.rtr = TRUE].stage = old.stage
      BY <2>1 DEF StoredRow
    <2> QED
      BY <1>0, <1>2, <1>9, <2>1, <2>2 DEF Exists
  <1>8. CASE CommitMove(w) \/ CommitEvaluation(w)
    <2> PICK r : r = req[w]
      OBVIOUS
    <2> PICK new : new = Written(row[r.app], r)
      OBVIOUS
    <2>1. /\ r.app \in App /\ r.to \in Stages /\ r.seen.stage \in Stages
          /\ row' = [row EXCEPT ![r.app] = new] /\ Finish(w) /\ row[r.app] \in StoredRow
      BY <1>0, <1>8 DEF CommitMove, CommitEvaluation, WriteStage, Asked
    <2>2. HoldAfter(row[r.app].hold, r.seen, r.to) \in Stages \cup {NoStage}
      BY <2>1 DEF HoldAfter, StoredRow
    <2>3. new \in StoredRow /\ new.stage # "unborn"
      BY <2>1, <2>2 DEF Written, StoredRow, Stages
    <2> QED
      BY <1>0, <1>2, <1>9, <2>1, <2>3 DEF Exists
  <1> QED
    BY <1>1, <1>3, <1>5, <1>6, <1>7, <1>8

\* Where rows only come to exist, somebody of the job is still safe.
LEMMA RowsCome ==
  ASSUME MergeInv, UNCHANGED mvars, \A a \in App : Exists(a) => Exists(a)'
  PROVE  OneIsSafe'
  <1>0. UNCHANGED <<retired, archived, merge>>
    BY DEF mvars, records
  <1>1. \A x, y : Became(retired', x, y) <=> Became(retired, x, y)
    BY <1>0 DEF Became, Settled
  <1>2. \A a, b \in App : Together(retired', a, b) <=> Together(retired, a, b)
    BY <1>1 DEF Together
  <1>3. \A m \in Merger : \A j : Late(m, j)' <=> Late(m, j)
    BY <1>0 DEF Late
  <1>4. \A b \in App : Safe(b) => Safe(b)'
    BY <1>0, <1>1, <1>3 DEF Safe
  <1>5. ASSUME NEW a \in App, ~Exists(a), Exists(a)'
        PROVE  \E b \in App : Safe(b)' /\ JobOf[b] = JobOf[a] /\ Together(retired', a, b)
    <2>1. CASE Safe(a)'
      BY <1>5, <2>1, Homes, BecameItself, <1>2 DEF Together
    <2>2. CASE ~Safe(a)'
      <3>1. a \notin archived'
        BY <1>0, <1>5 DEF MergeInv
      <3>2. PICK m \in Merger : Late(m, JobOf[a]) /\ Became(retired, Home[a], Loser(merge[m].review))
        BY <1>0, <1>1, <1>3, <1>5, <2>2, <3>1 DEF Safe
      <3>3. PICK c \in Redundant(merge[m]) : JobOf[c] = JobOf[a]
        BY <3>2 DEF Late
      <3>4. /\ c \in RowsOf(merge[m], Loser(merge[m].review)) /\ merge[m].op = "merge"
            /\ Copied(m) /\ merge[m].review \in Review
        BY <3>2, <3>3 DEF Redundant, Late, MergeInv, Copied
      <3>5. c \in App /\ Exists(c) /\ Became(retired, Home[c], Loser(merge[m].review))
        BY <3>4, Archiving
      <3>6. Together(retired, a, c)
        BY <3>2, <3>4, <3>5, Reviewed DEF Together
      <3>7. PICK b \in App : Safe(b) /\ JobOf[b] = JobOf[c] /\ Together(retired, c, b)
        BY <3>5 DEF MergeInv, OneIsSafe
      <3> QED
        BY <1>2, <1>4, <3>3, <3>5, <3>6, <3>7, TogetherOn
    <2> QED
      BY <2>1, <2>2
  <1>6. ASSUME NEW a \in App, Exists(a)
        PROVE  \E b \in App : Safe(b)' /\ JobOf[b] = JobOf[a] /\ Together(retired', a, b)
    BY <1>2, <1>4, <1>6 DEF MergeInv, OneIsSafe
  <1> QED
    BY <1>5, <1>6 DEF OneIsSafe

LEMMA CopiesStay ==
  ASSUME NEW m \in Merger, Copied(m), merge'[m] = merge[m], retired \subseteq retired',
         \A a \in App : Exists(a) => Exists(a)'
  PROVE  Copied(m)'
  <1>1. \A x, y : Became(retired, x, y) => Became(retired', x, y)
    BY BecameStays
  <1> PICK s : s = merge[m]
    OBVIOUS
  <1>2. s.op # "idle" => \A a \in App : s.stage[a] # "unborn" => Exists(a)' /\ Became(retired', Home[a], s.owner[a])
    BY <1>1 DEF Copied
  <1>3. merge'[m] = s
    OBVIOUS
  <1> QED
    BY <1>2, <1>3 DEF Copied

LEMMA PipelineKeeps ==
  ASSUME MergeInv, PipelineStep
  PROVE  MergeInv'
  <1>1. PipelineRows' /\ UNCHANGED mvars /\ \A a \in App : Exists(a) => Exists(a)'
    BY PipelineRuns DEF MergeInv
  <1>2. UNCHANGED <<owner, archived, retired, login, flagged, referred, status, merge>>
    BY <1>1 DEF mvars, records
  <1>3. OneIsSafe'
    BY <1>1, RowsCome
  <1>4. \A m \in Merger : Copied(m)'
    BY <1>1, <1>2, CopiesStay DEF MergeInv
  <1>5. MergeTypeOK' /\ merge' = [m \in Merger |-> merge'[m]] /\ \A a \in archived' : Exists(a)'
    BY <1>1, <1>2 DEF MergeInv, MergeTypeOK
  <1>6. \A a \in App : Became(retired', Home[a], owner'[a])
    BY <1>2 DEF MergeInv, Became, Settled
  <1> QED
    BY <1>1, <1>3, <1>4, <1>5, <1>6 DEF MergeInv

\* A merge that begins or ends without archiving anything.
LEMMA MergerKeeps ==
  ASSUME MergeInv, UNCHANGED <<records, vars>>, NEW m \in Merger, NEW s,
         merge' = [merge EXCEPT ![m] = s], Copied(m)',
         s.op = "merge" => Loser(s.review) \notin retired,
         status' \in [Review -> {"pending", "merged", "dismissed"}]
  PROVE  MergeInv'
  <1>0. /\ UNCHANGED <<owner, archived, retired, login, flagged, referred, row, req>>
        /\ merge = [n \in Merger |-> merge[n]] /\ merge'[m] = s
        /\ \A n \in Merger \ {m} : merge'[n] = merge[n]
        /\ \A a \in App : Exists(a)' <=> Exists(a)
    BY DEF records, vars, MergeInv, Exists
  <1>1. \A x, y : Became(retired', x, y) <=> Became(retired, x, y)
    BY <1>0 DEF Became, Settled
  <1>2. \A n \in Merger : \A j : Late(n, j)' => Late(n, j) /\ merge'[n] = merge[n]
    BY <1>0 DEF Late
  <1>3. \A b \in App : Safe(b) => Safe(b)'
    BY <1>0, <1>1, <1>2 DEF Safe
  <1>4. \A a, b \in App : Together(retired, a, b) => Together(retired', a, b)
    BY <1>1 DEF Together
  <1>5. OneIsSafe'
    BY <1>0, <1>3, <1>4 DEF MergeInv, OneIsSafe
  <1>6. \A n \in Merger : Copied(n)'
    BY <1>0, CopiesStay DEF MergeInv
  <1>7. MergeTypeOK' /\ merge' = [n \in Merger |-> merge'[n]] /\ \A a \in archived' : Exists(a)'
    BY <1>0, <1>6 DEF MergeInv, MergeTypeOK, Copied
  <1>8. (\A a \in App : Became(retired', Home[a], owner'[a])) /\ PipelineRows'
    BY <1>0, <1>1 DEF MergeInv, PipelineRows, Asked
  <1> QED
    BY <1>5, <1>6, <1>7, <1>8 DEF MergeInv

LEMMA LoadsKeep ==
  ASSUME MergeInv, NEW m \in Merger, NEW r \in Review, LoadMerge(m, r) \/ LoadDismiss(m, r)
  PROVE  MergeInv'
  <1>1. PICK op \in {"merge", "dismiss"} :
          /\ merge' = [merge EXCEPT ![m] = Snapshot(op, r)]
          /\ UNCHANGED <<records, status, vars>>
          /\ op = "merge" => Loser(r) \notin retired
    BY DEF LoadMerge, LoadDismiss
  <1> PICK s : s = Snapshot(op, r)
    OBVIOUS
  <1>2. /\ s.op = op /\ s.review = r /\ s.owner = owner /\ s.login = login
        /\ s.stage = [a \in App |-> row[a].stage]
    BY DEF Snapshot
  <1>3. merge'[m] = s /\ UNCHANGED <<row, retired>>
    BY <1>1 DEF MergeInv, records, vars
  <1>4. /\ owner \in [App -> Cand] /\ login \in [Cand -> Logins] /\ row \in [App -> StoredRow]
        /\ \A a \in App : Became(retired, Home[a], owner[a])
    BY DEF MergeInv, MergeTypeOK, PipelineRows, Logins
  <1>5. \A a \in App : Became(retired', Home[a], owner'[a])
    BY <1>1, <1>4 DEF Became, Settled, records
  <1>6. \A a \in App : s.stage[a] # "unborn" => Exists(a)' /\ Became(retired', Home[a], s.owner[a])
    <2>1. \A x, y : Became(retired, x, y) => Became(retired', x, y)
      BY <1>3, BecameStays
    <2> QED
      BY <1>2, <1>3, <1>4, <2>1 DEF Exists
  <1>7. s.stage \in [App -> Stages \cup {"unborn"}]
    BY <1>2, <1>4 DEF StoredRow
  <1>8. Copied(m)'
    BY <1>2, <1>3, <1>4, <1>6, <1>7 DEF Copied
  <1>9. status' \in [Review -> {"pending", "merged", "dismissed"}]
    BY <1>1 DEF MergeInv, MergeTypeOK
  <1> QED
    BY <1>1, <1>2, <1>8, <1>9, MergerKeeps

LEMMA EndsKeep ==
  ASSUME MergeInv, NEW m \in Merger, AbortMerge(m) \/ CommitDismiss(m)
  PROVE  MergeInv'
  <1>1. /\ merge' = [merge EXCEPT ![m] = NoMerge] /\ UNCHANGED <<records, vars>>
        /\ status' \in [Review -> {"pending", "merged", "dismissed"}]
    <2>1. status \in [Review -> {"pending", "merged", "dismissed"}]
      BY DEF MergeInv, MergeTypeOK
    <2>2. CASE AbortMerge(m)
      BY <2>1, <2>2 DEF AbortMerge, EndMerge
    <2>3. CASE CommitDismiss(m)
      BY <2>1, <2>3 DEF CommitDismiss, EndMerge
    <2> QED
      BY <2>2, <2>3
  <1>2. Copied(m)'
    BY <1>1 DEF Copied, NoMerge, MergeInv
  <1> QED
    BY <1>1, <1>2, MergerKeeps DEF NoMerge

LEMMA CommitKeeps ==
  ASSUME MergeInv, NEW m \in Merger, CommitMerge(m)
  PROVE  MergeInv'
  <1> PICK s : s = merge[m]
    OBVIOUS
  <1> PICK r : r = s.review
    OBVIOUS
  <1>0. /\ s.op = "merge" /\ r \in Review /\ Copied(m)
        /\ s.stage \in [App -> Stages \cup {"unborn"}] /\ s.login \in [Cand -> Logins]
        /\ row \in [App -> StoredRow] /\ owner \in [App -> Cand] /\ login \in [Cand -> Logins]
        /\ Loser(r) \in Cand /\ Survivor(r) \in Cand
        /\ merge = [n \in Merger |-> merge[n]]
    BY Reviewed DEF CommitMerge, MergeInv, Copied, PipelineRows, MergeTypeOK, Logins
  <1>1. /\ owner' = [a \in App |-> IF a \in Repointed(s) THEN Survivor(r) ELSE owner[a]]
        /\ row' = [a \in App |-> IF Adopted(s, a) \ {s.stage[a]} = {} THEN row[a]
                                 ELSE [row[a] EXCEPT !.stage = CHOOSE t \in Adopted(s, a) : TRUE]]
        /\ archived' = archived \cup Redundant(s)
        /\ retired' = retired \cup {Loser(r)}
        /\ login' = Linked(s)
        /\ flagged' = IF LoginsClash(s) THEN flagged \cup {r} ELSE flagged
        /\ referred' = [v \in Referral |-> IF referred[v] = Loser(r) THEN Survivor(r) ELSE referred[v]]
        /\ status' = [status EXCEPT ![r] = "merged"]
        /\ merge' = [merge EXCEPT ![m] = NoMerge]
        /\ UNCHANGED req
    BY DEF CommitMerge, EndMerge
  <1>2. ASSUME NEW a \in App
        PROVE  row'[a] \in StoredRow /\ (Exists(a)' <=> Exists(a))
    <2>1. CASE Adopted(s, a) \ {s.stage[a]} = {}
      BY <1>0, <1>1, <2>1 DEF Exists
    <2>2. CASE Adopted(s, a) \ {s.stage[a]} # {}
      <3> PICK t : t = CHOOSE u \in Adopted(s, a) : TRUE
        OBVIOUS
      <3>1. t \in Adopted(s, a)
        BY <2>2
      <3>2. PICK b \in Redundant(s) : t = s.stage[b] /\ a \in Collides(s, b)
        BY <3>1 DEF Adopted
      <3>3. b \in App /\ s.stage[b] # "unborn" /\ a \in App /\ s.stage[a] # "unborn"
        BY <3>2 DEF Redundant, Collides, RowsOf
      <3>4. t \in Stages /\ t # "unborn" /\ Exists(a) /\ row[a] \in StoredRow
        BY <1>0, <3>2, <3>3 DEF Copied
      <3>5. row'[a] = [row[a] EXCEPT !.stage = t]
        BY <1>1, <2>2
      <3>6. row'[a] \in StoredRow /\ row'[a].stage = t
        BY <3>4, <3>5 DEF StoredRow
      <3> QED
        BY <3>4, <3>6 DEF Exists
    <2> QED
      BY <2>1, <2>2
  <1>3. PipelineRows'
    <2>1. row' \in [App -> StoredRow]
      BY <1>1, <1>2
    <2> QED
      BY <1>1, <2>1 DEF MergeInv, PipelineRows, Asked
  <1>4. MergeTypeOK'
    <2>1. owner' \in [App -> Cand]
      BY <1>0, <1>1
    <2>2. archived' \subseteq App
      BY <1>1 DEF MergeInv, MergeTypeOK, Redundant, RowsOf
    <2>3. retired' \subseteq Cand /\ flagged' \subseteq Review
      BY <1>0, <1>1 DEF MergeInv, MergeTypeOK
    <2>4. login' \in [Cand -> Logins]
      BY <1>0, <1>1 DEF Linked
    <2>5. referred' \in [Referral -> Cand]
      BY <1>0, <1>1 DEF MergeInv, MergeTypeOK
    <2>6. status' \in [Review -> {"pending", "merged", "dismissed"}]
      BY <1>1 DEF MergeInv, MergeTypeOK
    <2>7. \A n \in Merger : merge'[n].op \in {"idle", "merge", "dismiss"}
      BY <1>0, <1>1 DEF MergeInv, MergeTypeOK, NoMerge
    <2> QED
      BY <2>1, <2>2, <2>3, <2>4, <2>5, <2>6, <2>7 DEF MergeTypeOK, Logins
  <1>5. OneIsSafe'
    <2>1. \A a \in App : Exists(a)' <=> Exists(a)
      BY <1>2
    <2>2. CASE Loser(r) \in retired
      <3>1. retired' = retired
        BY <1>1, <2>2
      <3> QED
        BY <1>0, <1>1, <2>1, <2>2, <3>1, LateLeaves
    <2>3. CASE Loser(r) \notin retired
      BY <1>0, <1>1, <2>1, <2>3, FirstLeaves
    <2> QED
      BY <2>2, <2>3
  <1>6. \A n \in Merger : Copied(n)'
    <2>1. Copied(m)'
      BY <1>0, <1>1 DEF Copied, NoMerge
    <2>2. ASSUME NEW n \in Merger, n # m PROVE Copied(n)'
      BY <1>0, <1>1, <1>2, <2>2, CopiesStay DEF MergeInv
    <2> QED
      BY <2>1, <2>2
  <1>7. \A a \in archived' : Exists(a)'
    <2>1. \A a \in Redundant(s) : a \in App /\ Exists(a)
      BY <1>0, Archiving DEF Redundant
    <2> QED
      BY <1>1, <1>2, <2>1 DEF MergeInv, MergeTypeOK
  <1>8. ASSUME NEW a \in App
        PROVE  Became(retired', Home[a], owner'[a])
    <2>1. \A x, y : Became(retired, x, y) => Became(retired', x, y)
      BY <1>1, BecameStays
    <2>2. CASE a \in Repointed(s)
      <3>1. Became(retired, Home[a], Loser(r))
        BY <1>0, <2>2, Archiving DEF Repointed
      <3>2. Became(retired', Home[a], Loser(r)) /\ Became(retired', Loser(r), Survivor(r))
        BY <1>0, <1>1, <2>1, <3>1, BecameSurvivor
      <3>3. Became(retired', Home[a], Survivor(r))
        BY <1>0, <3>2, Homes, BecameOn
      <3>4. owner'[a] = Survivor(r)
        BY <1>1, <2>2
      <3> QED
        BY <3>3, <3>4
    <2>3. CASE a \notin Repointed(s)
      <3>1. owner'[a] = owner[a] /\ Became(retired, Home[a], owner[a])
        BY <1>1, <2>3 DEF MergeInv
      <3> PICK o : o = owner[a]
        OBVIOUS
      <3>2. Became(retired', Home[a], o)
        BY <2>1, <3>1
      <3> QED
        BY <3>1, <3>2
    <2> QED
      BY <2>2, <2>3
  <1>9. merge' = [n \in Merger |-> merge'[n]]
    BY <1>0, <1>1
  <1> QED
    BY <1>3, <1>4, <1>5, <1>6, <1>7, <1>8, <1>9 DEF MergeInv

LEMMA MergeStart ==
  ASSUME Init, MergeInit
  PROVE  MergeInv
  <1>1. PipelineRows
    <2>1. NoRow \in StoredRow
      BY DEF NoRow, StoredRow
    <2> QED
      BY <2>1 DEF Init, PipelineRows, Asked, Idle
  <1>2. MergeTypeOK
    BY MergeAssumption DEF MergeInit, MergeTypeOK, NoMerge
  <1>3. \A a \in App : ~Exists(a)
    BY DEF Init, Exists, NoRow
  <1>4. \A a \in App : Became(retired, Home[a], owner[a])
    BY Homes, BecameItself DEF MergeInit
  <1>5. (\A m \in Merger : Copied(m)) /\ merge = [m \in Merger |-> merge[m]] /\ archived = {}
    BY DEF MergeInit, Copied, NoMerge
  <1> QED
    BY <1>1, <1>2, <1>3, <1>4, <1>5 DEF MergeInv, OneIsSafe

LEMMA MergeInvariance ==
  ASSUME MergeInv, [MergeNext]_<<vars, mvars>>
  PROVE  MergeInv'
  <1>1. CASE UNCHANGED <<vars, mvars>>
    <2>1. UNCHANGED mvars /\ UNCHANGED <<row, req>> /\ \A a \in App : Exists(a) => Exists(a)'
      BY <1>1 DEF vars, Exists
    <2>2. UNCHANGED <<owner, archived, retired, login, flagged, referred, status, merge>>
      BY <2>1 DEF mvars, records
    <2>3. OneIsSafe'
      BY <2>1, RowsCome
    <2>4. \A m \in Merger : Copied(m)'
      BY <2>1, <2>2, CopiesStay DEF MergeInv
    <2>5. MergeTypeOK' /\ merge' = [m \in Merger |-> merge'[m]] /\ \A a \in archived' : Exists(a)'
      BY <2>1, <2>2 DEF MergeInv, MergeTypeOK
    <2>6. PipelineRows' /\ \A a \in App : Became(retired', Home[a], owner'[a])
      BY <2>1, <2>2 DEF MergeInv, PipelineRows, Asked
    <2> QED
      BY <2>3, <2>4, <2>5, <2>6 DEF MergeInv
  <1>2. CASE PipelineStep
    BY <1>2, PipelineKeeps
  <1>3. CASE MergeStep
    BY <1>3, LoadsKeep, EndsKeep, CommitKeeps DEF MergeStep
  <1> QED
    BY <1>1, <1>2, <1>3 DEF MergeNext

\* The merge's own state keeps its shape.
THEOREM MergesTyped ==
  MergeSpec => []MergeTypeOK
  <1>1. MergeInv => MergeTypeOK
    BY DEF MergeInv
  <1> QED
    BY <1>1, MergeStart, MergeInvariance, PTL DEF MergeSpec

\* Together is one person.
LEMMA TogetherIsOnePerson ==
  ASSUME NEW a \in App, NEW b \in App, Together(retired, a, b),
         Home[a] \in Cand, Home[b] \in Cand, owner[b] \in Cand,
         Became(retired, Home[b], owner[b])
  PROVE  owner[b] \in SamePerson(Home[a])
  <1> SUFFICES ASSUME NEW C \in SUBSET Cand, Home[a] \in C,
                      \A r \in Review : Loser(r) \in retired => (Loser(r) \in C <=> Survivor(r) \in C)
               PROVE  owner[b] \in C
    BY DEF SamePerson
  <1> PICK n \in Cand : Became(retired, Home[a], n) /\ Became(retired, Home[b], n)
    BY DEF Together
  <1>1. Settled(retired, C)
    BY DEF Settled
  <1>2. n \in C
    BY <1>1 DEF Became
  <1>3. Home[b] \in C
    <2>1. Settled(retired, Cand \ C)
      BY Reviewed DEF Settled
    <2> QED
      BY <1>2, <2>1 DEF Became
  <1> QED
    BY <1>1, <1>3 DEF Became

\* dup_reviews.py:14-17: however many merges overlap, of whatever chains and
\* trees of reviews, whose application is archived has a live one for the job.
THEOREM NobodyFallsOut ==
  MergeSpec => []StillInPipeline
  <1>1. ASSUME MergeInv
        PROVE  StillInPipeline
    <2> SUFFICES ASSUME NEW a \in archived
                 PROVE  \E b \in App \ archived : /\ Exists(b)
                                                  /\ JobOf[b] = JobOf[a]
                                                  /\ owner[b] \in SamePerson(Home[a])
      BY DEF StillInPipeline
    <2>1. a \in App /\ Exists(a)
      BY <1>1 DEF MergeInv, MergeTypeOK
    <2> PICK b \in App : Safe(b) /\ JobOf[b] = JobOf[a] /\ Together(retired, a, b)
      BY <1>1, <2>1 DEF MergeInv, OneIsSafe
    <2>2. Home[a] \in Cand /\ Home[b] \in Cand /\ owner[b] \in Cand
      BY <1>1, <2>1, MergeAssumption DEF MergeInv, MergeTypeOK
    <2>3. owner[b] \in SamePerson(Home[a])
      BY <1>1, <2>1, <2>2, TogetherIsOnePerson DEF MergeInv
    <2> QED
      BY <2>3 DEF Safe
  <1> QED
    BY <1>1, MergeStart, MergeInvariance, PTL DEF MergeSpec
=============================================================================
