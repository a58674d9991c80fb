------------------------------- MODULE Merge -------------------------------
(***************************************************************************)
(* Duplicate merge and dismissal (backend/app/routers/dup_reviews.py)      *)
(* beside the running pipeline.  A merge loads the review, both candidates *)
(* and all their applications, decides from those copies, and commits; the *)
(* pipeline's requests and other merges commit in between.  Its writes are *)
(* plain ORM updates by primary key: they neither look at nor advance the  *)
(* version the pipeline's guarded UPDATE compares.                         *)
(***************************************************************************)
EXTENDS Pipeline, FiniteSetsExt

CONSTANTS
  Cand,       \* candidates
  Merger,     \* threads serving merge and dismiss requests
  Review,     \* the dup-review queue: a set of <<incoming, matched>> candidates
  JobOf,      \* App -> the job applied to
  Home,       \* App -> the candidate the row is created for
  CreatedAt,  \* App -> creation order of the rows
  LoginOf,    \* Cand -> the portal user linked before any merge, or NoLogin
  NoLogin,    \* the SQL NULL of candidates.user_id
  Referral    \* vendor_submissions: a set of <<vendor, candidate>> as made

\* One review per intake, against a candidate created before it: whoever is
\* incoming in one review is so in no other, and among any of them is one, the
\* oldest, that is matched against none of the others.
ASSUME MergeAssumption ==
  /\ Review \subseteq Cand \X Cand
  /\ \A r, t \in Review : r[1] = t[1] => r = t
  /\ \A some \in (SUBSET Cand) \ {{}} :
       \E oldest \in some : \A r \in Review : r[1] = oldest => r[2] \notin some
  /\ Home \in [App -> Cand]
  /\ CreatedAt \in [App -> Nat]
  /\ LoginOf \in [Cand -> {NoLogin} \cup {LoginOf[c] : c \in Cand}]
  /\ \A v \in Referral : v[2] \in Cand

VARIABLES
  owner,     \* App -> applications.candidate_id
  archived,  \* rows with applications.deleted_at set
  retired,   \* candidates with deleted_at set
  login,     \* Cand -> candidates.user_id
  flagged,   \* reviews with a merge_link_conflict audit row
  referred,  \* Referral -> vendor_submissions.candidate_id
  status,    \* Review -> candidate_dup_reviews.status
  merge      \* Merger -> the request it serves and everything it loaded

records == <<owner, archived, retired, login, flagged, referred>>

mvars == <<records, status, merge>>

NoMerge == [op |-> "idle"]

MergeInit == /\ owner = Home
             /\ archived = {}
             /\ retired = {}
             /\ login = LoginOf
             /\ flagged = {}
             /\ referred = [v \in Referral |-> v[2]]
             /\ status = [r \in Review |-> "pending"]
             /\ merge = [m \in Merger |-> NoMerge]

Loser(r) == r[1]
Survivor(r) == r[2]

-----------------------------------------------------------------------------
(* The pipeline's requests beside the merges.                              *)

\* UNIQUE(job_id, candidate_id) covers archived rows too.
KeyTaken(a, c) == \E b \in App \ {a} : /\ Exists(b)
                                       /\ JobOf[b] = JobOf[a]
                                       /\ owner[b] = c

\* A handler finds a row by id only while it is not archived.
Load(w) == \E a \in App :
  \/ ~KeyTaken(a, owner[a]) /\ PostApplication(w, a)
  \/ a \notin archived /\ \/ PostRtr(w, a)
                          \/ \E to \in Stages : PatchStage(w, a, to)
                          \/ \E to \in Stages, v \in Expected(a) : PostTransition(w, a, to, v)
                          \/ \E to \in EvalTargets, v \in Expected(a) :
                               PostEvaluation(w, a, to, v)

\* An insert that meets the key at commit fails like any duplicate.
Insert(w) == CommitApplication(w) /\ ~KeyTaken(req[w].app, owner[req[w].app])

PipelineStep == /\ \E w \in Worker : \/ Load(w)
                                     \/ Insert(w)
                                     \/ CommitRtr(w)
                                     \/ CommitMove(w)
                                     \/ CommitEvaluation(w)
                                     \/ RefuseStale(w)
                                     \/ Die(w)
                /\ UNCHANGED mvars

-----------------------------------------------------------------------------
(* Loading a review: it must be pending, and both candidates live.         *)

Snapshot(op, r) == [op |-> op, review |-> r, owner |-> owner, login |-> login,
                    stage |-> [a \in App |-> row[a].stage]]

LoadMerge(m, r) ==
  /\ merge[m] = NoMerge
  /\ status[r] = "pending"
  /\ {Loser(r), Survivor(r)} \cap retired = {}
  /\ merge' = [merge EXCEPT ![m] = Snapshot("merge", r)]
  /\ UNCHANGED <<records, status, vars>>

LoadDismiss(m, r) ==
  /\ merge[m] = NoMerge
  /\ status[r] = "pending"
  /\ merge' = [merge EXCEPT ![m] = Snapshot("dismiss", r)]
  /\ UNCHANGED <<records, status, vars>>

EndMerge(m) == merge' = [merge EXCEPT ![m] = NoMerge]

\* Fault: a status the check constraint on the review does not know.
CommitReject(m) ==
  /\ merge[m].op = "dismiss"
  /\ status' = [status EXCEPT ![merge[m].review] = "rejected"]
  /\ EndMerge(m)
  /\ UNCHANGED <<records, vars>>

CommitDismiss(m) ==
  /\ merge[m].op = "dismiss"
  /\ status' = [status EXCEPT ![merge[m].review] = "dismissed"]
  /\ EndMerge(m)
  /\ UNCHANGED <<records, vars>>

\* The rows of one candidate, as the merge loaded them.
RowsOf(s, c) == {a \in App : s.stage[a] # "unborn" /\ s.owner[a] = c}

\* The survivor's row a loser's row collides with, or none.
Collides(s, la) == {sa \in RowsOf(s, Survivor(s.review)) : JobOf[sa] = JobOf[la]}

\* Further along, or as far and created earlier.
Beats(s, la, sa) ==
  \/ StageRank[s.stage[la]] > StageRank[s.stage[sa]]
  \/ /\ StageRank[s.stage[la]] = StageRank[s.stage[sa]]
     /\ CreatedAt[la] < CreatedAt[sa]

Repointed(s) == {la \in RowsOf(s, Loser(s.review)) : Collides(s, la) = {}}

\* Fault: every row of the loser is archived, the repointed ones too.
AllOfLoser(s) == RowsOf(s, Loser(s.review))

Redundant(s) == RowsOf(s, Loser(s.review)) \ Repointed(s)

\* adopt_stage_on_merge: what the survivor's row sa is set to, if anything.
Adopted(s, sa) == {s.stage[la] : la \in {la \in Redundant(s) :
                                           sa \in Collides(s, la) /\ Beats(s, la, sa)}}

\* The survivor keeps its portal login, else takes the loser's; two different
\* ones are flagged.  The loser's row keeps its own either way.
Linked(s) == IF s.login[Survivor(s.review)] = NoLogin /\ s.login[Loser(s.review)] # NoLogin
             THEN [login EXCEPT ![Survivor(s.review)] = s.login[Loser(s.review)]]
             ELSE login

LoginsClash(s) == /\ NoLogin \notin {s.login[Loser(s.review)], s.login[Survivor(s.review)]}
                  /\ s.login[Loser(s.review)] # s.login[Survivor(s.review)]

CommitMerge(m) ==
  LET s == merge[m] IN
  /\ s.op = "merge"
  /\ \A la \in Repointed(s) : ~KeyTaken(la, Survivor(s.review))
  /\ owner' = [a \in App |-> IF a \in Repointed(s) THEN Survivor(s.review) ELSE owner[a]]
  /\ row' = [a \in App |-> IF Adopted(s, a) \ {s.stage[a]} = {} THEN row[a]
                           ELSE [row[a] EXCEPT !.stage = CHOOSE t \in Adopted(s, a) : TRUE]]
  /\ archived' = archived \cup Redundant(s)
  /\ retired' = retired \cup {Loser(s.review)}
  /\ login' = Linked(s)
  /\ flagged' = IF LoginsClash(s) THEN flagged \cup {s.review} ELSE flagged
  /\ referred' = [v \in Referral |-> IF referred[v] = Loser(s.review)
                                    THEN Survivor(s.review) ELSE referred[v]]
  /\ status' = [status EXCEPT ![s.review] = "merged"]
  /\ EndMerge(m)
  /\ UNCHANGED <<journal, evals, consents, req>>

\* A repointed row meets the UNIQUE key, or the worker dies: all rolled back.
AbortMerge(m) == /\ merge[m] # NoMerge
                 /\ EndMerge(m)
                 /\ UNCHANGED <<records, status, vars>>

MergeStep == \E m \in Merger : \/ \E r \in Review : LoadMerge(m, r) \/ LoadDismiss(m, r)
                               \/ CommitDismiss(m)
                               \/ CommitMerge(m)
                               \/ AbortMerge(m)

MergeNext == PipelineStep \/ MergeStep

MergeSpec == Init /\ MergeInit /\ [][MergeNext]_<<vars, mvars>>

-----------------------------------------------------------------------------
\* The shape of the merge's own state.
MergeTypeOK == /\ owner \in [App -> Cand]
               /\ archived \subseteq App
               /\ retired \subseteq Cand
               /\ login \in [Cand -> {NoLogin} \cup {LoginOf[c] : c \in Cand}]
               /\ flagged \subseteq Review
               /\ referred \in [Referral -> Cand]
               /\ status \in [Review -> {"pending", "merged", "dismissed"}]
               /\ \A m \in Merger : merge[m].op \in {"idle", "merge", "dismiss"}

\* The candidates merges have made into one person with c.
SamePerson(c) == {d \in Cand : \A some \in SUBSET Cand :
  /\ c \in some
  /\ \A r \in Review : Loser(r) \in retired => (Loser(r) \in some <=> Survivor(r) \in some)
  => d \in some}

\* dup_reviews.py:14-17, the redundant row is archived, "nothing lost": however
\* merges overlap, whose application is archived has a live one for the same job,
\* so nobody is ever out of a pipeline they were in.
StillInPipeline ==
  \A a \in archived : \E b \in App \ archived :
    Exists(b) /\ JobOf[b] = JobOf[a] /\ owner[b] \in SamePerson(Home[a])

-----------------------------------------------------------------------------
(* What the documents expect and overlapping requests defeat: see the      *)
(* README, "Where the code and its documents part".                        *)

\* dup_reviews.py:182-184, two different portal logins: "the merge proceeds but
\* the conflict is FLAGGED durably", so a loser whose login is not the one its
\* survivor ended up with was flagged for staff to re-link.
LoginConflictFlagged ==
  \A r \in Review :
    /\ status[r] = "merged"
    /\ login[Loser(r)] # NoLogin
    /\ login[Loser(r)] # login[Survivor(r)]
    => r \in flagged

\* pipeline.py:25-26, the stage write is one conditional UPDATE and "Concurrent
\* movers cannot both win": a guarded move replaces the stage its request
\* checked and no other.
MovesWhatItChecked ==
  [][\A w \in Worker : CommitMove(w) => row[req[w].app].stage = req[w].seen.stage]_<<vars, mvars>>

\* pipeline.py:18-20: the consent is recorded on the application before it is
\* submitted to the client.
ConsentBeforeClient == \A a \in App : row[a].stage \in Represented => row[a].rtr

\* dup_reviews.py:104, a dismissed review: "BOTH candidates remain distinct
\* people", so the incoming one was not merged away.
DismissedStayDistinct == \A r \in Review : status[r] = "dismissed" => Loser(r) \notin retired

\* dup_reviews.py:8, 20-21: the loser's applications are repointed or archived
\* and its record is a shell, so no live application hangs on it.
RetiredOwnNothingLive == \A a \in App : Exists(a) /\ owner[a] \in retired => a \in archived
=============================================================================
