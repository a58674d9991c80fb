----------------------------- MODULE MCPipeline -----------------------------
(***************************************************************************)
(* Instances of Pipeline for TLC.  A journal remembers the whole path, so  *)
(* the state space grows with every move; what is followed is either every *)
(* overlap of the first moves of an application, or, from its aptitude     *)
(* test on, which it reaches undisturbed, its way to the client.           *)
(***************************************************************************)
EXTENDS Pipeline, TLC

CONSTANT EarlyVersion  \* bound on the version where every overlap is followed

VARIABLE focus         \* "early" or "late": what is followed

allVars == <<focus, vars>>

AnySpec == /\ focus \in {"early", "late"} /\ Init
           /\ [][Next /\ UNCHANGED focus]_allVars

Symmetry == Permutations(Worker)

FirstMoves == <<[from |-> "applied", to |-> "screening"],
                [from |-> "screening", to |-> "aptitude_test"]>>

\* On the way to the aptitude test: one request at a time, for these moves.
OnTheWay(a) ==
  /\ \A i \in DOMAIN journal'[a] : journal'[a][i] = FirstMoves[i]
  /\ \A v, w \in Worker : req'[v] = Idle \/ req'[w] = Idle \/ v = w
  /\ \A w \in Worker : req'[w].op # "rtr"

\* Early, callers lag behind the row; late, they send the version it has.
InFocus ==
  \A a \in App :
    /\ focus = "early" => row'[a].version <= EarlyVersion
    /\ focus = "late" /\ row[a].version < 3 => OnTheWay(a)
    /\ focus = "late" => \A w \in Worker :
         req[w] = Idle /\ req'[w].op \in {"move", "evaluate"} =>
           req'[w].expected = row[req'[w].app].version
=============================================================================
