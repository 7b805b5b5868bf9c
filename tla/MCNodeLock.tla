----------------------------- MODULE MCNodeLock -----------------------------
(* An entry a of a list, with an entry c of its own; the nodes above a are  *)
(* left out, so that a can be deleted but not added again.                  *)
EXTENDS NodeLock, TLC

CONSTANTS a, c, t1, t2, t3

TheParent == (a :> NoNode) @@ (c :> a)
TheUnder == (a :> {a, c}) @@ (c :> {c})

\* Which thread gets which of three requests makes no difference.
Asked == <<<<"query", a>>, <<"modify", a>>, <<"delete", a>>, <<"query", c>>,
           <<"modify", c>>, <<"add", c>>, <<"delete", c>>>>
TheRequests == {(t1 :> Asked[i]) @@ (t2 :> Asked[j]) @@ (t3 :> Asked[k]) :
                  <<i, j, k>> \in {ijk \in (1 .. 7) \X (1 .. 7) \X (1 .. 7) :
                                    ijk[1] <= ijk[2] /\ ijk[2] <= ijk[3]}}
=============================================================================
