---------------------------- MODULE MCLocalScripts ----------------------------
(***************************************************************************)
(* A table with mutations that apply, one whose pattern is ambiguous and   *)
(* one whose pattern is gone; a suite that catches the last one, that does *)
(* not, or that hangs on it.                                               *)
(***************************************************************************)
EXTENDS LocalScripts

MCFEATURES == <<"ASSET", "POLICY">>
MCTrees ==
  {[token |-> <<"guard", "twice", "twice">>, policy |-> <<"bound", suite>>] :
     suite \in {"fail", "pass", "hang"}}
MCFragments ==
  {"guard", "twice", "bound", "fail", "pass", "hang", "no guard", "once", "lost", "loop", "edit"}
Mut(file, old, new) == [file |-> file, old |-> old, new |-> new]
MCMutations ==
  <<Mut("token", "guard", "no guard"), Mut("token", "twice", "once"),
    Mut("policy", "lost", "lost"), Mut("policy", "bound", "loop")>>

MCSuite(tree) ==
  CASE "no guard" \in ToSet(tree.token) -> "fail"
    [] "loop" \in ToSet(tree.policy)    -> tree.policy[2]
    [] OTHER                            -> "pass"

\* A record names its functions before or among what was counted, with or
\* without a line for those nobody called.
Line(tag, mock, name, hits) == [tag |-> tag, mock |-> mock, name |-> name, hits |-> hits]
Named(name)      == Line("FN", FALSE, name, 0)
Called(name, n)  == Line("FNDA", FALSE, name, n)
Record(mock, ls) ==
  << Line("SF", mock, "", 0) >> \o ls \o << Line("end_of_record", FALSE, "", 0) >>
Source(mock, functions) == [mock |-> mock, functions |-> functions]
MCReports ==
  {[truth |-> <<Source(first, [mint |-> n, burn |-> 1]), Source(TRUE, [mint |-> k])>>,
    lines |-> Record(first, <<Named("mint"), Called("mint", n), Named("burn"), Called("burn", 1)>>)
              \o Record(TRUE, <<Named("mint"), Line("DA", FALSE, "", 1)>>
                             \o IF k = 0 THEN <<>> ELSE <<Called("mint", k)>>)] :
     first \in BOOLEAN, n \in 0..2, k \in 0..1}
=============================================================================
