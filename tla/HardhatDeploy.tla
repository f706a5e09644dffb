----------------------------- MODULE HardhatDeploy -----------------------------
(***************************************************************************)
(* The order in which the hardhat-deploy plugin takes scripts: by path, each  *)
(* after the scripts that carry a tag it depends on, and those marked         *)
(* runAtTheEnd last.  A tag no script carries is ignored.                     *)
(***************************************************************************)
EXTENDS DeploymentScripts, SequencesExt

N == Len(Scripts)
ByPath == [i \in 1..N |-> i]
Dependencies ==
  [i \in 1..N |->
     FlattenSeq([k \in 1..Len(Scripts[i].dependencies) |->
       SelectSeq(ByPath, LAMBDA j : Scripts[i].dependencies[k] \in Scripts[j].tags)])]

\* The next script to register: go to the first script that is not registered, then
\* to the first of its dependencies that is not, and so on down.
RECURSIVE Descend(_, _)
Descend(registered, candidates) ==
  LET i == candidates[SelectInSeq(candidates, LAMBDA j : j \notin registered)]
  IN  IF ToSet(Dependencies[i]) \subseteq registered THEN i
      ELSE Descend(registered, Dependencies[i])

\* order with the next n scripts registered (by halves, to keep recursion shallow).
RECURSIVE Register(_, _)
Register(order, n) ==
  IF n = 1 THEN Append(order, Descend(ToSet(order), ByPath))
  ELSE Register(Register(order, n \div 2), n - n \div 2)

Registered == Register(<<>>, N)
Part(last) ==
  LET ids == SelectSeq(Registered, LAMBDA i : Scripts[i].runAtTheEnd = last)
  IN  [k \in 1..Len(ids) |-> Scripts[ids[k]]]
InOrder == Part(FALSE) \o Part(TRUE)
\* (TLC evaluates InOrder once; a LET keeps it out of the coverage tree.)
RunOrder == LET order == InOrder IN order
=============================================================================
