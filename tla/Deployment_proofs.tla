--------------------------- MODULE Deployment_proofs ---------------------------
(* What interruptions cost a deployment, for any scripts that keep to
   ScriptsAssumption, in any order, on any networks, however often the process
   stops. *)
EXTENDS Deployment, Arithmetic, SequenceTheorems, TLAPS

\* The m-th step of the i-th script is a call tied to a deployment.
IsFollowUp(i, m) ==
  /\ i \in 1..Len(Order) /\ m \in 1..Len(Order[i].steps)
  /\ Order[i].steps[m].after # ""

\* It has been made, was lost, or is still ahead of the script.
Accounted(i, m) ==
  LET call == Order[i].steps[m] IN
  call.after \in records =>
    \/ <<call.contract, call.fn, call.arg>> \in called
    \/ Order[i].name \in torn
    \/ status = "running" /\ at = i /\ pc <= m /\ call.after \in newly

\* What makes FollowUpsDone inductive: a run between two scripts, or not begun,
\* has no newly deployed contract in mind, and follow-ups are all accounted for.
FollowUpsInvariant ==
  /\ at \in Nat /\ pc \in Nat
  /\ pc = 0 => newly = {}
  /\ \A i, m : IsFollowUp(i, m) => Accounted(i, m)

\* FollowUpsDone speaks of pairs, the invariant of scripts and steps.
LEMMA FollowUpsArePairs ==
  FollowUpsDone <=> \A i, m : IsFollowUp(i, m) => Accounted(i, m)
BY DEF FollowUpsDone, IsFollowUp, Accounted

\* What ScriptsAssumption says of a follow-up.
LEMMA FollowUpFacts ==
  ASSUME NEW i, NEW m, IsFollowUp(i, m)
  PROVE  /\ i \in 1..Len(Order) /\ Len(Order) \in Nat /\ i \in Nat
         /\ m \in 1..Len(Order[i].steps) /\ Len(Order[i].steps) \in Nat /\ m \in Nat
         /\ Order[i].steps[m].op = "call"
         /\ Order[i].steps[m].fn \notin {"updateExternalPositionTypesInfo", "addNewPositionTypes"}
<1>1. i \in 1..Len(Order) /\ m \in 1..Len(Order[i].steps)
  BY DEF IsFollowUp
<1>2. Len(Order) \in Nat /\ Len(Order[i].steps) \in Nat
  BY <1>1, ScriptsAssumption
<1>3. Order[i].steps[m].after # ""
  BY DEF IsFollowUp
<1>4. /\ Order[i].steps[m].op = "call"
      /\ Order[i].steps[m].fn \notin {"updateExternalPositionTypesInfo", "addNewPositionTypes"}
  BY <1>1, <1>3, ScriptsAssumption
<1> QED
  BY <1>1, <1>2, <1>4

\* A follow-up of a deployment comes later in the script that deploys the contract.
LEMMA FollowUpComesLater ==
  ASSUME NEW i, NEW m, IsFollowUp(i, m),
         NEW j \in 1..Len(Order), NEW k \in 1..Len(Order[j].steps),
         Order[j].steps[k].op # "call",
         Order[i].steps[m].after = Order[j].steps[k].contract
  PROVE  Order[j].steps[k].op = "deploy" /\ i = j /\ k < m
<1>1. i \in 1..Len(Order) /\ m \in 1..Len(Order[i].steps)
  BY FollowUpFacts
<1>2. Order[j].steps[k].contract # ""
  BY DEF IsFollowUp
<1>3. \A x \in 1..Len(Order) : \A y \in 1..Len(Order[x].steps) :
        Order[j].steps[k].op # "call" /\ Order[x].steps[y].after # ""
            /\ Order[x].steps[y].after = Order[j].steps[k].contract
          => Order[j].steps[k].op = "deploy" /\ j = x /\ k < y
  BY ScriptsAssumption
<1> QED
  BY <1>1, <1>2, <1>3

\* Nothing is recorded at first.
LEMMA FollowUpsInit == Init => FollowUpsInvariant
BY DEF Init, FollowUpsInvariant, Accounted

\* A step that leaves records alone, forgets no call and no tear, and stays where
\* it is in the script or passes a step that is not a follow-up due now.
LEMMA Passing ==
  ASSUME FollowUpsInvariant, UNCHANGED <<status, at, newly, records>>,
         pc' \in Nat, pc' = pc \/ pc' = pc + 1, pc' = 0 => pc = 0,
         called \subseteq called', torn \subseteq torn',
         \A i, m : IsFollowUp(i, m) /\ at = i /\ pc = m /\ pc' # pc
                     /\ Order[i].steps[m].after \in newly
                   => LET call == Order[i].steps[m]
                      IN  <<call.contract, call.fn, call.arg>> \in called'
  PROVE  FollowUpsInvariant'
<1>1. (at \in Nat /\ pc \in Nat /\ (pc = 0 => newly = {}))'
  BY DEF FollowUpsInvariant
<1>2. ASSUME NEW i, NEW m, IsFollowUp(i, m) PROVE Accounted(i, m)'
  <2>1. Accounted(i, m)
    BY <1>2 DEF FollowUpsInvariant
  <2>2. m \in Nat
    BY <1>2, FollowUpFacts
  <2>3. CASE status = "running" /\ at = i /\ pc <= m /\ Order[i].steps[m].after \in newly
    <3>1. CASE pc' <= m
      BY <2>3, <3>1 DEF Accounted
    <3>2. CASE ~(pc' <= m)
      <4>1. pc = m /\ pc' # pc
        BY <2>2, <2>3, <3>2 DEF FollowUpsInvariant
      <4> QED
        BY <1>2, <2>3, <4>1 DEF Accounted
    <3> QED
      BY <3>1, <3>2
  <2>4. CASE ~(status = "running" /\ at = i /\ pc <= m /\ Order[i].steps[m].after \in newly)
    BY <2>1, <2>4 DEF Accounted
  <2> QED
    BY <2>3, <2>4
<1> QED
  BY <1>1, <1>2 DEF FollowUpsInvariant, IsFollowUp

\* A script that is left with nothing of it ahead, or a run that stops and notes
\* what it abandons.
LEMMA Leaving ==
  ASSUME FollowUpsInvariant, UNCHANGED <<records, called>>,
         at' \in Nat, pc' = 0, newly' = {}, torn \subseteq torn',
         \A i, m : IsFollowUp(i, m) /\ status = "running" /\ at = i /\ pc <= m
                     /\ Order[i].steps[m].after \in newly
                   => Order[i].name \in torn'
  PROVE  FollowUpsInvariant'
<1>1. ASSUME NEW i, NEW m, IsFollowUp(i, m) PROVE Accounted(i, m)'
  <2>1. Accounted(i, m)
    BY <1>1 DEF FollowUpsInvariant
  <2> QED
    BY <1>1, <2>1 DEF Accounted
<1> QED
  BY <1>1 DEF FollowUpsInvariant, IsFollowUp

\* Stop notes a script as torn when it abandons a follow-up that was due.
LEMMA StopNotes ==
  ASSUME FollowUpsInvariant, NEW why, Running, Stop(why)
  PROVE  FollowUpsInvariant'
<1>1. ASSUME NEW i, NEW m, IsFollowUp(i, m), at = i, pc <= m,
             Order[i].steps[m].after \in newly
      PROVE  Order[i].name \in torn'
  <2>1. pc \in Nat /\ pc > 0
    BY <1>1 DEF FollowUpsInvariant
  <2>5. Order[i].steps[m].after # ""
    BY <1>1 DEF IsFollowUp
  <2>2. m \in 1..Len(Order[i].steps) /\ Len(Order[i].steps) \in Nat /\ m \in Nat
          /\ Order[i].steps[m].op = "call"
    BY <1>1, FollowUpFacts
  <2>3. m \in pc..Len(Current.steps)
    BY <1>1, <2>1, <2>2 DEF Current
  <2>4. Abandons
    BY <1>1, <2>2, <2>3, <2>5 DEF Abandons, Current
  <2> QED
    BY <1>1, <2>1, <2>4 DEF Stop, Current
<1>2. torn \subseteq torn'
  BY DEF Stop
<1> QED
  BY <1>1, <1>2, Leaving DEF Stop, chain

\* No step of a run, no interruption and nobody else's transaction loses a
\* follow-up unaccounted for.
LEMMA FollowUpsStep == FollowUpsInvariant /\ [Next]_vars => FollowUpsInvariant'
<1> SUFFICES ASSUME FollowUpsInvariant, [Next]_vars PROVE FollowUpsInvariant'
  OBVIOUS
<1>1. CASE StartRun \/ Rerun
  BY <1>1 DEF StartRun, Rerun, Start, chain, history, FollowUpsInvariant, Accounted, IsFollowUp
<1>2. CASE SkipScript \/ EndScript
  <2>1. ASSUME NEW i, NEW m, IsFollowUp(i, m), at = i, pc <= m,
               Order[i].steps[m].after \in newly
        PROVE  FALSE
    <3>1. pc # 0
      BY <2>1 DEF FollowUpsInvariant
    <3>2. pc > Len(Order[i].steps)
      BY <1>2, <2>1, <3>1 DEF SkipScript, EndScript, Current
    <3>3. m \in 1..Len(Order[i].steps) /\ Len(Order[i].steps) \in Nat /\ m \in Nat
      BY <2>1, FollowUpFacts
    <3> QED
      BY <2>1, <3>2, <3>3 DEF FollowUpsInvariant
  <2>2. at' \in Nat /\ pc' = 0 /\ newly' = {} /\ UNCHANGED <<records, called, torn>>
    BY <1>2
    DEF SkipScript, EndScript, Leave, Running, chain, FollowUpsInvariant
  <2> QED
    BY <2>1, <2>2, Leaving
<1>3. CASE EnterScript
  <2>1. newly = {}
    BY <1>3 DEF EnterScript, FollowUpsInvariant
  <2> QED
    BY <1>3, <2>1, Passing DEF EnterScript, chain, FollowUpsInvariant
<1>4. CASE SaveConfig
  <2>1. ASSUME NEW i, NEW m, IsFollowUp(i, m) PROVE Accounted(i, m)'
    <3>0. at \in 1..Len(Order) /\ pc \in 1..Len(Order[at].steps) /\ Step.op = "save"
            /\ Step = Order[at].steps[pc]
      BY <1>4 DEF SaveConfig, InStep, Running, Step, Current
    <3>1. Order[i].steps[m].after # Step.contract /\ ~(at = i /\ pc = m)
      BY <2>1, <3>0, FollowUpFacts, FollowUpComesLater
    <3>2. Accounted(i, m)
      BY <2>1 DEF FollowUpsInvariant
    <3>3. at = i /\ pc <= m => pc' <= m
      BY <1>4, <2>1, <3>1, FollowUpFacts DEF SaveConfig, FollowUpsInvariant
    <3> QED
      BY <1>4, <3>1, <3>2, <3>3 DEF SaveConfig, chain, history, Accounted
  <2>2. (at \in Nat /\ pc \in Nat /\ (pc = 0 => newly = {}))'
    BY <1>4 DEF SaveConfig, FollowUpsInvariant
  <2> QED
    BY <2>1, <2>2 DEF FollowUpsInvariant, IsFollowUp
<1>5. CASE DeployContract
  <2>1. ASSUME NEW i, NEW m, IsFollowUp(i, m) PROVE Accounted(i, m)'
    <3>0. at \in 1..Len(Order) /\ pc \in 1..Len(Order[at].steps) /\ Step.op = "deploy"
            /\ Step = Order[at].steps[pc]
      BY <1>5 DEF DeployContract, InStep, Running, Step, Current
    <3>1. /\ ~(at = i /\ pc = m)
          /\ Order[i].steps[m].after = Step.contract => at = i /\ pc < m
      <4>1. ~(at = i /\ pc = m)
        BY <2>1, <3>0, FollowUpFacts
      <4>2. Order[i].steps[m].after = Step.contract => at = i /\ pc < m
        BY <2>1, <3>0, FollowUpComesLater
      <4> QED
        BY <4>1, <4>2
    <3>2. Accounted(i, m)
      BY <2>1 DEF FollowUpsInvariant
    <3>3. at = i /\ pc <= m => pc' <= m
      BY <1>5, <2>1, <3>1, FollowUpFacts DEF DeployContract, FollowUpsInvariant
    <3>4. m \in Nat /\ pc \in Nat
      BY <2>1, FollowUpFacts DEF FollowUpsInvariant
    <3>5. CASE Step.contract \in records
      BY <1>5, <3>2, <3>3, <3>5 DEF DeployContract, chain, history, Accounted
    <3>6. CASE Step.contract \notin records
      <4>1. CASE Order[i].steps[m].after = Step.contract
        BY <1>5, <3>1, <3>3, <3>4, <3>6, <4>1
        DEF DeployContract, InStep, Running, Accounted
      <4>2. CASE Order[i].steps[m].after # Step.contract
        BY <1>5, <3>2, <3>3, <3>6, <4>2 DEF DeployContract, history, Accounted
      <4> QED
        BY <4>1, <4>2
    <3> QED
      BY <3>5, <3>6
  <2>2. (at \in Nat /\ pc \in Nat /\ (pc = 0 => newly = {}))'
    BY <1>5 DEF DeployContract, FollowUpsInvariant
  <2> QED
    BY <2>1, <2>2 DEF FollowUpsInvariant, IsFollowUp
<1>6. CASE SkipCall
  <2>1. ASSUME NEW i, NEW m, IsFollowUp(i, m), at = i, pc = m,
               Order[i].steps[m].after \in newly
        PROVE  FALSE
    <3>1. Step = Order[i].steps[m]
      BY <2>1 DEF Step, Current
    <3>2. ~Due(Step) /\ Step.op = "call"
      BY <1>6 DEF SkipCall
    <3> QED
      BY <2>1, <3>1, <3>2, FollowUpFacts DEF Due
  <2> QED
    BY <1>6, <2>1, Passing DEF SkipCall, chain, history, FollowUpsInvariant
<1>7. CASE Transact
  <2>1. ASSUME NEW i, NEW m, at = i, pc = m
        PROVE  LET call == Order[i].steps[m]
               IN  <<call.contract, call.fn, call.arg>> \in called'
    BY <1>7, <2>1 DEF Transact, Step, Current
  <2>2. UNCHANGED <<status, at, newly, records, torn>> /\ pc' = pc + 1 /\ called \subseteq called'
    BY <1>7 DEF Transact, history
  <2> QED
    BY <2>1, <2>2, Passing DEF FollowUpsInvariant
<1>8. CASE FailLookup
  BY <1>8, StopNotes DEF FailLookup
<1>9. CASE Revert
  BY <1>9, StopNotes DEF Revert, Calls, InStep
<1>10. CASE Interrupt
  BY <1>10, StopNotes DEF Interrupt
<1>11. CASE CreateForeignList
  BY <1>11, Passing DEF CreateForeignList, runner, FollowUpsInvariant
<1>12. CASE UNCHANGED vars
  BY <1>12, Passing DEF vars, runner, chain, history, FollowUpsInvariant
<1> QED
  BY <1>1, <1>2, <1>3, <1>4, <1>5, <1>6, <1>7, <1>8, <1>9, <1>10, <1>11, <1>12
  DEF Next, RunnerStep

\* A complete account of what interruptions cost: whatever the scripts are, in
\* whatever order they run, wherever and however often the process stops and the
\* chain reverts, a call tied to a deployment is made, is ahead of the running
\* script, or was lost by a run that stopped inside that script.
THEOREM FollowUpsNeverForgotten == Spec => []FollowUpsDone
<1>1. FollowUpsInvariant => FollowUpsDone
  BY FollowUpsArePairs DEF FollowUpsInvariant
<1> QED
  BY <1>1, FollowUpsInit, FollowUpsStep, PTL DEF Spec

-----------------------------------------------------------------------------
(* What the order of the scripts gives every run, whatever stopped before it. *)

\* A step of a script that applies to the network.
IsStep(i, k) ==
  /\ i \in 1..Len(Order) /\ Applies(network, Order[i])
  /\ k \in 1..Len(Order[i].steps)

\* Between two runs nothing is under way; a script that has been entered applies;
\* only what the scripts of this network record is recorded.
PlaceInvariant ==
  /\ network \in Networks
  /\ at \in Nat \ {0} /\ pc \in Nat
  /\ status # "running" => at = 1 /\ pc = 0
  /\ pc > 0 => at \in 1..Len(Order) /\ Applies(network, Order[at])
  /\ records \subseteq Made(network)

\* What remains of a step that has been taken: its record, or its call, unless that is
\* tied to a deployment.
DoneStep(i, k) ==
  LET step == Order[i].steps[k]
  IN  /\ step.op # "call" => step.contract \in records
      /\ step.op = "call" /\ step.after = "" => <<step.contract, step.fn, step.arg>> \in called
\* Steps behind the process, which are all of them once a run has been completed.
Passed(i, k) ==
  \/ completed
  \/ status = "running" /\ (i < at \/ (i = at /\ k < pc))
\* Steps of a script that is skipped because of what it has recorded.
Spared(i) == Order[i].unless # {} /\ Order[i].unless \subseteq records

ProgressInvariant ==
  \A i, k : IsStep(i, k) /\ (Passed(i, k) \/ Spared(i)) => DoneStep(i, k)

LEMMA OrderIsFinite == Len(Order) \in Nat /\ \A i \in 1..Len(Order) : Len(Order[i].steps) \in Nat
BY ScriptsAssumption

\* The assumption about the order, at one step.
LEMMA OrderFacts ==
  ASSUME NEW n \in Networks, NEW i \in 1..Len(Order), Applies(n, Order[i])
  PROVE  /\ LooksUpInTime(n, i)
         /\ \A k \in 1..Len(Order[i].steps) : NamesInTime(n, i, k) /\ RepeatsNothing(n, i, k)
BY OrderAssumption

\* What is recorded before the i-th script is recorded by a step of an earlier script.
LEMMA MadeBeforeStep ==
  ASSUME NEW n, NEW i, NEW c \in MadeBefore(n, i)
  PROVE  \E j \in 1..Len(Order) : \E k \in 1..Len(Order[j].steps) :
           /\ j < i /\ Applies(n, Order[j])
           /\ Order[j].steps[k].op # "call" /\ Order[j].steps[k].contract = c
BY DEF MadeBefore, RecordedBy

LEMMA StepMakes ==
  ASSUME NEW n, NEW j \in 1..Len(Order), NEW k \in 1..Len(Order[j].steps), Applies(n, Order[j]),
         Order[j].steps[k].op # "call"
  PROVE  Order[j].steps[k].contract \in Made(n)
<1>1. j < Len(Order) + 1
  BY OrderIsFinite
<1>2. Order[j].steps[k].contract \in RecordedBy(Order[j])
  BY DEF RecordedBy
<1> QED
  BY <1>1, <1>2 DEF Made, MadeBefore

\* What the process is at.
LEMMA StepFacts ==
  ASSUME PlaceInvariant, InStep
  PROVE  /\ at \in 1..Len(Order) /\ pc \in 1..Len(Order[at].steps) /\ Applies(network, Order[at])
         /\ IsStep(at, pc) /\ Step = Order[at].steps[pc] /\ status = "running"
         /\ pc \in Nat /\ pc > 0 /\ network \in Networks
BY OrderIsFinite DEF InStep, Running, Current, Step, PlaceInvariant, IsStep

LEMMA PlaceInit == Init => PlaceInvariant
BY DEF Init, PlaceInvariant

LEMMA PlaceStep == PlaceInvariant /\ [Next]_vars => PlaceInvariant'
<1> SUFFICES ASSUME PlaceInvariant, [Next]_vars PROVE PlaceInvariant'
  OBVIOUS
<1> USE DEF PlaceInvariant
<1>1. CASE StartRun \/ Rerun
  BY <1>1 DEF StartRun, Rerun, Start
<1>2. CASE SkipScript \/ EndScript
  BY <1>2, OrderIsFinite DEF SkipScript, EndScript, Leave, Running
<1>3. CASE EnterScript
  BY <1>3 DEF EnterScript, Running, Omits, Here, Current
<1>4. CASE SaveConfig
  <2>1. Step.contract \in Made(network)
    BY <1>4, StepFacts, StepMakes DEF SaveConfig
  <2> QED
    BY <1>4, <2>1 DEF SaveConfig, InStep, Running
<1>5. CASE DeployContract
  <2>1. Step.contract \in Made(network)
    BY <1>5, StepFacts, StepMakes DEF DeployContract
  <2> QED
    BY <1>5, <2>1 DEF DeployContract, InStep, Running
<1>6. CASE SkipCall
  BY <1>6 DEF SkipCall, InStep, Running
<1>7. CASE Transact
  BY <1>7 DEF Transact, Calls, InStep, Running
<1>8. CASE FailLookup \/ Revert \/ Interrupt
  BY <1>8 DEF FailLookup, Revert, Interrupt, Stop
<1>9. CASE CreateForeignList
  BY <1>9 DEF CreateForeignList, runner
<1>10. CASE UNCHANGED vars
  BY <1>10 DEF vars, runner
<1> QED
  BY <1>1, <1>2, <1>3, <1>4, <1>5, <1>6, <1>7, <1>8, <1>9, <1>10 DEF Next, RunnerStep

\* On any chain the scripts before the one at hand have left their records.
LEMMA BeforeIsRecorded ==
  ASSUME PlaceInvariant, ProgressInvariant, status = "running"
  PROVE  MadeBefore(network, at) \subseteq records
<1> SUFFICES ASSUME NEW c \in MadeBefore(network, at) PROVE c \in records
  OBVIOUS
<1>1. PICK j \in 1..Len(Order) : \E k \in 1..Len(Order[j].steps) :
        /\ j < at /\ Applies(network, Order[j])
        /\ Order[j].steps[k].op # "call" /\ Order[j].steps[k].contract = c
  BY MadeBeforeStep
<1>2. PICK k \in 1..Len(Order[j].steps) :
        /\ j < at /\ Applies(network, Order[j])
        /\ Order[j].steps[k].op # "call" /\ Order[j].steps[k].contract = c
  BY <1>1
<1>3. IsStep(j, k) /\ Passed(j, k)
  BY <1>2 DEF IsStep, Passed
<1> QED
  BY <1>2, <1>3 DEF ProgressInvariant, DoneStep

\* Once a run has been completed everything is recorded.
LEMMA AllIsRecorded ==
  ASSUME PlaceInvariant, ProgressInvariant, completed
  PROVE  records = Made(network)
<1>1. ASSUME NEW c \in Made(network) PROVE c \in records
  <2>1. c \in MadeBefore(network, Len(Order) + 1)
    BY <1>1 DEF Made
  <2>2. PICK j \in 1..Len(Order) : \E k \in 1..Len(Order[j].steps) :
          /\ Applies(network, Order[j])
          /\ Order[j].steps[k].op # "call" /\ Order[j].steps[k].contract = c
    BY <2>1, MadeBeforeStep
  <2>3. PICK k \in 1..Len(Order[j].steps) :
          /\ Applies(network, Order[j])
          /\ Order[j].steps[k].op # "call" /\ Order[j].steps[k].contract = c
    BY <2>2
  <2>4. IsStep(j, k) /\ Passed(j, k)
    BY <2>3 DEF IsStep, Passed
  <2> QED
    BY <2>3, <2>4 DEF ProgressInvariant, DoneStep
<1> QED
  BY <1>1 DEF PlaceInvariant

\* What is settled before a script is recorded when the script is at hand.
LEMMA SettledIsRecorded ==
  ASSUME PlaceInvariant, ProgressInvariant, status = "running", NEW names,
         Settled(network, at, names)
  PROVE  names \intersect Made(network) = names \intersect records
BY BeforeIsRecorded DEF Settled, PlaceInvariant

\* The package numbers the types in the order in which their labels are added.
LEMMA TypesFacts ==
  /\ PositionTypes \in Seq(PositionLabels) /\ Len(PositionTypes) = 10
  /\ \A l \in PositionLabels : ExternalPositionType[l] \in 0..9
       /\ PositionTypes[ExternalPositionType[l] + 1] = l
<1>1. Len(PositionTypes) = 10
  BY DEF PositionTypes
<1>2. \A i \in 1..10 : PositionTypes[i] \in PositionLabels
  BY <1>1 DEF PositionLabels
<1>3. PositionTypes \in Seq(PositionLabels)
  <2>1. PositionTypes = [i \in 1..10 |-> PositionTypes[i]]
    BY DEF PositionTypes
  <2> QED
    BY <1>2, <2>1, IsASeq
<1>4. ASSUME NEW l \in PositionLabels
      PROVE  ExternalPositionType[l] \in 0..9 /\ PositionTypes[ExternalPositionType[l] + 1] = l
  <2>1. PICK i \in 1..10 : l = PositionTypes[i]
    BY <1>1 DEF PositionLabels
  <2> QED
    BY <2>1 DEF PositionTypes, ExternalPositionType
<1> QED
  BY <1>1, <1>3, <1>4

\* If both contracts of every type are recorded, the labels are those of all types.
LEMMA AllTypesFound ==
  ASSUME \A l \in PositionLabels : Found(l)
  PROVE  FoundTypes = PositionTypes
<1> DEFINE N == Len(PositionTypes)
           E(g) == [k \in 0..N |->
                      IF k = 0 THEN <<>>
                      ELSE IF Found(PositionTypes[k]) THEN Append(g[k - 1], PositionTypes[k])
                      ELSE g[k - 1]]
           f == CHOOSE g : g = E(g)
           h == [k \in 0..N |-> SubSeq(PositionTypes, 1, k)]
<1>0. PositionTypes \in Seq(PositionLabels) /\ N = 10
  BY TypesFacts
<1>1. ASSUME NEW k \in 1..N PROVE Found(PositionTypes[k]) /\ PositionTypes[k] \in PositionLabels
  BY <1>1 DEF PositionLabels
<1>2. h = E(h)
  <2>1. ASSUME NEW k \in 0..N, k # 0
        PROVE  h[k] = Append(h[k - 1], PositionTypes[k])
    <3>1. k \in 1..N /\ k - 1 \in 0..N /\ k \in Nat /\ k - 1 \in Nat
      BY <1>0, <2>1
    <3> HIDE DEF h, N
    <3>2. h[k] = SubSeq(PositionTypes, 1, k) /\ h[k - 1] = SubSeq(PositionTypes, 1, k - 1)
      BY <3>1 DEF h
    <3>3. SubSeq(PositionTypes, 1, k) = Append(SubSeq(PositionTypes, 1, k - 1), PositionTypes[k])
      BY <3>1, <1>0, Z3 DEF N
    <3> QED
      BY <3>2, <3>3
  <2>2. h[0] = <<>>
    BY <1>0
  <2> QED
    BY <2>1, <2>2, <1>1, <1>0
<1>3. f = E(f)
  BY <1>2
<1>4. FoundTypes = f[N]
  BY DEF FoundTypes
<1> HIDE DEF f
<1>5. ASSUME NEW k \in 0..N PROVE f[k] = h[k]
  <2> DEFINE P == {i \in 0..N : f[i] = h[i]}
  <2>1. 0 \in P
    BY <1>2, <1>3, <1>0
  <2>2. ASSUME NEW i \in P, i + 1 \in 0..N PROVE i + 1 \in P
    <3>1. i + 1 # 0 /\ (i + 1) - 1 = i
      BY <2>2, <1>0
    <3>2. f[i + 1] = Append(f[i], PositionTypes[i + 1])
      <4>1. i + 1 \in 0..N /\ i + 1 \in 1..N
        BY <2>2, <1>0
      <4>2. E(f)[i + 1] = Append(f[i], PositionTypes[i + 1])
        BY <3>1, <4>1, <1>1
      <4> QED
        BY <4>2, <1>3
    <3>3. h[i + 1] = Append(h[i], PositionTypes[i + 1])
      BY <3>1, <2>2, <1>2, <1>1, <1>0, SMTT(30)
    <3> QED
      BY <2>2, <3>2, <3>3
  <2> HIDE DEF P
  <2>3. \A i \in 0..(N - 1) : i \in P => i + 1 \in P
    BY <2>2, <1>0
  <2>4. k \in P
    BY <2>1, <2>3, <1>0, InductionUpTo
  <2> QED
    BY <2>4 DEF P
<1>6. h[N] = PositionTypes
  BY <1>0
<1>7. N \in 0..N
  BY <1>0
<1> HIDE DEF N, h
<1> QED
  BY <1>4, <1>5, <1>6, <1>7

\* A call that depends on what is recorded, and is not tied to a deployment, is due:
\* the scripts before it record both contracts of every type.
LEMMA UntiedIsDue ==
  ASSUME PlaceInvariant, ProgressInvariant, InStep, Step.op = "call", Step.after = ""
  PROVE  Due(Step)
<1>1. CASE Step.fn \in {"addNewPositionTypes", "updateExternalPositionTypesInfo"}
  <2>1. NamesInTime(network, at, pc)
    BY StepFacts, OrderFacts
  <2>2. UNION {PositionContracts[l] : l \in PositionLabels} \subseteq records
    BY <1>1, <2>1, StepFacts, BeforeIsRecorded DEF NamesInTime
  <2>3. \A l \in PositionLabels : Found(l)
    BY <2>2 DEF Found
  <2>4. FoundTypes # <<>>
    <3>1. FoundTypes = PositionTypes
      BY <2>3, AllTypesFound
    <3>2. PositionTypes # <<>>
      BY DEF PositionTypes
    <3> QED
      BY <3>1, <3>2
  <2>5. Step.fn = "updateExternalPositionTypesInfo" => Step.arg \in PositionLabels
    BY <2>1, StepFacts DEF NamesInTime
  <2> QED
    BY <2>3, <2>4, <2>5 DEF Due
<1>2. CASE Step.fn \notin {"addNewPositionTypes", "updateExternalPositionTypesInfo"}
  BY <1>2 DEF Due
<1> QED
  BY <1>1, <1>2

\* A script that is skipped once something is recorded records it last.
LEMMA SparedFacts ==
  ASSUME PlaceInvariant, NEW i, NEW k, IsStep(i, k), Order[i].unless # {}
  PROVE  LET s == Order[i]
         IN  IF k = Len(s.steps)
             THEN /\ s.unless = {s.steps[k].contract} /\ s.steps[k].op = "deploy"
                  /\ \A j \in 1..Len(Order) : j # i => s.unless \intersect RecordedBy(Order[j]) = {}
             ELSE s.steps[k].op = "call" /\ s.steps[k].after = ""
<1>1. LooksUpInTime(network, i)
  BY OrderFacts DEF IsStep, PlaceInvariant
<1> QED
  BY <1>1 DEF LooksUpInTime, IsStep

\* Passing one step of a script.
LEMMA ProgressAdvances ==
  ASSUME PlaceInvariant, ProgressInvariant, InStep, pc' = pc + 1,
         UNCHANGED <<network, status, at, completed>>,
         called \subseteq called',
         \/ records' = records
         \/ Step.op # "call" /\ records' = records \union {Step.contract},
         \A i, k : i = at /\ k = pc => DoneStep(i, k)'
  PROVE  ProgressInvariant'
<1> SUFFICES ASSUME NEW i, NEW k, IsStep(i, k), (Passed(i, k) \/ Spared(i))'
             PROVE  DoneStep(i, k)'
  BY DEF ProgressInvariant, IsStep
<1>0. /\ i \in 1..Len(Order) /\ k \in 1..Len(Order[i].steps)
      /\ Len(Order) \in Nat /\ Len(Order[i].steps) \in Nat /\ i \in Nat /\ k \in Nat
  BY OrderIsFinite DEF IsStep
<1>1. DoneStep(i, k) => DoneStep(i, k)'
  BY DEF DoneStep
<1>2. CASE Passed(i, k)'
  <2>1. Passed(i, k) \/ (i = at /\ k = pc)
    BY <1>0, <1>2, StepFacts DEF Passed
  <2> QED
    BY <1>1, <2>1 DEF ProgressInvariant
<1>3. CASE Spared(i) \/ Passed(i, k)
  BY <1>1, <1>3 DEF ProgressInvariant
<1>4. CASE Spared(i)' /\ ~Spared(i)
  <2>1. Step.op # "call" /\ Step.contract \in Order[i].unless /\ Order[i].unless # {}
    BY <1>4 DEF Spared
  <2>2. PICK last : last = Len(Order[i].steps)
    OBVIOUS
  <2>3. last \in 1..Len(Order[i].steps) /\ IsStep(i, last)
    BY <1>0, <2>2 DEF IsStep
  <2>4. /\ Order[i].unless = {Order[i].steps[last].contract}
        /\ \A j \in 1..Len(Order) : j # i => Order[i].unless \intersect RecordedBy(Order[j]) = {}
    BY <2>1, <2>2, <2>3, SparedFacts
  <2>5. Step.contract \in RecordedBy(Order[at])
    BY <2>1, StepFacts DEF RecordedBy
  <2>6. at = i
    BY <2>1, <2>4, <2>5, StepFacts
  <2>7. pc = Len(Order[i].steps)
    <3>1. IsStep(i, pc) /\ Step = Order[i].steps[pc]
      BY <2>6, StepFacts
    <3>2. pc # Len(Order[i].steps) => Order[i].steps[pc].op = "call"
      BY <2>1, <3>1, SparedFacts
    <3> QED
      BY <2>1, <3>1, <3>2
  <2>8. (i = at /\ k = pc) \/ Passed(i, k)
    BY <1>0, <2>6, <2>7, StepFacts DEF Passed
  <2> QED
    BY <1>1, <2>8 DEF ProgressInvariant
<1> QED
  BY <1>2, <1>3, <1>4

\* Leaving a script that has come to its end or is skipped.
LEMMA ProgressLeaves ==
  ASSUME PlaceInvariant, ProgressInvariant, Running, Leave,
         \A k : IsStep(at, k) => Passed(at, k) \/ Spared(at)
  PROVE  ProgressInvariant'
<1> SUFFICES ASSUME NEW i, NEW k, IsStep(i, k), (Passed(i, k) \/ Spared(i))'
             PROVE  DoneStep(i, k)'
  BY DEF ProgressInvariant, IsStep, Leave
<1>0. /\ i \in 1..Len(Order) /\ k \in 1..Len(Order[i].steps) /\ at \in 1..Len(Order)
      /\ Len(Order) \in Nat /\ i \in Nat /\ k \in Nat /\ at \in Nat
  BY OrderIsFinite DEF IsStep, Running
<1>1. DoneStep(i, k) => DoneStep(i, k)'
  BY DEF DoneStep, Leave, chain
<1>2. Spared(i)' => Spared(i)
  BY DEF Spared, Leave
<1>3. Passed(i, k)' => Passed(i, k) \/ i = at
  BY <1>0 DEF Passed, Leave, Running
<1> QED
  BY <1>1, <1>2, <1>3 DEF ProgressInvariant

LEMMA ProgressInit == Init => ProgressInvariant
BY DEF Init, ProgressInvariant, Passed, Spared, DoneStep

\* Neither a stop nor a start undoes a step, and no step of a script but is done when
\* it is passed.
LEMMA ProgressStep ==
  PlaceInvariant /\ ProgressInvariant /\ [Next]_vars => ProgressInvariant'
<1> SUFFICES ASSUME PlaceInvariant, ProgressInvariant, [Next]_vars PROVE ProgressInvariant'
  OBVIOUS
<1>0. ASSUME UNCHANGED <<network, records, called, completed>>,
             \A i, k : IsStep(i, k) /\ Passed(i, k)' => Passed(i, k)
      PROVE  ProgressInvariant'
  BY <1>0 DEF ProgressInvariant, IsStep, Passed, Spared, DoneStep
<1>1. CASE StartRun \/ Rerun
  <2>1. ASSUME NEW i, NEW k, IsStep(i, k), Passed(i, k)' PROVE Passed(i, k)
    <3>1. at = 1 /\ pc = 0 /\ at' = 1 /\ pc' = 0 /\ completed' = completed
      BY <1>1 DEF StartRun, Rerun, Start, PlaceInvariant, history
    <3>2. i \in Nat \ {0} /\ k \in Nat
      BY <2>1, OrderIsFinite DEF IsStep
    <3> QED
      BY <2>1, <3>1, <3>2 DEF Passed
  <2> QED
    BY <1>0, <1>1, <2>1 DEF StartRun, Rerun, Start, chain, history
<1>2. CASE SkipScript
  BY <1>2, ProgressLeaves DEF SkipScript, Omits, Spared, IsStep, Here, Current
<1>3. CASE EndScript
  <2>1. ASSUME NEW k, IsStep(at, k) PROVE Passed(at, k)
    BY <1>3, <2>1, OrderIsFinite DEF EndScript, Running, Current, IsStep, Passed, PlaceInvariant
  <2> QED
    BY <1>3, <2>1, ProgressLeaves DEF EndScript
<1>4. CASE EnterScript
  <2>1. ASSUME NEW i, NEW k, IsStep(i, k), Passed(i, k)' PROVE Passed(i, k)
    <3>1. k \in Nat \ {0}
      BY <2>1, OrderIsFinite DEF IsStep
    <3> QED
      BY <1>4, <2>1, <3>1 DEF EnterScript, Passed
  <2> QED
    BY <1>0, <1>4, <2>1 DEF EnterScript, chain
<1>5. CASE SaveConfig
  <2>1. ASSUME NEW i, NEW k, i = at, k = pc PROVE DoneStep(i, k)'
    BY <1>5, <2>1, StepFacts DEF SaveConfig, DoneStep
  <2> QED
    BY <1>5, <2>1, ProgressAdvances DEF SaveConfig, chain, history
<1>6. CASE DeployContract
  <2>1. Step.contract \in records' /\ Step.op = "deploy" /\ UNCHANGED at
    BY <1>6 DEF DeployContract
  <2>2. ASSUME NEW i, NEW k, i = at, k = pc PROVE DoneStep(i, k)'
    BY <2>2, <1>6, <2>1, StepFacts DEF DeployContract, DoneStep
  <2>3. \/ records' = records
        \/ Step.op # "call" /\ records' = records \union {Step.contract}
    BY <1>6 DEF DeployContract
  <2> QED
    BY <1>6, <2>2, <2>3, ProgressAdvances DEF DeployContract, history
<1>7. CASE SkipCall
  <2>1. Step.after # ""
    BY <1>7, UntiedIsDue DEF SkipCall
  <2>2. ASSUME NEW i, NEW k, i = at, k = pc PROVE DoneStep(i, k)'
    BY <2>2, <1>7, <2>1, StepFacts DEF SkipCall, DoneStep
  <2> QED
    BY <1>7, <2>2, ProgressAdvances DEF SkipCall, chain, history
<1>8. CASE Transact
  <2>1. InStep /\ Step.op = "call"
    BY <1>8 DEF Transact, Calls
  <2>2. ASSUME NEW i, NEW k, i = at, k = pc PROVE DoneStep(i, k)'
    BY <2>2, <1>8, <2>1, StepFacts DEF Transact, DoneStep
  <2> QED
    BY <1>8, <2>1, <2>2, ProgressAdvances DEF Transact, history
<1>9. CASE FailLookup \/ Revert \/ Interrupt
  <2>1. status' # "running" /\ UNCHANGED <<network, records, called, completed>>
    BY <1>9 DEF FailLookup, Revert, Interrupt, Stop, chain
  <2> QED
    BY <1>0, <2>1 DEF Passed
<1>10. CASE CreateForeignList
  BY <1>0, <1>10 DEF CreateForeignList, runner, Passed
<1>11. CASE UNCHANGED vars
  BY <1>0, <1>11 DEF vars, runner, chain, history, Passed
<1> QED
  BY <1>1, <1>2, <1>3, <1>4, <1>5, <1>6, <1>7, <1>8, <1>9, <1>10, <1>11 DEF Next, RunnerStep

BaseInvariant == PlaceInvariant /\ ProgressInvariant

LEMMA BaseStep == BaseInvariant /\ [Next]_vars => BaseInvariant'
BY PlaceStep, ProgressStep DEF BaseInvariant

LEMMA BaseCorrect == Spec => []BaseInvariant
<1>1. Init => BaseInvariant
  BY PlaceInit, ProgressInit DEF BaseInvariant
<1> QED
  BY <1>1, BaseStep, PTL DEF Spec

-----------------------------------------------------------------------------
(* What the scripts look for. *)

\* What a script did not find no script of this network records.
LookupsInvariant ==
  /\ status = "missing" => network.chain \notin Both
  /\ \A m \in missed : m[2] \notin Made(network)

LEMMA LookupsStep == BaseInvariant /\ LookupsInvariant /\ [Next]_vars => LookupsInvariant'
<1> SUFFICES ASSUME PlaceInvariant, ProgressInvariant, LookupsInvariant, [Next]_vars
             PROVE  LookupsInvariant'
  BY DEF BaseInvariant
<1> USE DEF LookupsInvariant
<1>1. CASE EnterScript
  <2>1. at \in 1..Len(Order) /\ Applies(network, Order[at]) /\ status = "running"
          /\ network \in Networks
    BY <1>1 DEF EnterScript, Running, Omits, Here, Current, PlaceInvariant
  <2>2. Settled(network, at, Order[at].getOrNull)
    BY <2>1, OrderFacts DEF LooksUpInTime
  <2>3. Order[at].getOrNull \intersect Made(network) = Order[at].getOrNull \intersect records
    BY <2>1, <2>2, SettledIsRecorded
  <2>4. ASSUME NEW m \in missed' PROVE m[2] \notin Made(network)
    BY <1>1, <2>3 DEF EnterScript, Current
  <2> QED
    BY <1>1, <2>1, <2>4 DEF EnterScript
<1>2. CASE FailLookup
  <2>1. at \in 1..Len(Order) /\ Applies(network, Order[at]) /\ status = "running"
          /\ network \in Networks
    BY <1>2 DEF FailLookup, Running, Omits, Here, Current, PlaceInvariant
  <2>2. LooksUpInTime(network, at) /\ MadeBefore(network, at) \subseteq records
    BY <2>1, OrderFacts, BeforeIsRecorded
  <2>3. network.chain \notin Both
    BY <1>2, <2>2 DEF FailLookup, Lacks, LooksUpInTime, Current
  <2> QED
    BY <1>2, <2>3 DEF FailLookup, Stop
<1>3. CASE StartRun \/ Rerun
  BY <1>3 DEF StartRun, Rerun, Start, history
<1>4. CASE SkipScript \/ EndScript
  BY <1>4 DEF SkipScript, EndScript, Leave
<1>5. CASE SaveConfig \/ SkipCall \/ DeployContract \/ Transact
  BY <1>5 DEF SaveConfig, SkipCall, DeployContract, Transact, history
<1>6. CASE Revert \/ Interrupt
  BY <1>6 DEF Revert, Interrupt, Stop
<1>7. CASE CreateForeignList
  BY <1>7 DEF CreateForeignList, runner
<1>8. CASE UNCHANGED vars
  BY <1>8 DEF vars, runner, history
<1> QED
  BY <1>1, <1>2, <1>3, <1>4, <1>5, <1>6, <1>7, <1>8 DEF Next, RunnerStep

\* However often the process stopped before and whatever was recorded then: on a chain
\* with a configuration no run stops for a missing record or section, and what a
\* script goes on without is never recorded later.
THEOREM LookupsAlwaysSettled == Spec => []LookupsSettled
<1>1. Init => LookupsInvariant
  BY DEF Init, LookupsInvariant
<1>2. BaseInvariant /\ LookupsInvariant => LookupsSettled
  BY DEF BaseInvariant, PlaceInvariant, LookupsInvariant, LookupsSettled
<1> QED
  BY <1>1, <1>2, LookupsStep, BaseCorrect, PTL DEF Spec

-----------------------------------------------------------------------------
(* The types of external positions. *)

\* The first labels of the factory are those of all types, in order.
LabelsInvariant ==
  /\ labels \in Seq(PositionLabels)
  /\ labels # <<>> => \A x \in 1..10 : x <= Len(labels) /\ labels[x] = PositionTypes[x]
  /\ \A t \in typeInfo : t[1] \in 0..9 /\ t[1] < Len(labels) /\ labels[t[1] + 1] = t[2]

LEMMA LabelsStep == BaseInvariant /\ LabelsInvariant /\ [Next]_vars => LabelsInvariant'
<1> SUFFICES ASSUME PlaceInvariant, ProgressInvariant, LabelsInvariant, [Next]_vars
             PROVE  LabelsInvariant'
  BY DEF BaseInvariant
<1>1. CASE UNCHANGED <<labels, typeInfo>>
  BY <1>1 DEF LabelsInvariant
<1>2. CASE Transact
  <2>1. InStep /\ Due(Step) /\ Accepts(Step)
    BY <1>2 DEF Transact, Calls
  <2>2. NamesInTime(network, at, pc) /\ Step = Order[at].steps[pc] /\ status = "running"
    BY <2>1, StepFacts, OrderFacts
  <2>3. CASE Step.fn = "addNewPositionTypes"
    <3>1. \A l \in PositionLabels : Found(l)
      BY <2>2, <2>3, BeforeIsRecorded DEF NamesInTime, Found
    <3>2. labels' = labels \o PositionTypes /\ UNCHANGED typeInfo
      BY <1>2, <2>3, <3>1, AllTypesFound DEF Transact
    <3>3. labels' \in Seq(PositionLabels) /\ Len(labels') = Len(labels) + 10 /\ Len(labels) \in Nat
      <4>1. labels \in Seq(PositionLabels) /\ PositionTypes \in Seq(PositionLabels)
        BY TypesFacts DEF LabelsInvariant
      <4>2. /\ labels \o PositionTypes \in Seq(PositionLabels)
            /\ Len(labels \o PositionTypes) = Len(labels) + Len(PositionTypes)
            /\ Len(labels) \in Nat
        BY <4>1
      <4> QED
        BY <3>2, <4>2, TypesFacts
    <3>4. \A y \in 1..Len(labels) : labels'[y] = labels[y]
      BY <3>2, TypesFacts DEF LabelsInvariant
    <3>5. labels = <<>> => labels' = PositionTypes
      BY <3>2, TypesFacts
    <3>6. ASSUME NEW x \in 1..10 PROVE x <= Len(labels') /\ labels'[x] = PositionTypes[x]
      <4>1. CASE labels = <<>>
        <5>1. labels' = PositionTypes /\ Len(PositionTypes) = 10
          BY <3>5, <4>1, TypesFacts
        <5>2. x <= 10
          OBVIOUS
        <5> QED
          BY <5>1, <5>2
      <4>2. CASE labels # <<>>
        BY <3>3, <3>4, <4>2 DEF LabelsInvariant
      <4> QED
        BY <4>1, <4>2
    <3>7. ASSUME NEW t \in typeInfo
          PROVE  t[1] \in 0..9 /\ t[1] < Len(labels') /\ labels'[t[1] + 1] = t[2]
      <4>1. t[1] \in 0..9 /\ t[1] < Len(labels) /\ labels[t[1] + 1] = t[2]
        BY DEF LabelsInvariant
      <4> QED
        BY <3>3, <3>4, <4>1
    <3> QED
      BY <3>2, <3>3, <3>6, <3>7 DEF LabelsInvariant
  <2>4. CASE Step.fn = "updateExternalPositionTypesInfo"
    <3>1. Step.arg \in PositionLabels
      BY <2>2, <2>4 DEF NamesInTime
    <3>2. ExternalPositionType[Step.arg] \in 0..9
            /\ PositionTypes[ExternalPositionType[Step.arg] + 1] = Step.arg
      BY <3>1, TypesFacts
    <3>3. ExternalPositionType[Step.arg] < Len(labels)
      BY <2>1, <2>4 DEF Accepts
    <3>4. labels # <<>>
      BY <3>2, <3>3
    <3>5. ExternalPositionType[Step.arg] + 1 \in 1..10
      BY <3>2
    <3>6. labels[ExternalPositionType[Step.arg] + 1] = Step.arg
      BY <3>2, <3>4, <3>5 DEF LabelsInvariant
    <3>7. labels' = labels
      BY <1>2, <2>4 DEF Transact
    <3>8. ASSUME NEW t \in typeInfo'
          PROVE  t \in typeInfo \/ (t[1] = ExternalPositionType[Step.arg] /\ t[2] = Step.arg)
      BY <1>2, <2>4 DEF Transact
    <3> QED
      BY <3>2, <3>3, <3>6, <3>7, <3>8 DEF LabelsInvariant
  <2>5. CASE Step.fn \notin {"addNewPositionTypes", "updateExternalPositionTypesInfo"}
    BY <1>1, <1>2, <2>5 DEF Transact
  <2> QED
    BY <2>3, <2>4, <2>5
<1> QED
  BY <1>1, <1>2
  DEF Next, RunnerStep, StartRun, Rerun, Start, SkipScript, EndScript, Leave, EnterScript,
      SaveConfig, DeployContract, SkipCall, FailLookup, Revert, Interrupt, Stop,
      CreateForeignList, vars, chain

\* The type ids the package hard-codes are those under which the factory has the labels
\* of the same types, on every network whose types are published.
THEOREM TypesAlwaysMatchLabels == Spec => []TypesMatchLabels
<1>1. Init => LabelsInvariant
  BY EmptySeq DEF Init, LabelsInvariant
<1>2. LabelsInvariant => TypesMatchLabels
  BY DEF LabelsInvariant, TypesMatchLabels
<1> QED
  BY <1>1, <1>2, LabelsStep, BaseCorrect, PTL DEF Spec

-----------------------------------------------------------------------------
(* Lists and the slippage policy. *)

\* A list of everything of a kind that the scripts of this network record.
IsOfficial(list, kind) ==
  list.by = "deployer" /\ list.items = OfType[kind] \intersect Made(network)

Listable == UNION {OfType[kind] : kind \in DOMAIN OfType}
ListRecords == [by : {"constructor", "deployer", "other"}, items : SUBSET Listable]

LEMMA IsList ==
  ASSUME NEW items, items \in SUBSET Listable
  PROVE  /\ [by |-> "deployer", items |-> items] \in ListRecords
         /\ [by |-> "other", items |-> {}] \in ListRecords
         /\ [by |-> "constructor", items |-> {}] \in ListRecords
BY DEF ListRecords

LEMMA TaggedIsListable == ASSUME NEW kind \in DOMAIN OfType PROVE Tagged(kind) \in SUBSET Listable
BY DEF Tagged, Listable

\* Every createList that was made has left such a list.
ListsInvariant ==
  /\ lists \in Seq(ListRecords)
  /\ \A c, kind : <<c, "createList", kind>> \in called =>
       \E x \in 1..Len(lists) : IsOfficial(lists[x], kind)

\* Lists are only added.
LEMMA ListsGrow ==
  ASSUME PlaceInvariant, ListsInvariant, [Next]_vars
  PROVE  \/ lists' = lists
         \/ \E l \in ListRecords :
              /\ lists' = Append(lists, l) /\ lists' \in Seq(ListRecords)
              /\ Len(lists') = Len(lists) + 1 /\ Len(lists) \in Nat
              /\ lists'[Len(lists) + 1] = l
              /\ \A x \in 1..Len(lists) : lists'[x] = lists[x]
<1>1. ASSUME NEW l \in ListRecords, lists' = Append(lists, l)
      PROVE  /\ lists' \in Seq(ListRecords)
             /\ Len(lists') = Len(lists) + 1 /\ Len(lists) \in Nat
             /\ lists'[Len(lists) + 1] = l
             /\ \A x \in 1..Len(lists) : lists'[x] = lists[x]
  BY <1>1, AppendProperties, LenProperties DEF ListsInvariant
<1>2. CASE Transact /\ Step.fn = "createList"
  <2>1. lists' = Append(lists, [by |-> "deployer", items |-> Tagged(Step.arg)])
    BY <1>2 DEF Transact
  <2>2. CASE Step.arg \in DOMAIN OfType
    <3>1. [by |-> "deployer", items |-> Tagged(Step.arg)] \in ListRecords
      BY <2>2, IsList, TaggedIsListable, Zenon
    <3> QED
      BY <1>1, <2>1, <3>1
  <2>3. Step.arg \in DOMAIN OfType
    BY <1>2, StepFacts, OrderFacts DEF Transact, Calls, NamesInTime
  <2> QED
    BY <2>2, <2>3
<1>3. CASE CreateForeignList
  <2>1. [by |-> "other", items |-> {}] \in ListRecords
    BY {} \in SUBSET Listable, IsList, Zenon
  <2> QED
    BY <1>1, <1>3, <2>1 DEF CreateForeignList
<1>4. CASE Transact /\ Step.fn # "createList"
  BY <1>4 DEF Transact
<1> QED
  BY <1>2, <1>3, <1>4
  DEF Next, RunnerStep, StartRun, Rerun, Start, SkipScript, EndScript, Leave, EnterScript,
      SaveConfig, DeployContract, SkipCall, FailLookup, Revert, Interrupt, Stop, vars, chain


LEMMA NetworkStays == [Next]_vars => network' = network
BY DEF Next, RunnerStep, StartRun, Rerun, Start, SkipScript, EndScript, Leave, EnterScript,
       SaveConfig, DeployContract, SkipCall, Transact, FailLookup, Revert, Interrupt, Stop,
       CreateForeignList, vars

\* A list that was there stays the same.
LEMMA ListsStay ==
  ASSUME PlaceInvariant, ListsInvariant, [Next]_vars, NEW kind, NEW x \in 1..Len(lists),
         IsOfficial(lists[x], kind)
  PROVE  /\ x \in 1..Len(lists')
         /\ \A y : y = x => IsOfficial(lists[y], kind)'
<1>1. x \in 1..Len(lists') /\ lists'[x] = lists[x]
  BY ListsGrow
<1> QED
  BY <1>1, NetworkStays DEF IsOfficial

\* The list a script makes has everything of the kind.
LEMMA ListMade ==
  ASSUME PlaceInvariant, ProgressInvariant, ListsInvariant, Transact, Step.fn = "createList"
  PROVE  /\ Len(lists') = Len(lists) + 1 /\ Len(lists) \in Nat
         /\ \A y : y = Len(lists) + 1 => IsOfficial(lists'[y], Step.arg)
<1>1. /\ InStep /\ NamesInTime(network, at, pc) /\ Step = Order[at].steps[pc]
      /\ status = "running"
  BY StepFacts, OrderFacts DEF Transact, Calls
<1>2. Step.arg \in DOMAIN OfType /\ Settled(network, at, OfType[Step.arg])
  BY <1>1 DEF NamesInTime
<1>3. OfType[Step.arg] \intersect Made(network) = Tagged(Step.arg)
  BY <1>1, <1>2, SettledIsRecorded DEF Tagged
<1>4. lists' = Append(lists, [by |-> "deployer", items |-> Tagged(Step.arg)])
  BY DEF Transact
<1>5. [by |-> "deployer", items |-> Tagged(Step.arg)] \in ListRecords
  BY <1>2, IsList, TaggedIsListable, Zenon
<1>6. /\ Len(lists') = Len(lists) + 1 /\ Len(lists) \in Nat
      /\ lists'[Len(lists) + 1] = [by |-> "deployer", items |-> Tagged(Step.arg)]
  BY <1>4, <1>5, AppendProperties, LenProperties DEF ListsInvariant
<1> QED
  BY <1>3, <1>6 DEF IsOfficial

LEMMA ListsInit == Init => ListsInvariant
<1> SUFFICES ASSUME Init PROVE ListsInvariant
  OBVIOUS
<1>1. lists = <<[by |-> "constructor", items |-> {}]>> /\ called = {}
  BY DEF Init
<1>2. [by |-> "constructor", items |-> {}] \in ListRecords
  BY {} \in SUBSET Listable, IsList, Zenon
<1> QED
  BY <1>1, <1>2 DEF ListsInvariant

LEMMA ListsStep == BaseInvariant /\ ListsInvariant /\ [Next]_vars => ListsInvariant'
<1> SUFFICES ASSUME PlaceInvariant, ProgressInvariant, ListsInvariant, [Next]_vars
             PROVE  ListsInvariant'
  BY DEF BaseInvariant
<1>1. lists' \in Seq(ListRecords)
  BY ListsGrow DEF ListsInvariant
<1>2. ASSUME NEW c, NEW kind, <<c, "createList", kind>> \in called'
      PROVE  (\E x \in 1..Len(lists) : IsOfficial(lists[x], kind))'
  <2>1. CASE <<c, "createList", kind>> \in called
    <3>1. PICK x \in 1..Len(lists) : IsOfficial(lists[x], kind)
      BY <2>1 DEF ListsInvariant
    <3> QED
      BY <3>1, ListsStay
  <2>2. CASE <<c, "createList", kind>> \notin called
    <3>1. Transact /\ Step.fn = "createList" /\ Step.arg = kind
      BY <1>2, <2>2
      DEF Next, RunnerStep, StartRun, Rerun, Start, SkipScript, EndScript, Leave, EnterScript,
          SaveConfig, DeployContract, SkipCall, Transact, FailLookup, Revert, Interrupt, Stop,
          CreateForeignList, vars, chain
    <3>2. /\ Len(lists') = Len(lists) + 1 /\ Len(lists) \in Nat
          /\ \A y : y = Len(lists) + 1 => IsOfficial(lists'[y], kind)
      BY <3>1, ListMade
    <3>3. PICK y : y = Len(lists) + 1
      OBVIOUS
    <3>4. y \in 1..Len(lists') /\ IsOfficial(lists'[y], kind)
      BY <3>2, <3>3
    <3> QED
      BY <3>4, NetworkStays DEF IsOfficial
  <2> QED
    BY <2>1, <2>2
<1> QED
  BY <1>1, <1>2 DEF ListsInvariant

\* The policy that takes the number of a list.
Takes(i, k) ==
  /\ IsStep(i, k) /\ Order[i].steps[k].op # "call"
  /\ Order[i].steps[k].contract = "CumulativeSlippageTolerancePolicy"
\* The process comes to its deployment in d steps.
Nears(d) == status = "running" /\ pc > 0 /\ Takes(at, pc + d)

\* The number of a list made for the policy.
IsOurs(id) == id + 1 \in 1..Len(lists) /\ IsOfficial(lists[id + 1], "nonSlippage")

BypassInvariant ==
  /\ Nears(1) /\ ~raced => count = Len(lists)
  /\ Nears(0) /\ ~raced => IsOurs(count)
  /\ "CumulativeSlippageTolerancePolicy" \in records =>
       /\ ~raced => IsOurs(bypassList)
       /\ OfType["nonSlippage"] \intersect Made(network) \subseteq records

IsCall(step, f, a) == step.op = "call" /\ step.fn = f /\ step.arg = a /\ step.after = ""

LEMMA CallFacts ==
  ASSUME NEW c, NEW f, NEW a, NEW step, step = CallWith(c, f, a)
  PROVE  IsCall(step, f, a)
<1>1. step.op = "call"
  BY DEF CallWith
<1>2. step.fn = f
  BY DEF CallWith
<1>3. step.arg = a
  BY DEF CallWith
<1>4. step.after = ""
  BY DEF CallWith
<1> QED
  BY <1>1, <1>2, <1>3, <1>4 DEF IsCall

LEMMA TakesFacts ==
  ASSUME PlaceInvariant, NEW i, NEW k, Takes(i, k)
  PROVE  /\ Order[i].steps[k].op = "deploy" /\ k > 2 /\ k \in Nat
         /\ k - 1 \in 1..Len(Order[i].steps) /\ k - 2 \in 1..Len(Order[i].steps)
         /\ IsCall(Order[i].steps[k - 2], "getListCount", "")
         /\ IsCall(Order[i].steps[k - 1], "createList", "nonSlippage")
         /\ Settled(network, i, OfType["nonSlippage"])
<1>1. /\ i \in 1..Len(Order) /\ k \in 1..Len(Order[i].steps) /\ Len(Order[i].steps) \in Nat
      /\ Applies(network, Order[i]) /\ network \in Networks
  BY OrderIsFinite DEF Takes, IsStep, PlaceInvariant
<1>2. NamesInTime(network, i, k)
  BY <1>1, OrderFacts
<1>3. /\ Order[i].steps[k].op = "deploy" /\ k > 2
      /\ Order[i].steps[k - 2] = Call("AddressListRegistry", "getListCount")
      /\ Order[i].steps[k - 1] = CallWith("AddressListRegistry", "createList", "nonSlippage")
  BY <1>2 DEF NamesInTime, Takes
<1>4. k - 1 \in 1..Len(Order[i].steps) /\ k - 2 \in 1..Len(Order[i].steps) /\ k \in Nat
  BY <1>1, <1>3
<1>5. IsCall(Order[i].steps[k - 2], "getListCount", "")
  <2>1. PICK r : r = Order[i].steps[k - 2]
    OBVIOUS
  <2>2. r = CallWith("AddressListRegistry", "getListCount", "")
    BY <1>3, <2>1 DEF Call
  <2>3. IsCall(r, "getListCount", "")
    BY <2>2, CallFacts
  <2> QED
    BY <2>1, <2>3
<1>6. IsCall(Order[i].steps[k - 1], "createList", "nonSlippage")
  <2>1. PICK r : r = Order[i].steps[k - 1]
    OBVIOUS
  <2>2. r = CallWith("AddressListRegistry", "createList", "nonSlippage")
    BY <1>3, <2>1
  <2>3. IsCall(r, "createList", "nonSlippage")
    BY <2>2, CallFacts
  <2> QED
    BY <2>1, <2>3
<1>7. NamesInTime(network, i, k - 1)
  BY <1>1, <1>4, OrderFacts
<1>8. Settled(network, i, OfType["nonSlippage"])
  BY <1>6, <1>7 DEF NamesInTime, IsCall
<1> QED
  BY <1>3, <1>4, <1>5, <1>6, <1>8

\* Only the two calls before it bring the process near the deployment.
LEMMA NearsFacts ==
  ASSUME PlaceInvariant, ProgressInvariant, InStep, pc' = pc + 1,
         UNCHANGED <<network, status, at>>,
         NEW d \in {0, 1}, Nears(d)'
  PROVE  /\ Step.op = "call" /\ Due(Step)
         /\ d = 1 => IsCall(Step, "getListCount", "")
         /\ d = 0 => IsCall(Step, "createList", "nonSlippage") /\ Nears(1)
<1>1. /\ at \in 1..Len(Order) /\ pc \in 1..Len(Order[at].steps) /\ pc \in Nat /\ pc > 0
      /\ Step = Order[at].steps[pc] /\ status = "running" /\ IsStep(at, pc)
  BY StepFacts
<1>2. PICK k : k = pc + 1 + d
  OBVIOUS
<1>3. Takes(at, k)
  BY <1>2 DEF Nears, Takes, IsStep
<1>4. CASE d = 1
  <2>1. pc = k - 2
    BY <1>1, <1>2, <1>4
  <2>2. IsCall(Order[at].steps[k - 2], "getListCount", "")
    BY <1>3, TakesFacts
  <2>3. IsCall(Step, "getListCount", "")
    BY <1>1, <2>1, <2>2
  <2>4. Due(Step) /\ Step.op = "call"
    BY <2>3, UntiedIsDue DEF IsCall
  <2>5. d # 0
    BY <1>4
  <2> QED
    BY <2>3, <2>4, <2>5
<1>5. CASE d = 0
  <2>1. pc = k - 1 /\ k = pc + 1
    BY <1>1, <1>2, <1>5
  <2>2. IsCall(Order[at].steps[k - 1], "createList", "nonSlippage")
    BY <1>3, TakesFacts
  <2>3. IsCall(Step, "createList", "nonSlippage")
    BY <1>1, <2>1, <2>2
  <2>4. Nears(1)
    BY <1>1, <1>3, <2>1 DEF Nears
  <2>5. Due(Step) /\ Step.op = "call"
    BY <2>3, UntiedIsDue DEF IsCall
  <2>6. d # 1
    BY <1>5
  <2> QED
    BY <2>3, <2>4, <2>5, <2>6
<1> QED
  BY <1>4, <1>5

\* Lists of ours stay ours.
LEMMA OursStay ==
  ASSUME PlaceInvariant, ListsInvariant, [Next]_vars, NEW id, IsOurs(id)
  PROVE  IsOurs(id)'
BY ListsStay DEF IsOurs

\* The conjunct about the deployed policy, while nothing is recorded and the id stays.
LEMMA DeployedStays ==
  ASSUME PlaceInvariant, ListsInvariant, BypassInvariant, [Next]_vars,
         UNCHANGED <<records, bypassList>>, raced => raced'
  PROVE  ("CumulativeSlippageTolerancePolicy" \in records =>
            /\ ~raced => IsOurs(bypassList)
            /\ OfType["nonSlippage"] \intersect Made(network) \subseteq records)'
<1>1. network' = network
  BY NetworkStays
<1>2. ASSUME "CumulativeSlippageTolerancePolicy" \in records', ~raced' PROVE IsOurs(bypassList)'
  <2>1. PICK id : id = bypassList
    OBVIOUS
  <2>2. IsOurs(id)
    BY <1>2, <2>1 DEF BypassInvariant
  <2>3. IsOurs(id)'
    BY <2>2, OursStay
  <2>4. bypassList' = id
    BY <2>1
  <2> QED
    BY <2>3, <2>4 DEF IsOurs
<1> QED
  BY <1>1, <1>2 DEF BypassInvariant

\* The same when a step of a script records something, which may be the policy.
LEMMA DeployingKeeps ==
  ASSUME PlaceInvariant, ProgressInvariant, ListsInvariant, BypassInvariant, [Next]_vars, InStep,
         UNCHANGED <<raced, lists, count>>, Step.op # "call",
         \/ records' = records /\ bypassList' = bypassList
         \/ /\ records' = records \union {Step.contract}
            /\ bypassList' = IF Step.op = "deploy"
                                  /\ Step.contract = "CumulativeSlippageTolerancePolicy"
                             THEN count ELSE bypassList
  PROVE  ("CumulativeSlippageTolerancePolicy" \in records =>
            /\ ~raced => IsOurs(bypassList)
            /\ OfType["nonSlippage"] \intersect Made(network) \subseteq records)'
<1>0. /\ at \in 1..Len(Order) /\ pc \in 1..Len(Order[at].steps) /\ pc \in Nat /\ pc > 0
      /\ Step = Order[at].steps[pc] /\ status = "running" /\ IsStep(at, pc)
  BY StepFacts
<1>1. CASE records' = records /\ bypassList' = bypassList
  BY <1>1, DeployedStays
<1>2. CASE /\ records' = records \union {Step.contract}
           /\ Step.contract # "CumulativeSlippageTolerancePolicy" /\ bypassList' = bypassList
  <2>1. network' = network
    BY NetworkStays
  <2> QED
    BY <1>2, <2>1 DEF BypassInvariant, IsOurs, IsOfficial
<1>3. CASE /\ records' = records \union {Step.contract}
           /\ Step.contract = "CumulativeSlippageTolerancePolicy"
           /\ bypassList' = IF Step.op = "deploy"
                                 /\ Step.contract = "CumulativeSlippageTolerancePolicy"
                            THEN count ELSE bypassList
  <2>1. Takes(at, pc)
    BY <1>0, <1>3 DEF Takes
  <2>2. Step.op = "deploy" /\ Settled(network, at, OfType["nonSlippage"])
    BY <1>0, <2>1, TakesFacts
  <2>3. bypassList' = count
    BY <1>3, <2>2
  <2>4. Nears(0)
    <3>1. pc + 0 = pc
      BY <1>0
    <3> QED
      BY <1>0, <2>1, <3>1 DEF Nears
  <2>5. ~raced' => IsOurs(bypassList)'
    BY <2>3, <2>4, NetworkStays DEF BypassInvariant, IsOurs, IsOfficial
  <2>6. OfType["nonSlippage"] \intersect Made(network) \subseteq records
    BY <1>0, <2>2, SettledIsRecorded
  <2>7. (OfType["nonSlippage"] \intersect Made(network) \subseteq records)'
    BY <1>3, <2>6, NetworkStays
  <2> QED
    BY <2>5, <2>7
<1> QED
  BY <1>1, <1>2, <1>3

\* A step that leaves the script is near nothing.
LEMMA NearNothing ==
  ASSUME pc' = 0 PROVE ~Nears(0)' /\ ~Nears(1)'
BY DEF Nears

LEMMA BypassStep ==
  BaseInvariant /\ ListsInvariant /\ BypassInvariant /\ [Next]_vars => BypassInvariant'
<1> SUFFICES ASSUME PlaceInvariant, ProgressInvariant, ListsInvariant, BypassInvariant, [Next]_vars
             PROVE  BypassInvariant'
  BY DEF BaseInvariant
<1>1. CASE StartRun \/ Rerun
  <2>1. UNCHANGED <<records, bypassList, raced>> /\ pc' = 0
    BY <1>1 DEF StartRun, Rerun, Start, PlaceInvariant, chain, history
  <2> QED
    BY <2>1, DeployedStays, NearNothing DEF BypassInvariant
<1>2. CASE SkipScript \/ EndScript
  <2>1. UNCHANGED <<records, bypassList, raced>> /\ pc' = 0
    BY <1>2 DEF SkipScript, EndScript, Leave, chain
  <2> QED
    BY <2>1, DeployedStays, NearNothing DEF BypassInvariant
<1>3. CASE FailLookup \/ Revert \/ Interrupt
  <2>1. UNCHANGED <<records, bypassList, raced>> /\ pc' = 0
    BY <1>3 DEF FailLookup, Revert, Interrupt, Stop, chain
  <2> QED
    BY <2>1, DeployedStays, NearNothing DEF BypassInvariant
<1>4. CASE EnterScript
  <2>1. UNCHANGED <<records, bypassList, raced>> /\ pc' = 1
    BY <1>4 DEF EnterScript, chain
  <2>2. PlaceInvariant'
    BY PlaceStep
  <2>3. ~Nears(0)' /\ ~Nears(1)'
    <3>1. ASSUME NEW i, NEW d \in {0, 1}, Takes(i, 1 + d)' PROVE FALSE
      <4>1. Takes(i, 1 + d)
        BY <3>1, NetworkStays DEF Takes, IsStep
      <4>2. PICK k : k = 1 + d
        OBVIOUS
      <4>3. k > 2
        BY <4>1, <4>2, TakesFacts
      <4> QED
        BY <4>2, <4>3
    <3> QED
      BY <2>1, <3>1 DEF Nears
  <2> QED
    BY <2>1, <2>3, DeployedStays DEF BypassInvariant
<1>5. CASE SaveConfig \/ DeployContract
  <2>1. /\ InStep /\ Step.op # "call" /\ pc' = pc + 1
        /\ UNCHANGED <<network, status, at, raced, lists, count>>
    BY <1>5 DEF SaveConfig, DeployContract, chain, history
  <2>2. ~Nears(0)' /\ ~Nears(1)'
    BY <2>1, NearsFacts DEF IsCall
  <2>3. \/ records' = records /\ bypassList' = bypassList
        \/ /\ records' = records \union {Step.contract}
           /\ bypassList' = IF Step.op = "deploy"
                                 /\ Step.contract = "CumulativeSlippageTolerancePolicy"
                            THEN count ELSE bypassList
    BY <1>5 DEF SaveConfig, DeployContract, chain
  <2> QED
    BY <2>1, <2>2, <2>3, DeployingKeeps DEF BypassInvariant
<1>6. CASE SkipCall
  <2>1. /\ InStep /\ ~Due(Step) /\ pc' = pc + 1
        /\ UNCHANGED <<network, status, at, raced, records, bypassList>>
    BY <1>6 DEF SkipCall, chain, history
  <2>2. ~Nears(0)' /\ ~Nears(1)'
    BY <2>1, NearsFacts
  <2> QED
    BY <2>1, <2>2, DeployedStays DEF BypassInvariant
<1>7. CASE Transact
  <2>1. /\ InStep /\ pc' = pc + 1
        /\ UNCHANGED <<network, status, at, raced, records, bypassList>>
    BY <1>7 DEF Transact, Calls, history
  <2>2. ASSUME Nears(1)', ~raced' PROVE count' = Len(lists)'
    <3>1. Step.fn = "getListCount"
      BY <2>1, <2>2, NearsFacts DEF IsCall
    <3> QED
      BY <1>7, <3>1 DEF Transact
  <2>3. ASSUME Nears(0)', ~raced' PROVE IsOurs(count)'
    <3>1. Step.fn = "createList" /\ Step.arg = "nonSlippage" /\ Nears(1)
      BY <2>1, <2>3, NearsFacts DEF IsCall
    <3>2. count' = Len(lists)
      BY <1>7, <2>1, <2>3, <3>1 DEF Transact, BypassInvariant
    <3>3. /\ Len(lists') = Len(lists) + 1 /\ Len(lists) \in Nat
          /\ \A y : y = Len(lists) + 1 => IsOfficial(lists'[y], "nonSlippage")
      BY <1>7, <3>1, ListMade
    <3> QED
      BY <2>1, <3>2, <3>3 DEF IsOurs, IsOfficial
  <2> QED
    BY <2>1, <2>2, <2>3, DeployedStays DEF BypassInvariant
<1>8. CASE CreateForeignList
  <2>1. /\ UNCHANGED <<network, status, at, pc, count, records, bypassList>>
        /\ raced' = (raced \/ BetweenCountAndList)
    BY <1>8 DEF CreateForeignList, runner
  <2>2. raced => raced'
    BY <2>1
  <2>3. ASSUME Nears(1)' PROVE raced'
    <3>1. Nears(1)
      BY <2>1, <2>3 DEF Nears, Takes, IsStep
    <3>2. PICK k : k = pc + 1
      OBVIOUS
    <3>3. Takes(at, k) /\ status = "running" /\ pc \in Nat
      BY <3>1, <3>2 DEF Nears, PlaceInvariant
    <3>4. k - 1 = pc /\ k - 1 \in 1..Len(Order[at].steps)
            /\ IsCall(Order[at].steps[k - 1], "createList", "nonSlippage")
      <4>1. k - 1 \in 1..Len(Order[at].steps)
              /\ IsCall(Order[at].steps[k - 1], "createList", "nonSlippage")
        BY <3>3, TakesFacts
      <4> QED
        BY <3>2, <3>3, <4>1
    <3>5. pc \in 1..Len(Order[at].steps) /\ IsCall(Order[at].steps[pc], "createList", "nonSlippage")
      BY <3>4
    <3>6. BetweenCountAndList
      BY <3>3, <3>5 DEF BetweenCountAndList, InStep, Running, Current, Step, Takes, IsStep, IsCall
    <3> QED
      BY <2>1, <3>6
  <2>4. ASSUME Nears(0)', ~raced' PROVE IsOurs(count)'
    <3>1. Nears(0) /\ ~raced
      BY <2>1, <2>2, <2>4 DEF Nears, Takes, IsStep
    <3>2. PICK id : id = count
      OBVIOUS
    <3>3. IsOurs(id)
      BY <3>1, <3>2 DEF BypassInvariant
    <3>4. IsOurs(id)'
      BY <3>3, OursStay
    <3> QED
      BY <2>1, <3>2, <3>4 DEF IsOurs
  <2> QED
    BY <2>1, <2>2, <2>3, <2>4, DeployedStays DEF BypassInvariant
<1>9. CASE UNCHANGED vars
  BY <1>9 DEF vars, runner, chain, history, BypassInvariant, Nears, Takes, IsStep, IsOurs,
              IsOfficial
<1> QED
  BY <1>1, <1>2, <1>3, <1>4, <1>5, <1>6, <1>7, <1>8, <1>9 DEF Next, RunnerStep

\* Whatever is interrupted between the count, the list and the deployment, and whoever
\* makes lists at other times: the slippage policy has the id of the official list of
\* all adapters without slippage, unless a list came between the count and the list.
THEOREM BypassListAlwaysOurs == Spec => []BypassListIsOurs
<1>1. Init => BypassInvariant
  BY DEF Init, BypassInvariant, Nears
<1>2. BaseInvariant /\ ListsInvariant /\ BypassInvariant => BypassListIsOurs
  <2> SUFFICES ASSUME PlaceInvariant, BypassInvariant,
                      "CumulativeSlippageTolerancePolicy" \in records, ~raced
               PROVE  /\ lists[bypassList + 1].by = "deployer"
                      /\ lists[bypassList + 1].items = Tagged("nonSlippage")
    BY DEF BypassListIsOurs, BaseInvariant
  <2>1. IsOurs(bypassList) /\ OfType["nonSlippage"] \intersect Made(network) \subseteq records
    BY DEF BypassInvariant
  <2>2. Tagged("nonSlippage") = OfType["nonSlippage"] \intersect Made(network)
    BY <2>1 DEF Tagged, PlaceInvariant
  <2> QED
    BY <2>1, <2>2 DEF IsOurs, IsOfficial
<1> QED
  BY <1>1, <1>2, ListsInit, ListsStep, BypassStep, BaseCorrect, PTL DEF Spec

-----------------------------------------------------------------------------
(* A complete deployment. *)

\* The feeds a call of addDerivatives names, as the order of the scripts settles them.
NamedFeeds(a) == IF a = "found" THEN ListedFeeds \intersect Made(network) ELSE {a}

\* Feeds the ValueInterpreter was told of it knows; after a complete run nothing is
\* newly deployed.
FeedsInvariant ==
  /\ \A a : <<"ValueInterpreter", "addDerivatives", a>> \in called =>
             NamedFeeds(a) \subseteq derivatives
  /\ completed => newly = {}

LEMMA FeedsStep == BaseInvariant /\ FeedsInvariant /\ [Next]_vars => FeedsInvariant'
<1> SUFFICES ASSUME PlaceInvariant, ProgressInvariant, FeedsInvariant, [Next]_vars
             PROVE  FeedsInvariant'
  BY DEF BaseInvariant
<1>0. network' = network
  BY NetworkStays
<1>1. CASE UNCHANGED <<called, derivatives>> /\ (completed' => newly' = {})
  BY <1>0, <1>1 DEF FeedsInvariant, NamedFeeds
<1>2. CASE Transact
  <2>1. /\ InStep /\ NamesInTime(network, at, pc) /\ Step = Order[at].steps[pc]
        /\ status = "running"
    BY <1>2, StepFacts, OrderFacts DEF Transact, Calls
  <2>2. derivatives \subseteq derivatives' /\ UNCHANGED <<completed, newly>>
    BY <1>2 DEF Transact, history
  <2>3. ASSUME NEW a, <<"ValueInterpreter", "addDerivatives", a>> \in called'
        PROVE  NamedFeeds(a) \subseteq derivatives'
    <3>1. CASE <<"ValueInterpreter", "addDerivatives", a>> \in called
      BY <2>2, <3>1 DEF FeedsInvariant
    <3>2. CASE <<"ValueInterpreter", "addDerivatives", a>> \notin called
      <4>1. AddsDerivatives(Step) /\ Step.arg = a
        BY <1>2, <2>3, <3>2 DEF Transact, AddsDerivatives
      <4>2. derivatives' = derivatives \union Feeds(Step)
        BY <1>2, <4>1 DEF Transact
      <4>3. CASE a = "found"
        <5>1. Settled(network, at, ListedFeeds)
          BY <2>1, <4>1, <4>3 DEF NamesInTime
        <5>2. ListedFeeds \intersect Made(network) = ListedFeeds \intersect records
          BY <2>1, <5>1, SettledIsRecorded
        <5> QED
          BY <4>1, <4>2, <4>3, <5>2 DEF Feeds, NamedFeeds
      <4>4. CASE a # "found"
        BY <4>1, <4>2, <4>4 DEF Feeds, NamedFeeds
      <4> QED
        BY <4>3, <4>4
    <3> QED
      BY <3>1, <3>2
  <2> QED
    BY <1>0, <2>2, <2>3 DEF FeedsInvariant, NamedFeeds
<1>3. CASE DeployContract
  <2>1. UNCHANGED <<called, derivatives, completed>>
    BY <1>3 DEF DeployContract, history
  <2>2. ASSUME completed PROVE newly' = {}
    <3>1. Step.contract \in Made(network)
      BY <1>3, StepFacts, StepMakes DEF DeployContract
    <3>2. Step.contract \in records
      BY <2>2, <3>1, AllIsRecorded
    <3> QED
      BY <1>3, <2>2, <3>2 DEF DeployContract, FeedsInvariant
  <2> QED
    BY <1>1, <2>1, <2>2
<1>4. CASE UNCHANGED <<called, derivatives, completed, newly>>
  BY <1>1, <1>4 DEF FeedsInvariant
<1>5. CASE UNCHANGED <<called, derivatives>> /\ newly' = {}
  BY <1>1, <1>5
<1>6. CASE StartRun \/ Rerun \/ EnterScript \/ SaveConfig \/ SkipCall \/ CreateForeignList
             \/ UNCHANGED vars
  BY <1>4, <1>6
  DEF StartRun, Rerun, Start, EnterScript, SaveConfig, SkipCall, CreateForeignList, vars,
      runner, chain, history
<1>7. CASE SkipScript \/ EndScript \/ FailLookup \/ Revert \/ Interrupt
  BY <1>5, <1>7 DEF SkipScript, EndScript, Leave, FailLookup, Revert, Interrupt, Stop, chain
<1> QED
  BY <1>2, <1>3, <1>6, <1>7 DEF Next, RunnerStep

\* When a run has been completed and no script was torn, every call was made.
LEMMA EverythingCalled ==
  ASSUME BaseInvariant, FeedsInvariant, FollowUpsInvariant, completed, torn = {},
         NEW s \in Transactions[network]
  PROVE  <<s.contract, s.fn, s.arg>> \in called
<1>0. PlaceInvariant /\ ProgressInvariant /\ network \in Networks /\ records = Made(network)
  BY AllIsRecorded DEF BaseInvariant, PlaceInvariant
<1>1. PICK t \in ScriptSet :
        /\ Applies(network, t)
        /\ s \in {t.steps[k] : k \in {j \in 1..Len(t.steps) : t.steps[j].op = "call"}}
  BY <1>0 DEF Transactions
<1>2. PICK i \in 1..Len(Order) : t = Order[i]
  BY DEF ScriptSet
<1>3. PICK k \in 1..Len(Order[i].steps) : s = Order[i].steps[k] /\ s.op = "call"
  BY <1>1, <1>2
<1>4. IsStep(i, k) /\ Passed(i, k)
  BY <1>1, <1>2, <1>3 DEF IsStep, Passed
<1>5. CASE s.after = ""
  BY <1>0, <1>3, <1>4, <1>5 DEF ProgressInvariant, DoneStep
<1>6. CASE s.after # ""
  <2>1. NamesInTime(network, i, k)
    BY <1>0, <1>1, <1>2, OrderFacts
  <2>2. s.after \in RecordedBy(Order[i])
    BY <1>3, <1>6, <2>1 DEF NamesInTime
  <2>3. PICK m \in 1..Len(Order[i].steps) :
          Order[i].steps[m].op # "call" /\ Order[i].steps[m].contract = s.after
    BY <2>2 DEF RecordedBy
  <2>4. s.after \in records
    BY <1>0, <1>1, <1>2, <2>3, StepMakes
  <2>5. IsFollowUp(i, k)
    BY <1>3, <1>6 DEF IsFollowUp
  <2>6. Accounted(i, k)
    BY <2>5 DEF FollowUpsInvariant
  <2> QED
    BY <1>3, <2>4, <2>6 DEF Accounted, FeedsInvariant
<1> QED
  BY <1>5, <1>6

\* A run that reaches its end has configured the release, however many runs stopped
\* short before it, as long as none of them stopped inside a script and lost its work.
THEOREM CompletedIsConfigured == Spec => []ConfiguredWhenDone
<1> DEFINE Inv == BaseInvariant /\ ListsInvariant /\ FeedsInvariant /\ FollowUpsInvariant
<1>1. Init => FeedsInvariant
  BY DEF Init, FeedsInvariant
<1>2. Inv => ConfiguredWhenDone
  <2> SUFFICES ASSUME BaseInvariant, ListsInvariant, FeedsInvariant, FollowUpsInvariant,
                      completed, torn = {}
               PROVE  Configured
    BY DEF ConfiguredWhenDone
  <2>0. network \in Networks /\ records = Made(network)
    BY AllIsRecorded DEF BaseInvariant, PlaceInvariant
  <2>1. Complete(network)
    BY <2>0, OrderAssumption
  <2>2. {<<s.contract, s.fn, s.arg>> : s \in Transactions[network]} \subseteq called
    BY EverythingCalled
  <2>3. Releasable
    BY <2>1, <2>2 DEF Complete, Releasable, Did
  <2>4. ASSUME NEW feed \in DOMAIN Registrations \intersect records PROVE feed \in derivatives
    <3>1. PICK s \in Transactions[network] :
            AddsDerivatives(s) /\ (s.arg = feed \/ (s.arg = "found" /\ feed \in ListedFeeds))
      BY <2>0, <2>1, <2>4 DEF Complete
    <3>2. <<"ValueInterpreter", "addDerivatives", s.arg>> \in called
      BY <3>1, EverythingCalled DEF AddsDerivatives
    <3>3. NamedFeeds(s.arg) \subseteq derivatives
      BY <3>2 DEF FeedsInvariant
    <3>4. feed # "found"
      BY <2>4 DEF Registrations
    <3>5. feed \in NamedFeeds(s.arg)
      BY <2>0, <2>4, <3>1, <3>4 DEF NamedFeeds
    <3> QED
      BY <3>3, <3>5
  <2>5. ASSUME NEW kind \in {"ADAPTER", "FEE", "POLICY"}
        PROVE  \E i \in 1..Len(lists) : lists[i].by = "deployer" /\ lists[i].items = Tagged(kind)
    <3>1. <<"AddressListRegistry", "createList", kind>> \in called
      BY <2>1, <2>2 DEF Complete
    <3>2. \E i \in 1..Len(lists) : IsOfficial(lists[i], kind)
      BY <3>1 DEF ListsInvariant
    <3> QED
      BY <2>0, <3>2 DEF IsOfficial, Tagged
  <2>6. \A s \in Transactions[network] : <<s.contract, s.fn, s.arg>> \in called
    BY EverythingCalled
  <2> QED
    BY <2>0, <2>3, <2>4, <2>5, <2>6 DEF Configured
<1> QED
  BY <1>1, <1>2, ListsInit, ListsStep, FeedsStep, FollowUpsInit, FollowUpsStep, BaseCorrect,
     PTL DEF Spec

-----------------------------------------------------------------------------
(* Running the scripts again. *)

\* Calls that revert when they are made again, in scripts that are not skipped.
Blocks(j, m) ==
  LET step == Order[j].steps[m]
  IN  /\ IsStep(j, m) /\ Order[j].unless = {}
      /\ step.op = "call" /\ step.after = "" /\ step.arg = ""
      /\ <<step.contract, step.fn>> \in Once

\* After a complete run no process gets beyond such a call, nor into a script that is
\* spared, and the in-process network is at its end.
RerunInvariant ==
  /\ completed /\ ~network.live => status = "done"
  /\ completed /\ status = "running" =>
       \A j, m : Blocks(j, m) => at < j \/ (at = j /\ pc <= m)
  /\ completed /\ pc > 0 => ~Spared(at)

\* What the invariants say of a process that runs after a complete run.
LEMMA RerunFacts ==
  ASSUME BaseInvariant, RerunInvariant, completed
  PROVE  /\ PlaceInvariant /\ ProgressInvariant /\ records = Made(network)
         /\ InStep => /\ Step.op # "call" => Step.contract \in records
                      /\ Step.op = "call" /\ Step.after = "" =>
                           <<Step.contract, Step.fn, Step.arg>> \in called
<1>1. PlaceInvariant /\ ProgressInvariant
  BY DEF BaseInvariant
<1>2. records = Made(network)
  BY <1>1, AllIsRecorded
<1>3. ASSUME InStep PROVE DoneStep(at, pc) /\ Step = Order[at].steps[pc]
  <2>1. IsStep(at, pc) /\ Step = Order[at].steps[pc]
    BY <1>1, <1>3, StepFacts
  <2>2. Passed(at, pc)
    BY DEF Passed
  <2> QED
    BY <1>1, <2>1, <2>2 DEF ProgressInvariant
<1> QED
  BY <1>1, <1>2, <1>3 DEF DoneStep

\* Where such a call is.
LEMMA BlocksFacts ==
  ASSUME NEW j, NEW m, Blocks(j, m)
  PROVE  /\ j \in Nat \ {0} /\ m \in Nat \ {0} /\ j <= Len(Order) /\ m <= Len(Order[j].steps)
         /\ Applies(network, Order[j]) /\ Order[j].unless = {}
         /\ Len(Order) \in Nat /\ Len(Order[j].steps) \in Nat
<1>1. IsStep(j, m) /\ Order[j].unless = {}
  BY DEF Blocks
<1>2. Len(Order) \in Nat /\ (j \in 1..Len(Order) => Len(Order[j].steps) \in Nat)
  BY OrderIsFinite
<1> QED
  BY <1>1, <1>2 DEF IsStep

\* Numbers, apart from the strings the prover would mix them with.
LEMMA NextNumber == \A a, b \in Nat : a <= b /\ a # b => a + 1 <= b
OBVIOUS

LEMMA UpToNumbers ==
  \A b, n \in Nat : b \in 1..n => \A a \in 1..b : a \in 1..n /\ a \in Nat /\ a <= b
OBVIOUS

\* A pair of numbers is not both before and behind another.
LEMMA NotBoth ==
  \A a, b, x, y \in Nat : ~(a <= b /\ (a < b \/ x < y) /\ (b < a \/ (b = a /\ y <= x)))
OBVIOUS

\* A call that blocks is not behind the step that is taken.
LEMMA NotBlocked ==
  ASSUME BaseInvariant, RerunInvariant, completed, InStep,
         Step.op = "call" /\ Step.after = "" => Transact,
         NEW j, NEW m, Blocks(j, m)
  PROVE  at < j \/ (at = j /\ pc + 1 <= m)
<1>1. PlaceInvariant /\ ProgressInvariant /\ status = "running" /\ Step = Order[at].steps[pc]
        /\ pc \in Nat
  BY RerunFacts, StepFacts
<1>2. at < j \/ (at = j /\ pc <= m)
  BY <1>1 DEF RerunInvariant
<1>3. ~(at = j /\ pc = m)
  <2> SUFFICES ASSUME at = j, pc = m PROVE FALSE
    OBVIOUS
  <2>1. /\ Step.op = "call" /\ Step.after = "" /\ Step.arg = ""
        /\ <<Step.contract, Step.fn>> \in Once
    BY <1>1 DEF Blocks
  <2>2. <<Step.contract, Step.fn, "">> \in called
    BY <2>1, RerunFacts
  <2>3. Accepts(Step)
    BY <2>1 DEF Transact
  <2> QED
    BY <2>1, <2>2, <2>3 DEF Accepts, Did
<1>4. m \in Nat /\ pc \in Nat
  BY <1>1, BlocksFacts
<1>5. CASE at = j /\ pc <= m
  <2>1. pc # m
    BY <1>3, <1>5
  <2>2. pc + 1 <= m
    BY <1>4, <1>5, <2>1, NextNumber
  <2> QED
    BY <1>5, <2>2
<1> QED
  BY <1>2, <1>5

\* A process that runs after a complete run stops at such a call at the latest.
LEMMA RerunStep ==
  BaseInvariant /\ FeedsInvariant /\ RerunInvariant /\ [Next]_vars => RerunInvariant'
<1> SUFFICES ASSUME BaseInvariant, FeedsInvariant, RerunInvariant, [Next]_vars
             PROVE  RerunInvariant'
  OBVIOUS
<1>0. PlaceInvariant /\ ProgressInvariant /\ network' = network
  BY NetworkStays DEF BaseInvariant
<1>a. ASSUME NEW j, NEW m, Blocks(j, m)' PROVE Blocks(j, m)
  BY <1>0, <1>a DEF Blocks, IsStep
<1>1. CASE StartRun \/ Rerun
  <2>1. at' = 1 /\ pc' = 0 /\ completed' = completed /\ status # "running"
    BY <1>0, <1>1 DEF StartRun, Rerun, Start, PlaceInvariant, history
  <2>2. completed => network.live
    BY <1>1 DEF StartRun, Rerun, RerunInvariant
  <2>3. \A j, m : Blocks(j, m)' => at' < j \/ (at' = j /\ pc' <= m)
    BY <1>a, BlocksFacts, <2>1
  <2> QED
    BY <1>0, <2>1, <2>2, <2>3 DEF RerunInvariant
<1>2. CASE SkipScript \/ EndScript
  <2>0. /\ status = "running" /\ at \in 1..Len(Order) /\ at \in Nat /\ pc' = 0
        /\ Len(Order) \in Nat
        /\ \/ at < Len(Order) /\ at' = at + 1 /\ UNCHANGED <<status, completed>>
           \/ status' = "done"
    BY <1>2, OrderIsFinite DEF SkipScript, EndScript, Leave, Running
  <2>1. CASE status' = "done"
    BY <2>0, <2>1 DEF RerunInvariant
  <2>2. CASE at < Len(Order) /\ at' = at + 1 /\ UNCHANGED <<status, completed>>
    <3>1. ASSUME completed, NEW j, NEW m, Blocks(j, m) PROVE at + 1 <= j /\ j \in Nat
      <4>1. at < j \/ (at = j /\ pc <= m)
        BY <2>0, <3>1 DEF RerunInvariant
      <4>2. ~(at = j /\ pc <= m)
        <5> SUFFICES ASSUME at = j, pc <= m PROVE FALSE
          OBVIOUS
        <5>1. ~SkipScript
          BY BlocksFacts, <3>1 DEF SkipScript, Omits, Here, Current
        <5>2. pc > Len(Order[j].steps)
          BY <1>2, <5>1 DEF EndScript, Current
        <5> QED
          BY <1>0, BlocksFacts, <3>1, <5>2 DEF PlaceInvariant
      <4> QED
        BY BlocksFacts, <2>0, <3>1, <4>1, <4>2
    <3>2. completed => network.live
      BY <2>0 DEF RerunInvariant
    <3>3. ASSUME completed', NEW j, NEW m, Blocks(j, m)'
          PROVE  at' < j \/ (at' = j /\ pc' <= m)
      <4>1. Blocks(j, m) /\ completed
        BY <1>a, <2>2, <3>3
      <4>2. at + 1 <= j /\ j \in Nat /\ m \in Nat
        BY BlocksFacts, <3>1, <4>1
      <4> QED
        BY <2>0, <2>2, <4>2
    <3> QED
      BY <1>0, <2>0, <2>2, <3>2, <3>3 DEF RerunInvariant
  <2> QED
    BY <2>0, <2>1, <2>2
<1>3. CASE EnterScript
  <2>1. /\ status = "running" /\ pc = 0 /\ pc' = 1
        /\ UNCHANGED <<status, at, completed, records>> /\ ~Omits(Order[at])
    BY <1>3 DEF EnterScript, Running, Current
  <2>2. ~Spared(at)'
    BY <2>1 DEF Omits, Spared
  <2>3. ASSUME completed', NEW j, NEW m, Blocks(j, m)' PROVE at' < j \/ (at' = j /\ pc' <= m)
    <3>1. Blocks(j, m) /\ m \in Nat \ {0}
      BY <1>a, BlocksFacts, <2>3
    <3>2. at < j \/ (at = j /\ pc <= m)
      BY <2>1, <2>3, <3>1 DEF RerunInvariant
    <3> QED
      BY <2>1, <3>1, <3>2
  <2> QED
    BY <1>0, <2>1, <2>2, <2>3 DEF RerunInvariant
<1>4. CASE SaveConfig \/ DeployContract \/ SkipCall \/ Transact
  <2>1. /\ InStep /\ pc' = pc + 1 /\ UNCHANGED <<status, at, completed>>
    BY <1>4 DEF SaveConfig, DeployContract, SkipCall, Transact, Calls, history
  <2>2. status = "running" /\ pc \in Nat /\ pc > 0
    BY <1>0, <2>1, StepFacts
  <2>3. ASSUME completed
        PROVE  records' = records /\ (Step.op = "call" /\ Step.after = "" => Transact)
    <3>1. Step.op # "call" => Step.contract \in records
      BY <2>1, <2>3, RerunFacts
    <3>2. records' = records
      BY <1>4, <3>1 DEF SaveConfig, DeployContract, SkipCall, Transact
    <3>3. ~SkipCall \/ Step.after # ""
      BY <1>0, UntiedIsDue DEF SkipCall
    <3> QED
      BY <1>4, <3>2, <3>3 DEF SaveConfig, DeployContract
  <2>4. ASSUME completed', NEW j, NEW m, Blocks(j, m)' PROVE at' < j \/ (at' = j /\ pc' <= m)
    <3>1. Blocks(j, m) /\ completed
      BY <1>a, <2>1, <2>4
    <3> QED
      BY <2>1, <2>3, <3>1, NotBlocked
  <2>5. completed' => ~Spared(at)'
    BY <2>1, <2>2, <2>3 DEF RerunInvariant, Spared
  <2>6. completed' => network.live
    BY <2>1, <2>2 DEF RerunInvariant
  <2> QED
    BY <1>0, <2>1, <2>4, <2>5, <2>6 DEF RerunInvariant
<1>5. CASE FailLookup \/ Revert \/ Interrupt
  <2>1. status = "running" /\ status' # "running" /\ pc' = 0 /\ completed' = completed
    BY <1>5 DEF FailLookup, Revert, Interrupt, Stop, Calls, InStep, Running
  <2> QED
    BY <1>0, <2>1 DEF RerunInvariant
<1>6. CASE CreateForeignList
  BY <1>6, <1>a DEF CreateForeignList, runner, RerunInvariant, Spared
<1>7. CASE UNCHANGED vars
  BY <1>7, <1>a DEF vars, runner, history, RerunInvariant, Spared
<1> QED
  BY <1>1, <1>2, <1>3, <1>4, <1>5, <1>6, <1>7 DEF Next, RunnerStep

\* After a complete run a transaction that is sent again adds nothing: what it names is
\* known already, and a call that would add something comes after one that reverts or
\* in a script that is skipped.
LEMMA TransactAgain ==
  ASSUME BaseInvariant, FeedsInvariant, RerunInvariant, completed, Transact
  PROVE  /\ Step.fn \notin {"createList", "addNewPositionTypes", "updateExternalPositionTypesInfo"}
         /\ called' = called /\ derivatives' = derivatives
<1>1. /\ InStep /\ Due(Step) /\ Step.op = "call"
      /\ PlaceInvariant /\ ProgressInvariant /\ records = Made(network) /\ newly = {}
  BY RerunFacts DEF Transact, Calls, FeedsInvariant
<1>2. Step.after = ""
  BY <1>1 DEF Due
<1>3. <<Step.contract, Step.fn, Step.arg>> \in called
  BY <1>1, <1>2, RerunFacts
<1>4. /\ at \in 1..Len(Order) /\ pc \in 1..Len(Order[at].steps) /\ Applies(network, Order[at])
      /\ IsStep(at, pc) /\ Step = Order[at].steps[pc] /\ status = "running"
      /\ pc \in Nat /\ pc > 0 /\ network \in Networks
  BY <1>1, StepFacts
<1>5. NamesInTime(network, at, pc) /\ RepeatsNothing(network, at, pc)
  BY <1>4, OrderFacts
<1>6. called' = called
  BY <1>3 DEF Transact
<1>7. derivatives' = derivatives
  <2>1. CASE AddsDerivatives(Step)
    <3>1. NamedFeeds(Step.arg) \subseteq derivatives
      BY <1>3, <2>1 DEF FeedsInvariant, AddsDerivatives
    <3>2. Feeds(Step) = NamedFeeds(Step.arg)
      BY <1>1 DEF Feeds, NamedFeeds
    <3> QED
      BY <2>1, <3>1, <3>2 DEF Transact
  <2> QED
    BY <2>1 DEF Transact
<1>8. ASSUME Step.fn \in {"createList", "addNewPositionTypes", "updateExternalPositionTypesInfo"}
      PROVE  FALSE
  <2>1. network.live
    BY <1>4 DEF RerunInvariant
  <2>2. Order[at].unless = {}
    <3> SUFFICES ASSUME Order[at].unless # {} PROVE FALSE
      OBVIOUS
    <3>1. PICK last : last = Len(Order[at].steps)
      OBVIOUS
    <3>2. last \in 1..Len(Order[at].steps) /\ IsStep(at, last)
      BY <1>4, <3>1, OrderIsFinite DEF IsStep
    <3>3. Order[at].unless = {Order[at].steps[last].contract} /\ Order[at].steps[last].op = "deploy"
      BY <1>1, <3>1, <3>2, SparedFacts
    <3>4. Order[at].steps[last].contract \in Made(network)
      BY <1>4, <3>2, <3>3, StepMakes
    <3> QED
      BY <1>1, <1>4, <3>3, <3>4 DEF RerunInvariant, Spared
  <2>3. PICK j \in 1..at : \E m \in 1..Len(Order[j].steps) :
          /\ j < at \/ m < pc
          /\ Applies(network, Order[j]) /\ Order[j].unless = {}
          /\ Order[j].steps[m].op = "call" /\ Order[j].steps[m].after = ""
          /\ Order[j].steps[m].arg = ""
          /\ <<Order[j].steps[m].contract, Order[j].steps[m].fn>> \in Once
    BY <1>4, <1>5, <1>8, <2>1, <2>2 DEF RepeatsNothing
  <2>4. PICK m \in 1..Len(Order[j].steps) :
          /\ j < at \/ m < pc
          /\ Applies(network, Order[j]) /\ Order[j].unless = {}
          /\ Order[j].steps[m].op = "call" /\ Order[j].steps[m].after = ""
          /\ Order[j].steps[m].arg = ""
          /\ <<Order[j].steps[m].contract, Order[j].steps[m].fn>> \in Once
    BY <2>3
  <2>5. j \in 1..Len(Order) /\ j \in Nat /\ at \in Nat /\ j <= at
    <3>1. Len(Order) \in Nat /\ at \in 1..Len(Order)
      BY <1>4, OrderIsFinite
    <3>2. at \in Nat
      BY <3>1
    <3> QED
      BY <3>1, <3>2, UpToNumbers
  <2>6. Blocks(j, m)
    BY <2>4, <2>5 DEF Blocks, IsStep
  <2>7. at < j \/ (at = j /\ pc <= m)
    BY <1>4, <2>6 DEF RerunInvariant
  <2>8. m \in Nat
    BY <2>6, BlocksFacts
  <2>9. j < at \/ m < pc
    BY <2>4
  <2> QED
    BY <1>4, <2>5, <2>7, <2>8, <2>9, NotBoth
<1> QED
  BY <1>6, <1>7, <1>8

\* Lists of others are not ours.
LEMMA OwnListsStay ==
  ASSUME ListsInvariant, CreateForeignList
  PROVE  OwnLists' = OwnLists
<1>1. lists' = Append(lists, [by |-> "other", items |-> {}])
  BY DEF CreateForeignList
<1>2. [by |-> "other", items |-> {}] \in ListRecords
  BY {} \in SUBSET Listable, IsList, Zenon
<1>3. /\ Len(lists') = Len(lists) + 1 /\ Len(lists) \in Nat
      /\ lists'[Len(lists) + 1] = [by |-> "other", items |-> {}]
      /\ \A x \in 1..Len(lists) : lists'[x] = lists[x]
  BY <1>1, <1>2, AppendProperties, LenProperties DEF ListsInvariant
<1>4. lists'[Len(lists) + 1].by = "other"
  BY <1>3
<1>5. {x \in 1..Len(lists') : lists'[x].by # "other"}
        = {x \in 1..Len(lists) : lists[x].by # "other"}
  BY <1>3, <1>4
<1> QED
  BY <1>3, <1>5 DEF OwnLists

\* What a step does after a complete run.
AddsNothing ==
  completed => UNCHANGED <<records, called, derivatives, OwnLists, bypassList, labels, typeInfo>>

LEMMA StepsAddNothing ==
  ASSUME BaseInvariant, ListsInvariant, FeedsInvariant, RerunInvariant, [Next]_vars
  PROVE  AddsNothing
<1> SUFFICES ASSUME completed
             PROVE  /\ UNCHANGED <<records, called, derivatives, bypassList, labels, typeInfo>>
                    /\ OwnLists' = OwnLists
  BY DEF AddsNothing
<1>0. lists' = lists => OwnLists' = OwnLists
  BY DEF OwnLists
<1>1. CASE SaveConfig \/ DeployContract
  <2>1. Step.contract \in records
    BY <1>1, RerunFacts DEF SaveConfig, DeployContract
  <2> QED
    BY <1>0, <1>1, <2>1 DEF SaveConfig, DeployContract, chain
<1>2. CASE Transact
  <2>1. UNCHANGED <<records, bypassList>>
    BY <1>2 DEF Transact
  <2>2. UNCHANGED <<lists, labels, typeInfo>>
    BY <1>2, TransactAgain DEF Transact
  <2> QED
    BY <1>0, <1>2, <2>1, <2>2, TransactAgain
<1>3. CASE CreateForeignList
  BY <1>3, OwnListsStay DEF CreateForeignList
<1>4. CASE UNCHANGED <<records, chain>>
  BY <1>0, <1>4 DEF chain
<1> QED
  BY <1>1, <1>2, <1>3, <1>4
  DEF Next, RunnerStep, StartRun, Rerun, Start, SkipScript, EndScript, Leave, EnterScript,
      SkipCall, FailLookup, Revert, Interrupt, Stop, vars

\* Once a run has been completed, every later run deploys nothing, calls nothing that
\* leaves a trace and adds no list, label or feed, wherever it stops.
THEOREM RerunNeverChanges == Spec => RerunChangesNothing
<1> DEFINE Inv == BaseInvariant /\ ListsInvariant /\ FeedsInvariant /\ RerunInvariant
<1>1. Init => FeedsInvariant /\ RerunInvariant
  BY DEF Init, FeedsInvariant, RerunInvariant
<1>2. Inv /\ [Next]_vars => AddsNothing
  BY StepsAddNothing
<1>3. AddsNothing <=>
        (completed => UNCHANGED <<records, called, derivatives, OwnLists, bypassList, labels,
                                  typeInfo>>)
  BY DEF AddsNothing
<1> QED
  BY <1>1, <1>2, <1>3, ListsInit, ListsStep, FeedsStep, RerunStep, BaseCorrect, PTL
  DEF Spec, RerunChangesNothing
=============================================================================
