------------------------------- MODULE Deployment -------------------------------
(***************************************************************************)
(* "hardhat deploy": one process runs the scripts of DeploymentScripts in    *)
(* order, keeping a record of every contract it deploys.  The process may     *)
(* stop between any two of its steps (it is killed, or the node refuses the   *)
(* next request) and is then started again from the records it has kept;     *)
(* on the chain everything it had sent stays.  On a live network others use  *)
(* the AddressListRegistry at the same time.                                 *)
(***************************************************************************)
EXTENDS DeploymentScripts, FiniteSets

CONSTANTS
  Order,           \* the scripts, in the order the runner takes them
  Networks,        \* networks, as [chain, live]
  MaxInterrupts,   \* bound: how often the process stops
  MaxForeignLists  \* bound: lists created by others

\* What the scripts keep to: what they do only for a contract that is newly deployed
\* comes later in the script that deploys it, and depends on nothing else; no other
\* script deploys it.
ASSUME ScriptsAssumption ==
  /\ Len(Order) \in Nat
  /\ \A i \in 1..Len(Order) :
       /\ Len(Order[i].steps) \in Nat
       /\ \A k \in 1..Len(Order[i].steps) :
            LET step == Order[i].steps[k]
            IN  step.after # "" =>
                  /\ step.op = "call"
                  /\ step.fn \notin {"updateExternalPositionTypesInfo", "addNewPositionTypes"}
       /\ \A k \in 1..Len(Order[i].steps), j \in 1..Len(Order) :
            \A m \in 1..Len(Order[j].steps) :
              LET step == Order[i].steps[k]  later == Order[j].steps[m]
              IN  step.op # "call" /\ later.after # "" /\ later.after = step.contract =>
                    step.op = "deploy" /\ i = j /\ k < m

VARIABLES
  network,     \* --network
  status,      \* "idle", "running", "done", or why the last run stopped
  at, pc,      \* the script being run, its next step (0: not entered)
  newly,       \* contracts with newlyDeployed in the current script
  count,       \* the list count CumulativeSlippageTolerancePolicy.ts has read
  records,     \* deployment records
  called,      \* transactions that succeeded, as <<contract, function, argument>>
  derivatives, \* price feeds whose tokens the ValueInterpreter knows
  lists,       \* AddressListRegistry: list id n is lists[n + 1]
  bypassList,  \* the list id the slippage policy was deployed with
  labels,      \* ExternalPositionFactory: type id n has labels[n + 1]
  typeInfo,    \* ExternalPositionManager: pairs <<type id, label of its contracts>>
  missed,      \* history: <<script, contract>> looked up in vain
  torn,        \* history: scripts stopped with work that no later run does
  raced,       \* history: a list came between the count and createList
  completed,   \* history: a run has reached its end
  interrupts

runner == <<status, at, pc, newly, count>>
chain == <<called, derivatives, lists, bypassList, labels, typeInfo>>
history == <<missed, torn, raced, completed, interrupts>>
vars == <<network, runner, records, chain, history>>

Current == Order[at]
Step == Current.steps[pc]
Running == status = "running" /\ at \in 1..Len(Order)
InStep == Running /\ pc \in 1..Len(Current.steps)
Applies(n, s) == n.chain \in s.chains /\ (n.live => s.live)
\* Mutant: skip() forgets the chain.
HereOnAnyChain(s) == network.live => s.live
\* Mutant: skip() forgets live networks.
HereOnLiveToo(s) == network.chain \in s.chains
Here(s) == Applies(network, s)

\* Recorded contracts with linkedData.type = kind, or the non-slippage adapters.
ScriptSet == {Order[i] : i \in 1..Len(Order)}
OfType ==
  [kind \in {"ADAPTER", "FEE", "POLICY", "nonSlippage"} |->
     {s.name : s \in {t \in ScriptSet :
                        IF kind = "nonSlippage" THEN t.nonSlippage ELSE t.kind = kind}}]
Tagged(kind) == OfType[kind] \intersect records
Found(label) == PositionContracts[label] \subseteq records
FoundTypes ==
  LET Upto[k \in 0..Len(PositionTypes)] ==
        IF k = 0 THEN <<>>
        ELSE IF Found(PositionTypes[k]) THEN Append(Upto[k - 1], PositionTypes[k])
        ELSE Upto[k - 1]
  IN  Upto[Len(PositionTypes)]

\* Mutant: the script asks for a record after it has made it.
DueUnlessRecorded(step) ==
  /\ step.after # "" => step.after \notin records
  /\ step.fn = "updateExternalPositionTypesInfo" => Found(step.arg)
  /\ step.fn = "addNewPositionTypes" => FoundTypes # <<>>

\* Whether the script sends this transaction.
Due(step) ==
  /\ step.after # "" => step.after \in newly
  /\ step.fn = "updateExternalPositionTypesInfo" => Found(step.arg)
  /\ step.fn = "addNewPositionTypes" => FoundTypes # <<>>

-----------------------------------------------------------------------------
(* What the contracts accept. *)

Did(c, f) == <<c, f, "">> \in called

\* Functions that revert the second time they are called with the same arguments.
Once ==
  {<<"GasRelayPaymasterLib", "init">>, <<"ProtocolFeeReserveLib", "init">>,
   <<"ComptrollerLib", "init">>, <<"VaultLib", "init">>,
   <<"FundDeployer", "setProtocolFeeTracker">>, <<"FundDeployer", "setComptrollerLib">>,
   <<"FundDeployer", "setVaultLib">>, <<"FundDeployer", "registerVaultCalls">>,
   <<"FundDeployer", "registerBuySharesOnBehalfCallers">>,
   <<"FundDeployer", "setReleaseLive">>, <<"ValueInterpreter", "setEthUsdAggregator">>,
   <<"ValueInterpreter", "addPrimitives">>, <<"AavePriceFeed", "addDerivatives">>,
   <<"CompoundPriceFeed", "addCTokens">>, <<"CurvePriceFeed", "addPools">>,
   <<"FusePriceFeed", "addCTokens">>, <<"FusePriceFeed", "addCEtherTokens">>,
   <<"IdlePriceFeed", "addDerivatives">>, <<"PoolTogetherV4PriceFeed", "addDerivatives">>,
   <<"YearnVaultV2PriceFeed", "addDerivatives">>,
   <<"UniswapV2PoolPriceFeed", "addPoolTokens">>,
   <<"ExternalPositionFactory", "addPositionDeployers">>,
   <<"Dispatcher", "setCurrentFundDeployer">>}

Releasable ==
  /\ Did("FundDeployer", "setComptrollerLib")
  /\ Did("FundDeployer", "setProtocolFeeTracker")
  /\ Did("FundDeployer", "setVaultLib")

\* What a feed must have been told before isSupportedAsset holds of its tokens.
Registrations ==
  [AavePriceFeed |-> {"addDerivatives"}, CompoundPriceFeed |-> {"addCTokens"},
   CurvePriceFeed |-> {"addPools"}, FiduPriceFeed |-> {},
   FusePriceFeed |-> {"addCTokens", "addCEtherTokens"},
   IdlePriceFeed |-> {"addDerivatives"}, LidoStethPriceFeed |-> {},
   PoolTogetherV4PriceFeed |-> {"addDerivatives"},
   UniswapV2PoolPriceFeed |-> {"addPoolTokens"},
   YearnVaultV2PriceFeed |-> {"addDerivatives"}]
SupportsItsAssets(feed) == \A f \in Registrations[feed] : Did(feed, f)

\* Mutant: only feeds deployed by the same script count.
FeedsJustDeployed(step) == IF step.arg = "found" THEN ListedFeeds \intersect newly ELSE {step.arg}

\* The feeds a call of ValueInterpreter.addDerivatives names.
Feeds(step) == IF step.arg = "found" THEN ListedFeeds \intersect records ELSE {step.arg}
AddsDerivatives(step) == step.contract = "ValueInterpreter" /\ step.fn = "addDerivatives"

\* Mutant: no call reverts for having been made before.
AcceptsTwice(step) ==
  /\ step.fn = "setReleaseLive" => Releasable
  /\ step.fn = "addPoolTokens" => Did("ValueInterpreter", "addPrimitives")
  /\ AddsDerivatives(step) =>
       \A feed \in Feeds(step) : feed \notin derivatives /\ SupportsItsAssets(feed)
  /\ step.fn = "updateExternalPositionTypesInfo" =>
       ExternalPositionType[step.arg] < Len(labels)

Accepts(step) ==
  /\ ~(<<step.contract, step.fn>> \in Once /\ Did(step.contract, step.fn))
  /\ step.fn = "setReleaseLive" => Releasable
  /\ step.fn = "addPoolTokens" => Did("ValueInterpreter", "addPrimitives")
  /\ AddsDerivatives(step) =>
       \A feed \in Feeds(step) : feed \notin derivatives /\ SupportsItsAssets(feed)
  /\ step.fn = "updateExternalPositionTypesInfo" =>
       ExternalPositionType[step.arg] < Len(labels)

-----------------------------------------------------------------------------
(* What the order of the scripts gives them. *)

\* Contracts a script records, and those recorded by the scripts before the i-th, or
\* by all, that apply to a network.
RecordedBy(s) == {s.steps[k].contract : k \in {j \in 1..Len(s.steps) : s.steps[j].op # "call"}}
MadeBefore(n, i) ==
  UNION {RecordedBy(Order[j]) : j \in {j \in 1..Len(Order) : j < i /\ Applies(n, Order[j])}}
Made(n) == MadeBefore(n, Len(Order) + 1)
\* No contract of this set is first recorded by the i-th script or later.
Settled(n, i, names) == names \intersect Made(n) \subseteq MadeBefore(n, i)

Transactions ==
  [n \in Networks |->
     UNION {{s.steps[k] : k \in {j \in 1..Len(s.steps) : s.steps[j].op = "call"}} :
              s \in {t \in ScriptSet : Applies(n, t)}}]

\* A script finds what it looks for at once, or never; one that is skipped once a
\* contract is recorded records it last, and no other script does.
LooksUpInTime(n, i) ==
  LET s == Order[i]
  IN  /\ n.chain \in Both =>
           /\ s.get \subseteq MadeBefore(n, i)
           /\ s.sections # {} =>
                "Config" \in MadeBefore(n, i) /\ s.sections \subseteq Sections(n.chain)
      /\ Settled(n, i, s.getOrNull)
      /\ s.unless # {} =>
           \A k \in 1..Len(s.steps) :
             IF k = Len(s.steps)
             THEN /\ s.unless = {s.steps[k].contract} /\ s.steps[k].op = "deploy"
                  /\ \A j \in 1..Len(Order) : j # i => s.unless \intersect RecordedBy(Order[j]) = {}
             ELSE s.steps[k].op = "call" /\ s.steps[k].after = ""

\* So do the calls that name what was recorded; the policy that takes the number of a
\* list is deployed right after the list is made, and that after the count is read.
NamesInTime(n, i, k) ==
  LET s == Order[i]  step == s.steps[k]
  IN  /\ step.fn = "createList" => step.arg \in DOMAIN OfType /\ Settled(n, i, OfType[step.arg])
      /\ AddsDerivatives(step) /\ step.arg = "found" => Settled(n, i, ListedFeeds)
      /\ step.fn = "updateExternalPositionTypesInfo" => step.arg \in PositionLabels
      /\ step.fn \in {"addNewPositionTypes", "updateExternalPositionTypesInfo"} =>
           UNION {PositionContracts[l] : l \in PositionLabels} \subseteq MadeBefore(n, i)
      /\ step.op # "call" /\ step.contract = "CumulativeSlippageTolerancePolicy" =>
           /\ step.op = "deploy" /\ k > 2
           /\ s.steps[k - 2] = Call("AddressListRegistry", "getListCount")
           /\ s.steps[k - 1] = CallWith("AddressListRegistry", "createList", "nonSlippage")
      /\ step.after # "" => step.after \in RecordedBy(s)

\* Calls that would add something if they were made again come after one that reverts.
RepeatsNothing(n, i, k) ==
  LET s == Order[i]
  IN  n.live /\ s.unless = {}
        /\ s.steps[k].fn \in
             {"createList", "addNewPositionTypes", "updateExternalPositionTypesInfo"}
      => \E j \in 1..i : \E m \in 1..Len(Order[j].steps) :
           LET step == Order[j].steps[m]
           IN  /\ j < i \/ m < k
               /\ Applies(n, Order[j]) /\ Order[j].unless = {}
               /\ step.op = "call" /\ step.after = "" /\ step.arg = ""
               /\ <<step.contract, step.fn>> \in Once

\* The scripts make every call the release, the feeds and the official lists need.
Complete(n) ==
  LET made == {<<s.contract, s.fn, s.arg>> : s \in Transactions[n]}
  IN  /\ {<<"FundDeployer", f, "">> :
             f \in {"setComptrollerLib", "setProtocolFeeTracker", "setVaultLib"}} \subseteq made
      /\ \A feed \in DOMAIN Registrations \intersect Made(n) :
           \E s \in Transactions[n] :
             AddsDerivatives(s) /\ (s.arg = feed \/ (s.arg = "found" /\ feed \in ListedFeeds))
      /\ \A kind \in {"ADAPTER", "FEE", "POLICY"} :
           <<"AddressListRegistry", "createList", kind>> \in made

ASSUME OrderAssumption ==
  \A n \in Networks :
    /\ Complete(n)
    /\ \A i \in 1..Len(Order) : Applies(n, Order[i]) =>
         /\ LooksUpInTime(n, i)
         /\ \A k \in 1..Len(Order[i].steps) : NamesInTime(n, i, k) /\ RepeatsNothing(n, i, k)

-----------------------------------------------------------------------------
(* The runner. *)

Init ==
  /\ network \in Networks
  /\ status = "idle" /\ at = 1 /\ pc = 0 /\ newly = {} /\ count = 0
  /\ records = {} /\ called = {} /\ derivatives = {} /\ bypassList = 0
  /\ lists = <<[by |-> "constructor", items |-> {}]>>
  /\ labels = <<>> /\ typeInfo = {}
  /\ missed = {} /\ torn = {} /\ raced = FALSE /\ completed = FALSE /\ interrupts = 0

Start ==
  /\ status' = "running"
  /\ UNCHANGED <<network, at, pc, newly, count, records, chain, history>>

\* A first run, or a run after one that stopped short.
StartRun == status \notin {"running", "done"} /\ Start
\* One more run after a complete one.  The in-process network keeps nothing.
Rerun == status = "done" /\ network.live /\ Start

\* On to the next script, or to the end of the run.
Leave ==
  /\ pc' = 0 /\ newly' = {} /\ count' = 0
  /\ IF at < Len(Order)
     THEN at' = at + 1 /\ UNCHANGED <<status, completed>>
     ELSE at' = 1 /\ status' = "done" /\ completed' = TRUE
  /\ UNCHANGED <<network, records, chain, missed, torn, raced, interrupts>>

Omits(s) == ~Here(s) \/ (s.unless # {} /\ s.unless \subseteq records)
SkipScript == Running /\ pc = 0 /\ Omits(Current) /\ Leave
EndScript == Running /\ pc > Len(Current.steps) /\ Leave

\* get() throws when there is no record, and so does reading a missing section.
Lacks(s) ==
  \/ ~(s.get \subseteq records)
  \/ s.sections # {} /\ ~("Config" \in records /\ s.sections \subseteq Sections(network.chain))

EnterScript ==
  /\ Running /\ pc = 0 /\ ~Omits(Current)
  /\ ~Lacks(Current)
  /\ pc' = 1
  /\ missed' = missed \union ({Current.name} \X (Current.getOrNull \ records))
  /\ UNCHANGED <<network, status, at, newly, count, records, chain, torn, raced, completed,
                 interrupts>>

SaveConfig ==
  /\ InStep /\ Step.op = "save"
  /\ records' = records \union {Step.contract}
  /\ pc' = pc + 1
  /\ UNCHANGED <<network, status, at, newly, count, chain, history>>

\* Mutant: the policy gets the id of the list before its own.
DeployContractWithLast ==
  /\ InStep /\ Step.op = "deploy"
  /\ IF Step.contract \in records
     THEN UNCHANGED <<records, newly, bypassList>>
     ELSE /\ records' = records \union {Step.contract}
          /\ newly' = newly \union {Step.contract}
          /\ bypassList' = IF Step.contract = "CumulativeSlippageTolerancePolicy"
                           THEN count - 1 ELSE bypassList
  /\ pc' = pc + 1
  /\ UNCHANGED <<network, status, at, count, called, derivatives, lists, labels, typeInfo,
                 history>>

\* deploy(): nothing is done when there is a record of that name.
DeployContract ==
  /\ InStep /\ Step.op = "deploy"
  /\ IF Step.contract \in records
     THEN UNCHANGED <<records, newly, bypassList>>
     ELSE /\ records' = records \union {Step.contract}
          /\ newly' = newly \union {Step.contract}
          /\ bypassList' = IF Step.contract = "CumulativeSlippageTolerancePolicy"
                           THEN count ELSE bypassList
  /\ pc' = pc + 1
  /\ UNCHANGED <<network, status, at, count, called, derivatives, lists, labels, typeInfo,
                 history>>

SkipCall ==
  /\ InStep /\ Step.op = "call" /\ ~Due(Step)
  /\ pc' = pc + 1
  /\ UNCHANGED <<network, status, at, newly, count, records, chain, history>>

Calls == InStep /\ Step.op = "call" /\ Due(Step)

Transact ==
  /\ Calls /\ Accepts(Step)
  /\ called' = called \union {<<Step.contract, Step.fn, Step.arg>>}
  /\ derivatives' = IF AddsDerivatives(Step) THEN derivatives \union Feeds(Step)
                    ELSE derivatives
  /\ lists' = IF Step.fn = "createList"
              THEN Append(lists, [by |-> "deployer", items |-> Tagged(Step.arg)]) ELSE lists
  /\ count' = IF Step.fn = "getListCount" THEN Len(lists) ELSE count
  /\ labels' = IF Step.fn = "addNewPositionTypes" THEN labels \o FoundTypes ELSE labels
  /\ typeInfo' = IF Step.fn = "updateExternalPositionTypesInfo"
                 THEN {t \in typeInfo : t[1] # ExternalPositionType[Step.arg]}
                      \union {<<ExternalPositionType[Step.arg], Step.arg>>}
                 ELSE typeInfo
  /\ pc' = pc + 1
  /\ UNCHANGED <<network, status, at, newly, records, bypassList, history>>

\* Work of the current script that the next run will not take up: calls tied to
\* newlyDeployed, and what follows a call that cannot be made twice.
Abandons ==
  \E k \in pc..Len(Current.steps) :
    LET rest == Current.steps[k]
    IN  /\ rest.op = "call"
        /\ \/ rest.after # "" /\ rest.after \in newly
           \/ \E j \in 1..(pc - 1) :
                /\ Current.steps[j].op = "call" /\ Current.steps[j].after = ""
                /\ <<Current.steps[j].contract, Current.steps[j].fn>> \in Once

\* The process ends; its next run begins at the first script.
Stop(why) ==
  /\ status' = why /\ at' = 1 /\ pc' = 0 /\ newly' = {} /\ count' = 0
  /\ torn' = IF pc > 0 /\ Abandons THEN torn \union {Current.name} ELSE torn
  /\ UNCHANGED <<network, records, chain, missed, raced, completed>>

FailLookup ==
  Running /\ pc = 0 /\ ~Omits(Current) /\ Lacks(Current) /\ Stop("missing")
    /\ UNCHANGED interrupts
Revert == Calls /\ ~Accepts(Step) /\ Stop("reverted") /\ UNCHANGED interrupts

-----------------------------------------------------------------------------
(* The environment. *)

Interrupt ==
  /\ Running /\ network.live /\ interrupts < MaxInterrupts
  /\ interrupts' = interrupts + 1
  /\ Stop("interrupted")

ForeignLists == Cardinality({i \in 1..Len(lists) : lists[i].by = "other"})
BetweenCountAndList == InStep /\ Step.fn = "createList" /\ Step.arg = "nonSlippage"

CreateForeignList ==
  /\ network.live /\ "AddressListRegistry" \in records /\ ForeignLists < MaxForeignLists
  /\ lists' = Append(lists, [by |-> "other", items |-> {}])
  /\ raced' = (raced \/ BetweenCountAndList)
  /\ UNCHANGED <<network, runner, records, called, derivatives, bypassList, labels, typeInfo,
                 missed, torn, completed, interrupts>>

-----------------------------------------------------------------------------
RunnerStep ==
  \/ SkipScript \/ EnterScript \/ FailLookup \/ EndScript
  \/ SaveConfig \/ DeployContract \/ SkipCall \/ Transact \/ Revert

Next == StartRun \/ Rerun \/ RunnerStep \/ Interrupt \/ CreateForeignList

Spec == Init /\ [][Next]_vars

\* A run that has begun goes on, and one that has stopped short is started again.
FairSpec == Spec /\ WF_vars(RunnerStep) /\ WF_vars(StartRun)
-----------------------------------------------------------------------------
\* The order in which the tags and the paths of the scripts make the runner take
\* them gives every script what it looks for: on a chain with a configuration no run
\* stops for a missing deployment or section, and no script goes on without an
\* optional contract (a price feed, the paymaster factory, an external position)
\* that is deployed after it looked, whatever was interrupted before.
LookupsSettled ==
  /\ status = "missing" => network.chain \notin Both
  /\ \A m \in missed : m[2] \notin records

\* Every call tied to the deployment of a contract (initialising a library, setting
\* it on the FundDeployer, registering a feed's tokens) has been made once the
\* contract is recorded, is still ahead of the script that is running, or was lost
\* by a run that stopped inside that script.
FollowUpsDone ==
  \A i \in 1..Len(Order) : \A k \in 1..Len(Order[i].steps) :
    LET call == Order[i].steps[k]
    IN  call.after # "" /\ call.after \in records =>
          \/ <<call.contract, call.fn, call.arg>> \in called
          \/ Order[i].name \in torn
          \/ status = "running" /\ at = i /\ pc <= k /\ call.after \in newly

\* What a complete deployment has: every contract of the chain, every call of the
\* scripts that apply to it, every recorded feed known to the ValueInterpreter, and
\* lists of exactly the recorded adapters, fees and policies.
Configured ==
  /\ Made(network) \subseteq records
  /\ \A s \in Transactions[network] :
       \/ <<s.contract, s.fn, s.arg>> \in called
       \/ s.fn = "updateExternalPositionTypesInfo" /\ ~Found(s.arg)
  /\ Releasable
  /\ DOMAIN Registrations \intersect records \subseteq derivatives
  /\ \A kind \in {"ADAPTER", "FEE", "POLICY"} : \E i \in 1..Len(lists) :
       lists[i].by = "deployer" /\ lists[i].items = Tagged(kind)

\* A run that reaches its end has configured the release, however many runs it
\* took, unless one of them stopped inside a script and lost its work.
ConfiguredWhenDone == completed /\ torn = {} => Configured

\* The slippage policy is deployed with the id of the list made for it, of every
\* adapter without slippage, unless somebody made a list after the count was read.
BypassListIsOurs ==
  "CumulativeSlippageTolerancePolicy" \in records /\ ~raced =>
    /\ lists[bypassList + 1].by = "deployer"
    /\ lists[bypassList + 1].items = Tagged("nonSlippage")

\* The type ids the package hard-codes are the ids under which the factory has the
\* labels of the same types.
TypesMatchLabels ==
  \A t \in typeInfo : t[1] < Len(labels) /\ labels[t[1] + 1] = t[2]

\* Lists by their numbers, but those of others.
OwnLists == [i \in {j \in 1..Len(lists) : lists[j].by # "other"} |-> lists[i]]

\* After a complete run, running the scripts again deploys nothing, calls nothing
\* and leaves no second copy of the official lists, even though the run as a whole
\* fails.
RerunChangesNothing ==
  [][completed => UNCHANGED <<records, called, derivatives, OwnLists, bypassList, labels,
                              typeInfo>>]_vars

\* As long as no run stops inside a script, running the scripts again and again
\* completes the deployment of a chain that has a configuration.
CleanInterruptionsHeal == [](torn = {} /\ network.chain \in Both) => <>[]Configured

\* GasRelayPaymasterLib.ts, ProtocolFeeReserve.ts, ComptrollerLib.ts and VaultLib.ts:
\* "Initialize the lib with dummy data to prevent another init() call".
LibsInitialized ==
  completed =>
    \A lib \in {"GasRelayPaymasterLib", "ProtocolFeeReserveLib", "ComptrollerLib", "VaultLib"} :
      lib \in records => Did(lib, "init")
=============================================================================
