---------------------------- MODULE DeploymentScripts ----------------------------
(***************************************************************************)
(* The deployment scripts of packages/protocol/deploy/scripts, one          *)
(* definition per file.  A script is a record: the tags it carries and the   *)
(* tags it depends on, the chains it runs on, the deployment records it must *)
(* find (get), those it may find (getOrNull), the sections of the network's  *)
(* configuration it reads, and the steps it takes.  Constructor arguments,   *)
(* logs and the artefact behind a contract's name are left out; so are the   *)
(* tags "Persistent", "Release", "Peripheral" and "OffChain", on which no    *)
(* script depends.                                                           *)
(***************************************************************************)
EXTENDS Naturals, Sequences

\* deploy() with skipIfAlreadyDeployed, saveConfig(), and a transaction.  A
\* transaction with "after" is sent only if that contract is newly deployed.
Deploy(c) == [op |-> "deploy", contract |-> c, fn |-> "", arg |-> "", after |-> ""]
Save(c) == [Deploy(c) EXCEPT !.op = "save"]
CallWith(c, f, a) == [op |-> "call", contract |-> c, fn |-> f, arg |-> a, after |-> ""]
Call(c, f) == CallWith(c, f, "")
After(c, call) == [call EXCEPT !.after = c]

\* Chains by the names of deploy/utils/helpers.ts; "other" is any chain not among them.
Homestead == {"homestead"}
Both == {"homestead", "matic"}
Chains == Both \union {"other"}

Script(name, tags, dependencies, get, sections, steps) ==
  [name |-> name, tags |-> tags, dependencies |-> dependencies, get |-> get,
   getOrNull |-> {}, sections |-> sections, steps |-> steps, unless |-> {},
   chains |-> Chains, kind |-> "", nonSlippage |-> FALSE, runAtTheEnd |-> FALSE,
   live |-> TRUE]

On(chains, s) == [s EXCEPT !.chains = chains]
NotLive(s) == [s EXCEPT !.live = FALSE]
AtTheEnd(s) == [s EXCEPT !.runAtTheEnd = TRUE]
Peek(names, s) == [s EXCEPT !.getOrNull = names]
\* The body of "if (<contract>.newlyDeployed)".
Then(s, calls) ==
  [s EXCEPT !.steps = @ \o [k \in 1..Len(calls) |-> After(s.name, calls[k])]]

Contract(c, dependencies, get, sections) ==
  Script(c, {c}, dependencies, get, sections, <<Deploy(c)>>)
Typed(s, group, kind) == [s EXCEPT !.tags = @ \union {group}, !.kind = kind]
Adapter(c, dependencies, get, sections) ==
  Typed(Contract(c, dependencies, get, sections), "Adapters", "ADAPTER")
NonSlippage(s) == [s EXCEPT !.nonSlippage = TRUE]
Policy(c, dependencies, get, sections) ==
  Typed(Contract(c, dependencies, get, sections), "Policies", "POLICY")
Fee(c) == Typed(Contract(c, <<"FeeManager">>, {"FeeManager"}, {}), "Fees", "FEE")
Position(c, dependencies, get, sections) ==
  Typed(Contract(c, dependencies, get, sections), "ExternalPositions", "")

\* What each chain's configuration has; both have a price source for every
\* primitive asset, which ValueInterpreter.ts insists on.
HomesteadSections ==
  {"aave", "chainlink", "compound", "convex", "curve", "feeBps", "feeToken",
   "feeTokenBurn", "fuse", "goldfinch", "gsn", "idle", "lido", "liquity",
   "maple", "olympusV2", "paraSwapV5", "poolTogetherV4", "positionsLimit",
   "primitives", "snapshot", "solvFinanceV2", "synthetix", "theGraph",
   "uniswap", "uniswapV3", "unsupportedAssets", "weth", "wrappedNativeAsset",
   "yearn", "zeroex"}
MaticSections ==
  {"aave", "chainlink", "curve", "feeBps", "feeToken", "feeTokenBurn", "gsn",
   "paraSwapV5", "poolTogetherV4", "positionsLimit", "primitives", "uniswapV3",
   "weth", "wrappedNativeAsset"}
Sections(chain) == IF chain = "homestead" THEN HomesteadSections ELSE MaticSections

\* The price feeds ValueInterpreter.ts looks for.
ListedFeeds ==
  {"AavePriceFeed", "CurvePriceFeed", "CompoundPriceFeed", "FusePriceFeed",
   "FiduPriceFeed", "IdlePriceFeed", "LidoStethPriceFeed", "PoolTogetherV4PriceFeed",
   "YearnVaultV2PriceFeed"}

\* External position types in the order PublishRelease.ts adds their labels, the
\* type ids the package hard-codes, and the two contracts of a type.
PositionTypes ==
  <<"COMPOUND_DEBT", "UNISWAP_V3_LIQUIDITY", "AAVE_DEBT", "LIQUITY_DEBT",
    "CONVEX_VOTING", "THE_GRAPH_DELEGATION", "MAPLE_LIQUIDITY",
    "SOLV_V2_CONVERTIBLE_BUYER", "ARBITRARY_LOAN", "SOLV_V2_CONVERTIBLE_ISSUER">>
PositionLabels == {PositionTypes[i] : i \in 1..Len(PositionTypes)}
ExternalPositionType ==
  [COMPOUND_DEBT |-> 0, UNISWAP_V3_LIQUIDITY |-> 1, AAVE_DEBT |-> 2, LIQUITY_DEBT |-> 3,
   CONVEX_VOTING |-> 4, THE_GRAPH_DELEGATION |-> 5, MAPLE_LIQUIDITY |-> 6,
   SOLV_V2_CONVERTIBLE_BUYER |-> 7, ARBITRARY_LOAN |-> 8,
   SOLV_V2_CONVERTIBLE_ISSUER |-> 9]
PositionContracts ==
  [COMPOUND_DEBT |-> {"CompoundDebtPositionLib", "CompoundDebtPositionParser"},
   UNISWAP_V3_LIQUIDITY |->
     {"UniswapV3LiquidityPositionLib", "UniswapV3LiquidityPositionParser"},
   AAVE_DEBT |-> {"AaveDebtPositionLib", "AaveDebtPositionParser"},
   LIQUITY_DEBT |-> {"LiquityDebtPositionLib", "LiquityDebtPositionParser"},
   CONVEX_VOTING |-> {"ConvexVotingPositionLib", "ConvexVotingPositionParser"},
   THE_GRAPH_DELEGATION |->
     {"TheGraphDelegationPositionLib", "TheGraphDelegationPositionParser"},
   MAPLE_LIQUIDITY |-> {"MapleLiquidityPositionLib", "MapleLiquidityPositionParser"},
   SOLV_V2_CONVERTIBLE_BUYER |->
     {"SolvV2ConvertibleBuyerPositionLib", "SolvV2ConvertibleBuyerPositionParser"},
   ARBITRARY_LOAN |-> {"ArbitraryLoanPositionLib", "ArbitraryLoanPositionParser"},
   SOLV_V2_CONVERTIBLE_ISSUER |->
     {"SolvV2ConvertibleIssuerPositionLib", "SolvV2ConvertibleIssuerPositionParser"}]

------------------------------------------------------------------------------
(* deploy/scripts/config *)

MainnetScript ==
  On(Homestead, Script("Mainnet", {"Config"}, <<>>, {}, {}, <<Save("Config")>>))

PolygonScript ==
  On({"matic"}, Script("Polygon", {"Config"}, <<>>, {}, {}, <<Save("Config")>>))

------------------------------------------------------------------------------
(* deploy/scripts/persistent *)

AddressListRegistryScript ==
  Contract("AddressListRegistry", <<"Dispatcher">>, {"Dispatcher"}, {})

DispatcherScript ==
  Contract("Dispatcher", <<>>, {}, {})

GlobalConfigScript ==
  Script("GlobalConfig", {"GlobalConfig"}, <<"Dispatcher", "FundDeployer">>,
    {"Dispatcher", "FundDeployer"}, {},
    <<Deploy("GlobalConfigLib"), Deploy("GlobalConfigProxy")>>)

ManualValueOracleFactoryScript ==
  Contract("ManualValueOracleFactory", <<>>, {}, {})

SharesSplitterFactoryScript ==
  Contract("SharesSplitterFactory", <<"GlobalConfig">>, {"GlobalConfigProxy"}, {})

UintListRegistryScript ==
  Contract("UintListRegistry", <<"Dispatcher">>, {"Dispatcher"}, {})

------------------------------------------------------------------------------
(* deploy/scripts/persistent/off-chain *)

FundValueCalculatorRouterScript ==
  Contract("FundValueCalculatorRouter", <<"Dispatcher">>, {"Dispatcher"}, {})

FundValueCalculatorUsdWrapperScript ==
  Contract("FundValueCalculatorUsdWrapper", <<"Config", "FundValueCalculatorRouter">>,
    {"FundValueCalculatorRouter"}, {"chainlink", "weth"})

------------------------------------------------------------------------------
(* deploy/scripts/release/core *)

ComptrollerLibScript ==
  Peek({"GasRelayPaymasterFactory"}, Then(Contract("ComptrollerLib",
    <<"Config", "Dispatcher", "ExternalPositionManager", "FeeManager", "FundDeployer",
      "GasRelayPaymasterFactory", "IntegrationManager", "PolicyManager",
      "ProtocolFeeReserve", "ValueInterpreter">>,
    {"Dispatcher", "ExternalPositionManager", "FeeManager", "FundDeployer",
      "IntegrationManager", "PolicyManager", "ProtocolFeeReserveProxy",
      "ValueInterpreter"}, {"feeToken", "weth", "wrappedNativeAsset"}),
    <<Call("ComptrollerLib", "init"), Call("FundDeployer", "setComptrollerLib")>>))

FundDeployerScript ==
  Peek({"GasRelayPaymasterFactory"}, Contract("FundDeployer",
    <<"Config", "Dispatcher", "GasRelayPaymasterFactory">>, {"Dispatcher"}, {}))

PostDeploymentScript ==
  AtTheEnd(Peek({"SynthetixAdapter"}, Script("PostDeployment", {},
    <<"Adapters", "AddressListRegistry", "CumulativeSlippageTolerancePolicy", "Dispatcher",
      "Fees", "FundDeployer", "OnlyRemoveDustExternalPositionPolicy",
      "OnlyUntrackDustOrPricelessAssetsPolicy", "Policies", "ProtocolFeeTracker",
      "SynthetixAdapter">>,
    {"AddressListRegistry", "CumulativeSlippageTolerancePolicy", "Dispatcher", "FundDeployer",
      "OnlyRemoveDustExternalPositionPolicy", "OnlyUntrackDustOrPricelessAssetsPolicy",
      "ProtocolFeeTracker"}, {"feeBps"},
    <<Call("FundDeployer", "registerVaultCalls"),
      CallWith("AddressListRegistry", "createList", "ADAPTER"),
      CallWith("AddressListRegistry", "createList", "FEE"),
      CallWith("AddressListRegistry", "createList", "POLICY"),
      Call("ProtocolFeeTracker", "setFeeBpsDefault")>>)))

PublishReleaseScript ==
  NotLive(AtTheEnd(Peek(UNION {PositionContracts[l] : l \in PositionLabels},
    Script("PublishRelease", {},
    <<"Dispatcher", "ExternalPositionFactory", "ExternalPositions", "FundDeployer",
      "PostDeployment">>,
    {"Dispatcher", "ExternalPositionFactory", "ExternalPositionManager", "FundDeployer"}, {},
    <<Call("FundDeployer", "setReleaseLive"),
      Call("ExternalPositionFactory", "addPositionDeployers"),
      Call("ExternalPositionFactory", "addNewPositionTypes")>>
    \o [i \in 1..Len(PositionTypes) |-> CallWith("ExternalPositionManager",
          "updateExternalPositionTypesInfo", PositionTypes[i])]
    \o <<Call("Dispatcher", "setCurrentFundDeployer")>>))))

VaultLibScript ==
  Peek({"GasRelayPaymasterFactory"}, Then(Contract("VaultLib",
    <<"Config", "ExternalPositionManager", "GasRelayPaymasterFactory",
      "ProtocolFeeReserve", "ProtocolFeeTracker">>,
    {"ExternalPositionManager", "FundDeployer", "ProtocolFeeReserveProxy",
      "ProtocolFeeTracker"},
    {"feeToken", "feeTokenBurn", "positionsLimit", "wrappedNativeAsset"}),
    <<Call("VaultLib", "init"), Call("FundDeployer", "setVaultLib")>>))

------------------------------------------------------------------------------
(* deploy/scripts/release/extensions *)

ExternalPositionManagerScript ==
  Contract("ExternalPositionManager",
    <<"ExternalPositionFactory", "FundDeployer", "PolicyManager">>,
    {"FundDeployer", "ExternalPositionFactory", "PolicyManager"}, {})

FeeManagerScript ==
  Contract("FeeManager", <<"FundDeployer">>, {"FundDeployer"}, {})

IntegrationManagerScript ==
  Contract("IntegrationManager",
    <<"FundDeployer", "PolicyManager", "ValueInterpreter">>,
    {"FundDeployer", "PolicyManager", "ValueInterpreter"}, {})

PolicyManagerScript ==
  Peek({"GasRelayPaymasterFactory"}, Contract("PolicyManager",
    <<"FundDeployer", "GasRelayPaymasterFactory">>, {"FundDeployer"}, {}))

------------------------------------------------------------------------------
(* deploy/scripts/release/extensions/adapters *)

AaveAdapterScript ==
  On(Both, NonSlippage(Adapter("AaveAdapter",
    <<"Config", "IntegrationManager", "AavePriceFeed">>,
    {"IntegrationManager", "AavePriceFeed"}, {"aave"})))

CompoundAdapterScript ==
  On(Homestead, NonSlippage(Adapter("CompoundAdapter",
    <<"Config", "IntegrationManager", "CompoundPriceFeed">>,
    {"IntegrationManager", "CompoundPriceFeed"}, {"weth"})))

ConvexCurveLpStakingAdapterScript ==
  On(Homestead, NonSlippage(Adapter("ConvexCurveLpStakingAdapter",
    <<"Config", "ConvexCurveLpStakingWrapperFactory", "CurvePriceFeed",
      "IntegrationManager">>,
    {"ConvexCurveLpStakingWrapperFactory", "CurvePriceFeed", "IntegrationManager"},
    {"curve", "wrappedNativeAsset"})))

CurveExchangeAdapterScript ==
  On(Both, Adapter("CurveExchangeAdapter", <<"Config", "IntegrationManager">>,
    {"IntegrationManager"}, {"curve", "weth"}))

CurveLiquidityAdapterScript ==
  On(Both, NonSlippage(Adapter("CurveLiquidityAdapter",
    <<"Config", "CurvePriceFeed", "IntegrationManager">>,
    {"CurvePriceFeed", "IntegrationManager"},
    {"curve", "primitives", "wrappedNativeAsset"})))

FuseAdapterScript ==
  On(Homestead, NonSlippage(Adapter("FuseAdapter",
    <<"Config", "IntegrationManager", "FusePriceFeed">>,
    {"IntegrationManager", "FusePriceFeed"}, {"weth"})))

IdleAdapterScript ==
  On(Homestead, NonSlippage(Adapter("IdleAdapter",
    <<"Config", "IntegrationManager", "IdlePriceFeed">>,
    {"IntegrationManager", "IdlePriceFeed"}, {})))

OlympusV2AdapterScript ==
  On(Homestead, NonSlippage(Adapter("OlympusV2Adapter",
    <<"Config", "IntegrationManager">>, {"IntegrationManager"},
    {"olympusV2", "primitives"})))

ParaSwapV5AdapterScript ==
  On(Both, Adapter("ParaSwapV5Adapter", <<"Config", "IntegrationManager">>,
    {"IntegrationManager"}, {"paraSwapV5"}))

PoolTogetherV4AdapterScript ==
  On(Both, NonSlippage(Adapter("PoolTogetherV4Adapter",
    <<"IntegrationManager", "PoolTogetherV4PriceFeed">>,
    {"IntegrationManager", "PoolTogetherV4PriceFeed"}, {})))

SynthetixAdapterScript ==
  On(Homestead, NonSlippage(Adapter("SynthetixAdapter",
    <<"Config", "IntegrationManager", "ValueInterpreter">>,
    {"IntegrationManager", "ValueInterpreter"}, {"synthetix"})))

UniswapV2ExchangeAdapterScript ==
  On(Homestead, Adapter("UniswapV2ExchangeAdapter", <<"Config", "IntegrationManager">>,
    {"IntegrationManager"}, {"uniswap"}))

UniswapV2LiquidityAdapterScript ==
  On(Homestead, NonSlippage(Adapter("UniswapV2LiquidityAdapter",
    <<"Config", "IntegrationManager">>, {"IntegrationManager"}, {"uniswap"})))

UniswapV3AdapterScript ==
  On(Both, Adapter("UniswapV3Adapter", <<"Config", "IntegrationManager">>,
    {"IntegrationManager"}, {"uniswapV3"}))

YearnVaultV2AdapterScript ==
  On(Homestead, NonSlippage(Adapter("YearnVaultV2Adapter",
    <<"IntegrationManager", "YearnVaultV2PriceFeed">>,
    {"IntegrationManager", "YearnVaultV2PriceFeed"}, {})))

ZeroExV2AdapterScript ==
  On(Homestead, NonSlippage(Adapter("ZeroExV2Adapter",
    <<"Config", "IntegrationManager", "FundDeployer">>,
    {"IntegrationManager", "FundDeployer"}, {"zeroex"})))

------------------------------------------------------------------------------
(* deploy/scripts/release/extensions/external-positions *)

AaveDebtPositionLibScript ==
  On(Both, Position("AaveDebtPositionLib", <<"Config">>, {}, {"aave"}))

AaveDebtPositionParserScript ==
  On(Both, Position("AaveDebtPositionParser", <<"ValueInterpreter">>,
    {"ValueInterpreter"}, {}))

CompoundDebtPositionLibScript ==
  On(Homestead, Position("CompoundDebtPositionLib", <<"Config">>, {},
    {"compound", "primitives", "weth"}))

CompoundDebtPositionParserScript ==
  On(Homestead, Position("CompoundDebtPositionParser",
    <<"CompoundPriceFeed", "Config", "ValueInterpreter">>,
    {"CompoundPriceFeed", "ValueInterpreter"}, {"primitives"}))

ConvexVotingPositionLibScript ==
  On(Homestead, Position("ConvexVotingPositionLib", <<"Config">>, {},
    {"convex", "snapshot"}))

ConvexVotingPositionParserScript ==
  On(Homestead, Position("ConvexVotingPositionParser", <<"Config">>, {}, {"convex"}))

ExternalPositionFactoryScript ==
  Contract("ExternalPositionFactory", <<"Config">>, {"Dispatcher"}, {})

LiquityDebtPositionLibScript ==
  On(Homestead, Position("LiquityDebtPositionLib", <<"Config">>, {},
    {"liquity", "primitives", "weth"}))

LiquityDebtPositionParserScript ==
  On(Homestead, Position("LiquityDebtPositionParser", <<"Config">>, {},
    {"liquity", "primitives", "weth"}))

MapleLiquidityPositionLibScript ==
  On(Homestead, Position("MapleLiquidityPositionLib", <<"Config">>, {}, {}))

MapleLiquidityPositionParserScript ==
  On(Homestead, [Position("MapleLiquidityPositionParser", <<"Config">>, {}, {"maple"})
    EXCEPT !.tags = {"ExternalPositions", "MapleDebtPositionParser"}])

SolvV2ConvertibleBuyerPositionLibScript ==
  On(Homestead, Position("SolvV2ConvertibleBuyerPositionLib", <<"Config">>, {},
    {"solvFinanceV2"}))

SolvV2ConvertibleBuyerPositionParserScript ==
  On(Homestead, Position("SolvV2ConvertibleBuyerPositionParser", <<"Config">>, {},
    {"solvFinanceV2"}))

SolvV2ConvertibleIssuerPositionLibScript ==
  On(Homestead, Position("SolvV2ConvertibleIssuerPositionLib", <<"Config">>, {},
    {"solvFinanceV2"}))

SolvV2ConvertibleIssuerPositionParserScript ==
  On(Homestead, Position("SolvV2ConvertibleIssuerPositionParser", <<"Config">>, {},
    {"solvFinanceV2"}))

TheGraphPositionLibScript ==
  On(Homestead, Position("TheGraphDelegationPositionLib", <<"Config">>, {},
    {"theGraph"}))

TheGraphPositionParserScript ==
  On(Homestead, Position("TheGraphDelegationPositionParser", <<"Config">>, {},
    {"theGraph"}))

UniswapV3LiquidityPositionLibScript ==
  On(Both, Position("UniswapV3LiquidityPositionLib", <<"Config", "ValueInterpreter">>,
    {"ValueInterpreter"}, {"uniswapV3"}))

UniswapV3LiquidityPositionParserScript ==
  On(Both, Position("UniswapV3LiquidityPositionParser",
    <<"Config", "ValueInterpreter">>, {"ValueInterpreter"}, {"uniswapV3"}))

------------------------------------------------------------------------------
(* deploy/scripts/release/extensions/external-positions/arbitrary-loan *)

ArbitraryLoanPositionLibScript ==
  Position("ArbitraryLoanPositionLib", <<"Config">>, {}, {"weth"})

ArbitraryLoanPositionParserScript ==
  Position("ArbitraryLoanPositionParser", <<>>, {}, {})

------------------------------------------------------------------------------
(* deploy/scripts/release/extensions/external-positions/arbitrary-loan/modules *)

ArbitraryLoanFixedInterestModuleScript ==
  Contract("ArbitraryLoanFixedInterestModule", <<>>, {}, {})

ArbitraryLoanTotalNominalDeltaOracleModuleScript ==
  Contract("ArbitraryLoanTotalNominalDeltaOracleModule", <<>>, {}, {})

------------------------------------------------------------------------------
(* deploy/scripts/release/extensions/fees *)

EntranceRateBurnFeeScript ==
  Fee("EntranceRateBurnFee")

EntranceRateDirectFeeScript ==
  Fee("EntranceRateDirectFee")

ExitRateBurnFeeScript ==
  Fee("ExitRateBurnFee")

ExitRateDirectFeeScript ==
  Fee("ExitRateDirectFee")

ManagementFeeScript ==
  Fee("ManagementFee")

OneTimeMinSharesFeeScript ==
  Fee("MinSharesSupplyFee")

PerformanceFeeScript ==
  Fee("PerformanceFee")

------------------------------------------------------------------------------
(* deploy/scripts/release/extensions/policies *)

AllowedAdapterIncomingAssetsPolicyScript ==
  Policy("AllowedAdapterIncomingAssetsPolicy",
    <<"AddressListRegistry", "PolicyManager">>,
    {"AddressListRegistry", "PolicyManager"}, {})

AllowedAdaptersPerManagerPolicyScript ==
  Policy("AllowedAdaptersPerManagerPolicy", <<"AddressListRegistry", "PolicyManager">>,
    {"AddressListRegistry", "PolicyManager"}, {})

AllowedAdaptersPolicyScript ==
  Policy("AllowedAdaptersPolicy", <<"AddressListRegistry", "PolicyManager">>,
    {"AddressListRegistry", "PolicyManager"}, {})

AllowedAssetsForRedemptionPolicyScript ==
  Policy("AllowedAssetsForRedemptionPolicy", <<"AddressListRegistry", "PolicyManager">>,
    {"AddressListRegistry", "PolicyManager"}, {})

AllowedDepositRecipientsPolicyScript ==
  Policy("AllowedDepositRecipientsPolicy", <<"AddressListRegistry", "PolicyManager">>,
    {"AddressListRegistry", "PolicyManager"}, {})

AllowedExternalPositionTypesPerManagerPolicyScript ==
  Policy("AllowedExternalPositionTypesPerManagerPolicy",
    <<"UintListRegistry", "PolicyManager">>, {"UintListRegistry", "PolicyManager"}, {})

AllowedExternalPositionTypesPolicyScript ==
  Policy("AllowedExternalPositionTypesPolicy", <<"PolicyManager">>, {"PolicyManager"},
    {})

AllowedSharesTransferRecipientsPolicyScript ==
  Policy("AllowedSharesTransferRecipientsPolicy",
    <<"AddressListRegistry", "PolicyManager">>,
    {"AddressListRegistry", "PolicyManager"}, {})

CumulativeSlippageTolerancePolicyScript ==
  [Policy("CumulativeSlippageTolerancePolicy",
     <<"Config", "AddressRegistryList", "PolicyManager", "ValueInterpreter", "Adapters">>,
     {"Dispatcher", "PolicyManager", "ValueInterpreter", "AddressListRegistry"}, {"weth"})
   EXCEPT !.unless = {"CumulativeSlippageTolerancePolicy"},
          !.steps = <<Call("AddressListRegistry", "getListCount"),
                      CallWith("AddressListRegistry", "createList", "nonSlippage"),
                      Deploy("CumulativeSlippageTolerancePolicy")>>]

MinAssetBalancesPostRedemptionPolicyScript ==
  Policy("MinAssetBalancesPostRedemptionPolicy", <<"PolicyManager">>, {"PolicyManager"},
    {})

MinMaxInvestmentPolicyScript ==
  Policy("MinMaxInvestmentPolicy", <<"PolicyManager">>, {"PolicyManager"}, {})

OnlyRemoveDustExternalPositionPolicyScript ==
  Then(Policy("OnlyRemoveDustExternalPositionPolicy",
    <<"Config", "FundDeployer", "PolicyManager", "ValueInterpreter">>,
    {"FundDeployer", "PolicyManager", "ValueInterpreter"}, {"weth"}),
    <<Call("OnlyRemoveDustExternalPositionPolicy", "setDustToleranceInWeth")>>)

OnlyUntrackDustOrPricelessAssetsPolicyScript ==
  Then(Policy("OnlyUntrackDustOrPricelessAssetsPolicy",
    <<"Config", "FundDeployer", "PolicyManager", "ValueInterpreter">>,
    {"FundDeployer", "PolicyManager", "ValueInterpreter"}, {"weth"}),
    <<Call("OnlyUntrackDustOrPricelessAssetsPolicy", "setDustToleranceInWeth")>>)

------------------------------------------------------------------------------
(* deploy/scripts/release/infrastructure *)

GasRelayPaymasterFactoryScript ==
  Contract("GasRelayPaymasterFactory", <<"Dispatcher", "GasRelayPaymasterLib">>,
    {"Dispatcher", "GasRelayPaymasterLib"}, {})

GasRelayPaymasterLibScript ==
  Then(Contract("GasRelayPaymasterLib", <<"Config">>, {},
    {"gsn", "wrappedNativeAsset"}), <<Call("GasRelayPaymasterLib", "init")>>)

ProtocolFeeReserveScript ==
  Script("ProtocolFeeReserve", {"ProtocolFeeReserve"}, <<"Config", "Dispatcher">>,
    {"Dispatcher"}, {"feeToken"},
    <<Deploy("ProtocolFeeReserveLib"),
      After("ProtocolFeeReserveLib", Call("ProtocolFeeReserveLib", "init")),
      Deploy("ProtocolFeeReserveProxy")>>)

ProtocolFeeTrackerScript ==
  Then(Contract("ProtocolFeeTracker", <<"FundDeployer">>, {"FundDeployer"}, {}),
    <<Call("FundDeployer", "setProtocolFeeTracker")>>)

ValueInterpreterScript ==
  Peek(ListedFeeds, Then(Contract("ValueInterpreter",
    <<"Config", "FundDeployer", "AavePriceFeed", "AlphaHomoraV1PriceFeed",
      "CurvePriceFeed", "CompoundPriceFeed", "FiduPriceFeed", "FusePriceFeed",
      "IdlePriceFeed", "LidoStethPriceFeed", "PoolTogetherV4PriceFeed",
      "SynthetixPriceFeed", "YearnVaultV2PriceFeed">>, {"FundDeployer"},
    {"chainlink", "primitives", "weth"}),
    <<Call("ValueInterpreter", "setEthUsdAggregator"),
      Call("ValueInterpreter", "addPrimitives"),
      CallWith("ValueInterpreter", "addDerivatives", "found")>>))

------------------------------------------------------------------------------
(* deploy/scripts/release/infrastructure/prices *)

\* Mutant: the derivatives are added on every run.
AavePriceFeedEveryTime ==
  On(Both, Script("AavePriceFeed", {"AavePriceFeed"}, <<"Config", "FundDeployer">>,
    {"FundDeployer"}, {"aave"},
    <<Deploy("AavePriceFeed"), Call("AavePriceFeed", "addDerivatives")>>))

AavePriceFeedScript ==
  On(Both, Then(Contract("AavePriceFeed", <<"Config", "FundDeployer">>,
    {"FundDeployer"}, {"aave"}), <<Call("AavePriceFeed", "addDerivatives")>>))

CompoundPriceFeedScript ==
  On(Homestead, Then(Contract("CompoundPriceFeed", <<"Config", "FundDeployer">>,
    {"FundDeployer"}, {"compound", "weth"}),
    <<Call("CompoundPriceFeed", "addCTokens")>>))

ConvexCurveLpStakingWrapperPriceFeedScript ==
  On(Homestead, Contract("ConvexCurveLpStakingWrapperPriceFeed",
    <<"ConvexCurveLpStakingWrapperFactory">>, {"ConvexCurveLpStakingWrapperFactory"},
    {}))

CurvePriceFeedScript ==
  On(Both, Then(Contract("CurvePriceFeed", <<"Config", "FundDeployer">>,
    {"FundDeployer"}, {"curve"}), <<Call("CurvePriceFeed", "addPools")>>))

FiduPriceFeedScript ==
  On(Homestead, Contract("FiduPriceFeed", <<"Config">>, {},
    {"goldfinch", "primitives"}))

FusePriceFeedScript ==
  On(Homestead, Then(Contract("FusePriceFeed", <<"Config", "FundDeployer">>,
    {"FundDeployer"}, {"fuse", "weth"}),
    <<Call("FusePriceFeed", "addCTokens"), Call("FusePriceFeed", "addCEtherTokens")>>))

IdlePriceFeedScript ==
  On(Homestead, Then(Contract("IdlePriceFeed", <<"Config", "FundDeployer">>,
    {"FundDeployer"}, {"idle"}), <<Call("IdlePriceFeed", "addDerivatives")>>))

LidoStethPriceFeedScript ==
  On(Homestead, Contract("LidoStethPriceFeed", <<"Config">>, {}, {"lido", "weth"}))

PoolTogetherV4PriceFeedScript ==
  On(Both, Then(Contract("PoolTogetherV4PriceFeed", <<"Config", "FundDeployer">>,
    {"FundDeployer"}, {"poolTogetherV4"}),
    <<Call("PoolTogetherV4PriceFeed", "addDerivatives")>>))

RevertingPriceFeedScript ==
  On(Homestead, Contract("RevertingPriceFeed", <<>>, {}, {}))

UniswapV2PoolPriceFeedScript ==
  On(Homestead, Then(Contract("UniswapV2PoolPriceFeed",
    <<"Config", "FundDeployer", "ValueInterpreter">>,
    {"FundDeployer", "ValueInterpreter"}, {"uniswap"}),
    <<Call("UniswapV2PoolPriceFeed", "addPoolTokens"),
      CallWith("ValueInterpreter", "addDerivatives", "UniswapV2PoolPriceFeed")>>))

UsdEthSimulatedAggregatorScript ==
  On(Homestead, Contract("UsdEthSimulatedAggregator", <<"Config">>, {}, {"chainlink"}))

YearnVaultV2PriceFeedScript ==
  On(Homestead, Then(Contract("YearnVaultV2PriceFeed", <<"Config", "FundDeployer">>,
    {"FundDeployer"}, {"yearn"}), <<Call("YearnVaultV2PriceFeed", "addDerivatives")>>))

------------------------------------------------------------------------------
(* deploy/scripts/release/infrastructure/staking-wrappers *)

ConvexCurveLpStakingWrapperFactoryScript ==
  On(Homestead, Contract("ConvexCurveLpStakingWrapperFactory",
    <<"Config", "Dispatcher">>, {"Dispatcher"}, {"convex"}))

------------------------------------------------------------------------------
(* deploy/scripts/release/off-chain *)

FundValueCalculatorScript ==
  Contract("FundValueCalculator",
    <<"FeeManager", "ProtocolFeeTracker", "ValueInterpreter">>,
    {"FeeManager", "ProtocolFeeTracker", "ValueInterpreter"}, {})

------------------------------------------------------------------------------
(* deploy/scripts/release/peripheral *)

DepositWrapperScript ==
  Then(Contract("DepositWrapper", <<"Config", "FundDeployer">>, {"FundDeployer"},
    {"wrappedNativeAsset"}),
    <<Call("FundDeployer", "registerBuySharesOnBehalfCallers")>>)

UnpermissionedActionsWrapperScript ==
  Contract("UnpermissionedActionsWrapper", <<"FeeManager">>, {"FeeManager"}, {})

------------------------------------------------------------------------------
\* The files in the order of their paths.
Scripts ==
  <<MainnetScript, PolygonScript, AddressListRegistryScript, DispatcherScript,
    GlobalConfigScript, ManualValueOracleFactoryScript, SharesSplitterFactoryScript,
    UintListRegistryScript, FundValueCalculatorRouterScript,
    FundValueCalculatorUsdWrapperScript, ComptrollerLibScript, FundDeployerScript,
    PostDeploymentScript, PublishReleaseScript, VaultLibScript,
    ExternalPositionManagerScript, FeeManagerScript, IntegrationManagerScript,
    PolicyManagerScript, AaveAdapterScript, CompoundAdapterScript,
    ConvexCurveLpStakingAdapterScript, CurveExchangeAdapterScript,
    CurveLiquidityAdapterScript, FuseAdapterScript, IdleAdapterScript,
    OlympusV2AdapterScript, ParaSwapV5AdapterScript, PoolTogetherV4AdapterScript,
    SynthetixAdapterScript, UniswapV2ExchangeAdapterScript,
    UniswapV2LiquidityAdapterScript, UniswapV3AdapterScript,
    YearnVaultV2AdapterScript, ZeroExV2AdapterScript, AaveDebtPositionLibScript,
    AaveDebtPositionParserScript, CompoundDebtPositionLibScript,
    CompoundDebtPositionParserScript, ConvexVotingPositionLibScript,
    ConvexVotingPositionParserScript, ExternalPositionFactoryScript,
    LiquityDebtPositionLibScript, LiquityDebtPositionParserScript,
    MapleLiquidityPositionLibScript, MapleLiquidityPositionParserScript,
    SolvV2ConvertibleBuyerPositionLibScript,
    SolvV2ConvertibleBuyerPositionParserScript,
    SolvV2ConvertibleIssuerPositionLibScript,
    SolvV2ConvertibleIssuerPositionParserScript, TheGraphPositionLibScript,
    TheGraphPositionParserScript, UniswapV3LiquidityPositionLibScript,
    UniswapV3LiquidityPositionParserScript, ArbitraryLoanPositionLibScript,
    ArbitraryLoanPositionParserScript, ArbitraryLoanFixedInterestModuleScript,
    ArbitraryLoanTotalNominalDeltaOracleModuleScript, EntranceRateBurnFeeScript,
    EntranceRateDirectFeeScript, ExitRateBurnFeeScript, ExitRateDirectFeeScript,
    ManagementFeeScript, OneTimeMinSharesFeeScript, PerformanceFeeScript,
    AllowedAdapterIncomingAssetsPolicyScript, AllowedAdaptersPerManagerPolicyScript,
    AllowedAdaptersPolicyScript, AllowedAssetsForRedemptionPolicyScript,
    AllowedDepositRecipientsPolicyScript,
    AllowedExternalPositionTypesPerManagerPolicyScript,
    AllowedExternalPositionTypesPolicyScript,
    AllowedSharesTransferRecipientsPolicyScript,
    CumulativeSlippageTolerancePolicyScript,
    MinAssetBalancesPostRedemptionPolicyScript, MinMaxInvestmentPolicyScript,
    OnlyRemoveDustExternalPositionPolicyScript,
    OnlyUntrackDustOrPricelessAssetsPolicyScript, GasRelayPaymasterFactoryScript,
    GasRelayPaymasterLibScript, ProtocolFeeReserveScript, ProtocolFeeTrackerScript,
    ValueInterpreterScript, AavePriceFeedScript, CompoundPriceFeedScript,
    ConvexCurveLpStakingWrapperPriceFeedScript, CurvePriceFeedScript,
    FiduPriceFeedScript, FusePriceFeedScript, IdlePriceFeedScript,
    LidoStethPriceFeedScript, PoolTogetherV4PriceFeedScript,
    RevertingPriceFeedScript, UniswapV2PoolPriceFeedScript,
    UsdEthSimulatedAggregatorScript, YearnVaultV2PriceFeedScript,
    ConvexCurveLpStakingWrapperFactoryScript, FundValueCalculatorScript,
    DepositWrapperScript, UnpermissionedActionsWrapperScript>>
==============================================================================
