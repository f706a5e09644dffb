------------------------ MODULE FundLifecycle_proofs ------------------------
(***************************************************************************)
(* Theorems about FundLifecycle, for all sets of releases, vaults,         *)
(* ComptrollerProxies and accounts and all timelocks, and their proofs.    *)
(***************************************************************************)
EXTENDS FundLifecycle, TLAPS

\* Paying the protocol fee sets clocks to times only
\* (ProtocolFeeTracker.payFee).
LEMMA PayFeeType ==
  ASSUME TypeOK, NEW fd \in FundDeployers \cup {NoAddress}, NEW v \in Vaults
  PROVE  /\ ClockAfterPayFee(fd, v) \in
              [FundDeployers -> [Vaults -> 0..MaxTime]]
         /\ ChargedAfterPayFee(fd, v) \in [Vaults -> 0..MaxTime]
<1>1. now \in 0..MaxTime
  BY MaxTimeAssumption DEF TypeOK, Time
<1>2. vaultProxyToLastPaid \in [FundDeployers -> [Vaults -> 0..MaxTime]]
  BY DEF TypeOK
<1>3. chargedUntil \in [Vaults -> 0..MaxTime]
  BY DEF TypeOK
<1>4. ClockAfterPayFee(fd, v) \in [FundDeployers -> [Vaults -> 0..MaxTime]]
  BY <1>1, <1>2 DEF ClockAfterPayFee
<1>5. QED
  BY <1>1, <1>3, <1>4 DEF ChargedAfterPayFee

\* Every transaction leaves the variables in their types.
LEMMA TypeStep == TypeOK /\ [Next]_vars => TypeOK'
<1> SUFFICES ASSUME TypeOK, [Next]_vars PROVE TypeOK'
  OBVIOUS
<1> USE AddressAssumption, TimelocksAssumption, MaxTimeAssumption,
        LastPaidTimesAssumption
    DEF TypeOK, Time, Statuses, dispatcherVars, deployerVars, rolesVars,
        vaultVars, comptrollerVars, feeVars
<1>1. ASSUME NEW fd \in FundDeployers, SetCurrentFundDeployer(fd) PROVE TypeOK'
  BY <1>1 DEF SetCurrentFundDeployer
<1>2. ASSUME NEW t \in Timelocks, SetMigrationTimelock(t) PROVE TypeOK'
  BY <1>2 DEF SetMigrationTimelock
<1>3. ASSUME NEW fd \in FundDeployers, SetReleaseLive(fd) PROVE TypeOK'
  BY <1>3 DEF SetReleaseLive
<1>4. ASSUME NEW fd \in FundDeployers, NEW t \in Timelocks,
             SetReconfigurationTimelock(fd, t)
      PROVE  TypeOK'
  BY <1>4 DEF SetReconfigurationTimelock
<1>5. ASSUME NEW fd \in FundDeployers, NEW v \in Vaults,
             NEW t \in LastPaidTimes, SetLastPaidForVault(fd, v, t)
      PROVE  TypeOK'
  BY <1>5 DEF SetLastPaidForVault
<1>6. ASSUME NEW v \in Vaults, NEW who \in Accounts,
             NEW next \in Accounts \cup {NoAddress}, SetMigrator(v, who, next)
      PROVE  TypeOK'
  BY <1>6 DEF SetMigrator
<1>7. ASSUME NEW v \in Vaults, NEW who \in Accounts, NEW next \in Accounts,
             SetNominatedOwner(v, who, next)
      PROVE  TypeOK'
  BY <1>7 DEF SetNominatedOwner
<1>8. ASSUME NEW v \in Vaults, NEW who \in Accounts,
             RemoveNominatedOwner(v, who)
      PROVE  TypeOK'
  BY <1>8 DEF RemoveNominatedOwner
<1>9. ASSUME NEW v \in Vaults, NEW who \in Accounts, ClaimOwnership(v, who)
      PROVE  TypeOK'
  BY <1>9 DEF ClaimOwnership
<1>10. ASSUME NEW fd \in FundDeployers, NEW v \in Vaults,
              NEW c \in Comptrollers, NEW who \in Accounts,
              CreateNewFund(fd, v, c, who)
       PROVE  TypeOK'
  BY <1>10 DEF CreateNewFund, InitializeForVault, DeployComptroller
<1>11. ASSUME NEW fd \in FundDeployers, NEW v \in Vaults,
              NEW c \in Comptrollers, NEW who \in Accounts,
              CreateMigrationRequest(fd, v, c, who)
       PROVE  TypeOK'
  BY <1>11 DEF CreateMigrationRequest, DeployComptroller, SignalMigration,
     MigrationRequest
<1>12. ASSUME NEW v \in Vaults, NEW sender \in Accounts \cup FundDeployers,
              NEW ok \in BOOLEAN, NEW bypass \in BOOLEAN,
              CancelMigration(v, sender, ok, bypass)
       PROVE  TypeOK'
  BY <1>12 DEF CancelMigration, DeleteMigrationRequest, MigrationRequest,
               NoMigration
<1>13. ASSUME NEW fd \in FundDeployers, NEW v \in Vaults,
              NEW who \in Accounts, NEW ok \in BOOLEAN,
              NEW bypass \in BOOLEAN, NEW paid \in BOOLEAN,
              ExecuteMigration(fd, v, who, ok, bypass, paid)
       PROVE  TypeOK'
  <2>1. vaultProxyToLastPaid' \in [FundDeployers -> [Vaults -> 0..MaxTime]]
    <3> DEFINE clock == IF ok /\ paid THEN ClockAfterPayFee(vaultLib[v], v)
                                     ELSE vaultProxyToLastPaid
    <3>1. clock \in [FundDeployers -> [Vaults -> 0..MaxTime]]
      <4>1. vaultLib[v] \in FundDeployers \cup {NoAddress}
        BY DEF TypeOK
      <4>2. vaultProxyToLastPaid \in [FundDeployers -> [Vaults -> 0..MaxTime]]
        BY DEF TypeOK
      <4> HIDE DEF TypeOK
      <4>3. QED
        BY <4>1, <4>2, PayFeeType
    <3>2. vaultProxyToLastPaid' = [clock EXCEPT ![fd][v] = now]
      BY <1>13 DEF ExecuteMigration,
                   InitializeForVault
    <3> HIDE DEF clock
    <3>3. QED
      BY <3>1, <3>2
  <2>2. chargedUntil' \in [Vaults -> 0..MaxTime]
    BY <1>13, PayFeeType DEF ExecuteMigration
  <2>3. /\ status' \in [Comptrollers -> Statuses]
        /\ undestructed' \subseteq Comptrollers \cup {NoAddress}
    <3> DEFINE next == vaultProxyToMigrationRequest[v].nextVaultAccessor
    <3>1. status' = [status EXCEPT ![accessor[v]] = IF ok THEN "destroyed" ELSE @,
                                   ![next] = "active"]
      BY <1>13 DEF ExecuteMigration, Succession
    <3>2. undestructed' = IF ok THEN undestructed
                                ELSE undestructed \cup {accessor[v]}
      BY <1>13 DEF ExecuteMigration
    <3>3. accessor[v] \in Comptrollers \cup {NoAddress}
      OBVIOUS
    <3> HIDE DEF TypeOK
    <3>4. undestructed' \subseteq Comptrollers \cup {NoAddress}
      BY <3>2, <3>3 DEF TypeOK
    <3>5. status' \in [Comptrollers -> Statuses]
      BY <3>1 DEF TypeOK
    <3>6. QED
      BY <3>4, <3>5
  <2>4. vaultProxyToMigrationRequest' \in [Vaults -> MigrationRequest]
    <3>1. NoMigration \in MigrationRequest
      BY DEF NoMigration, MigrationRequest
    <3>2. vaultProxyToMigrationRequest' =
            [vaultProxyToMigrationRequest EXCEPT ![v] = NoMigration]
      BY <1>13 DEF ExecuteMigration, DeleteMigrationRequest
    <3>3. QED
      BY <3>1, <3>2
  <2>5. /\ accessor' \in [Vaults -> Comptrollers \cup {NoAddress}]
        /\ vaultLib' \in [Vaults -> FundDeployers \cup {NoAddress}]
        /\ vaultProxyToFundDeployer' \in
             [Vaults -> FundDeployers \cup {NoAddress}]
    BY <1>13 DEF ExecuteMigration, MigrationRequest
  <2>6. QED
    BY <1>13, <2>1, <2>2, <2>3, <2>4, <2>5 DEF ExecuteMigration
<1>14. ASSUME NEW fd \in FundDeployers, NEW v \in Vaults,
              NEW c \in Comptrollers, NEW who \in Accounts,
              CreateReconfigurationRequest(fd, v, c, who)
       PROVE  TypeOK'
  <2>1. now + reconfigurationTimelock[fd] \in Nat
    <3>1. now \in Nat
      BY DEF TypeOK, Time
    <3>2. reconfigurationTimelock[fd] \in Nat
      BY DEF TypeOK
    <3>3. QED
      BY <3>1, <3>2
  <2>2. vaultProxyToReconfigurationRequest' \in
          [FundDeployers -> [Vaults -> ReconfigurationRequest]]
    <3> DEFINE r == [nextComptrollerProxy |-> c,
                     executableTimestamp |-> now + reconfigurationTimelock[fd]]
    <3>1. r \in ReconfigurationRequest
      BY <2>1 DEF ReconfigurationRequest
    <3>2. vaultProxyToReconfigurationRequest' =
            [vaultProxyToReconfigurationRequest EXCEPT ![fd][v] = r]
      BY <1>14 DEF CreateReconfigurationRequest
    <3> HIDE DEF r
    <3>3. QED
      BY <3>1, <3>2
  <2>3. QED
    BY <1>14, <2>2 DEF CreateReconfigurationRequest, DeployComptroller
<1>15. ASSUME NEW fd \in FundDeployers, NEW v \in Vaults,
              NEW who \in Accounts, CancelReconfiguration(fd, v, who)
       PROVE  TypeOK'
  BY <1>15 DEF CancelReconfiguration, DeleteReconfigurationRequest,
               ReconfigurationRequest, NoReconfiguration
<1>16. ASSUME NEW fd \in FundDeployers, NEW v \in Vaults,
              NEW who \in Accounts, NEW paid \in BOOLEAN,
              ExecuteReconfiguration(fd, v, who, paid)
       PROVE  TypeOK'
  <2>1. /\ vaultProxyToLastPaid' \in [FundDeployers -> [Vaults -> 0..MaxTime]]
        /\ chargedUntil' \in [Vaults -> 0..MaxTime]
    BY <1>16, PayFeeType DEF ExecuteReconfiguration
  <2>2. vaultProxyToReconfigurationRequest' \in
          [FundDeployers -> [Vaults -> ReconfigurationRequest]]
    BY <1>16
       DEF ExecuteReconfiguration, DeleteReconfigurationRequest,
           ReconfigurationRequest, NoReconfiguration
  <2>3. /\ accessor' \in [Vaults -> Comptrollers \cup {NoAddress}]
        /\ status' \in [Comptrollers -> Statuses]
    <3>1. vaultProxyToReconfigurationRequest[fd][v].nextComptrollerProxy \in
            Comptrollers \cup {NoAddress}
      BY DEF ReconfigurationRequest
    <3>2. accessor' = [accessor EXCEPT ![v] =
            vaultProxyToReconfigurationRequest[fd][v].nextComptrollerProxy]
      BY <1>16 DEF ExecuteReconfiguration
    <3>3. status' = [status EXCEPT ![accessor[v]] = "destroyed",
            ![vaultProxyToReconfigurationRequest[fd][v].nextComptrollerProxy]
              = "active"]
      BY <1>16 DEF ExecuteReconfiguration,
                   Succession
    <3>4. QED
      BY <3>1, <3>2, <3>3
  <2>4. QED
    BY <1>16, <2>1, <2>2, <2>3 DEF ExecuteReconfiguration
<1>17. ASSUME NEW v \in Vaults, PayProtocolFee(v) PROVE TypeOK'
  BY <1>17, PayFeeType DEF PayProtocolFee
<1>18. ASSUME Tick PROVE TypeOK'
  BY <1>18 DEF Tick
<1>19. ASSUME UNCHANGED vars PROVE TypeOK'
  BY <1>19 DEF vars
<1> HIDE DEF TypeOK
<1>20. QED
  BY <1>1, <1>2, <1>3, <1>4, <1>5, <1>6, <1>7, <1>8, <1>9, <1>10, <1>11,
     <1>12, <1>13, <1>14, <1>15, <1>16, <1>17, <1>18, <1>19
     DEF Next, Governance, Roles, Migration, Reconfiguration,
         CancelMigrationViaFundDeployer

(***************************************************************************)
(* The fund's control state: what AccessorInForce, RequestsAreExecutable,  *)
(* MigrationRequestsConsistent and RequestsWellFormed talk about.          *)
(***************************************************************************)
controlVars == <<vaultProxyToFundDeployer, vaultProxyToMigrationRequest,
                 vaultProxyToReconfigurationRequest, accessor, vaultLib,
                 status, vaultProxy, release>>

\* A transaction that leaves the control state alone keeps the invariant.
LEMMA ControlUnchanged ==
  ASSUME ControlInvariant, TypeOK', UNCHANGED controlVars
  PROVE  ControlInvariant'
BY DEF ControlInvariant, controlVars, AccessorInForce, RequestsAreExecutable,
       MigrationRequestsConsistent, RequestsWellFormed, Deployed,
       HasMigrationRequest, HasReconfigurationRequest

\* A new fund has no request and its accessor is a fresh ComptrollerProxy.
LEMMA ControlCreateNewFund ==
  ASSUME ControlInvariant, TypeOK',
         NEW fd \in FundDeployers, NEW v \in Vaults, NEW c \in Comptrollers,
         NEW who \in Accounts, CreateNewFund(fd, v, c, who)
  PROVE  ControlInvariant'
<1> USE AddressAssumption
    DEF ControlInvariant, TypeOK, Deployed, HasMigrationRequest,
        HasReconfigurationRequest, MigrationRequest, ReconfigurationRequest,
        CreateNewFund, DeployComptroller, deployerVars
<1>1. AccessorInForce'
  BY DEF AccessorInForce
<1>2. RequestsAreExecutable'
  BY DEF RequestsAreExecutable
<1>3. MigrationRequestsConsistent'
  BY DEF MigrationRequestsConsistent
<1>4. RequestsWellFormed'
  BY DEF RequestsWellFormed
<1>5. QED
  BY <1>1, <1>2, <1>3, <1>4

\* A migration request names a fresh ComptrollerProxy, so no other request
\* names it and no fund obeys it.
LEMMA ControlCreateMigrationRequest ==
  ASSUME ControlInvariant, TypeOK',
         NEW fd \in FundDeployers, NEW v \in Vaults, NEW c \in Comptrollers,
         NEW who \in Accounts, CreateMigrationRequest(fd, v, c, who)
  PROVE  ControlInvariant'
<1>1. now + migrationTimelock > 0
  <2>1. now \in Nat \ {0}
    BY MaxTimeAssumption DEF ControlInvariant, TypeOK, Time
  <2>2. migrationTimelock \in Nat
    BY TimelocksAssumption DEF ControlInvariant, TypeOK
  <2>3. QED
    BY <2>1, <2>2
<1> USE AddressAssumption
    DEF ControlInvariant, TypeOK, Deployed, HasMigrationRequest,
        HasReconfigurationRequest, MigrationRequest, ReconfigurationRequest,
        CreateMigrationRequest, SignalMigration, DeployComptroller,
        deployerVars, vaultVars
<1>2. AccessorInForce'
  BY DEF AccessorInForce
<1>3. RequestsAreExecutable'
  BY DEF RequestsAreExecutable
<1>4. MigrationRequestsConsistent'
  BY <1>1 DEF MigrationRequestsConsistent
<1>5. RequestsWellFormed'
  BY <1>1 DEF RequestsWellFormed, RequestsAreExecutable
<1>6. QED
  BY <1>2, <1>3, <1>4, <1>5

\* A cancelled request's ComptrollerProxy is destroyed or left alone; no other
\* request names it, and it is not in force because it is not activated.
LEMMA ControlCancelMigration ==
  ASSUME ControlInvariant, TypeOK',
         NEW v \in Vaults, NEW sender \in Accounts \cup FundDeployers,
         NEW ok \in BOOLEAN, NEW bypass \in BOOLEAN,
         CancelMigration(v, sender, ok, bypass)
  PROVE  ControlInvariant'
<1> USE AddressAssumption
    DEF ControlInvariant, TypeOK, Deployed, HasMigrationRequest,
        HasReconfigurationRequest, MigrationRequest, ReconfigurationRequest,
        CancelMigration, CanCancelMigration, DeleteMigrationRequest, NoMigration, deployerVars,
        vaultVars
<1>1. AccessorInForce'
  BY DEF AccessorInForce, RequestsAreExecutable, MigrationRequestsConsistent
<1>2. RequestsAreExecutable'
  BY DEF RequestsAreExecutable, MigrationRequestsConsistent,
         RequestsWellFormed
<1>3. MigrationRequestsConsistent'
  BY DEF MigrationRequestsConsistent
<1>4. RequestsWellFormed'
  BY DEF RequestsWellFormed, RequestsAreExecutable
<1>5. QED
  BY <1>1, <1>2, <1>3, <1>4

\* The successor was configured for this fund by the release entered.
LEMMA ControlExecuteMigration ==
  ASSUME ControlInvariant, TypeOK',
         NEW fd \in FundDeployers, NEW v \in Vaults, NEW who \in Accounts,
         NEW ok \in BOOLEAN, NEW bypass \in BOOLEAN, NEW paid \in BOOLEAN,
         ExecuteMigration(fd, v, who, ok, bypass, paid)
  PROVE  ControlInvariant'
<1> USE AddressAssumption
    DEF ControlInvariant, TypeOK, Deployed, HasMigrationRequest,
        HasReconfigurationRequest, MigrationRequest, ReconfigurationRequest,
        ExecuteMigration, DeleteMigrationRequest, Succession, NoMigration, deployerVars
<1> DEFINE next == vaultProxyToMigrationRequest[v].nextVaultAccessor
<1>1. AccessorInForce'
  <2>1. /\ Deployed(v)
        /\ next \in Comptrollers
        /\ status[next] = "configured"
        /\ vaultProxy[next] = v
        /\ release[next] = fd
    BY DEF RequestsAreExecutable, MigrationRequestsConsistent
  <2>2. /\ accessor'[v] = next
        /\ status'[next] = "active"
        /\ vaultProxyToFundDeployer'[v] = fd
        /\ vaultLib'[v] = fd
    BY <2>1
  <2>3. ASSUME NEW w \in Vaults, w # v, Deployed(w)
        PROVE  /\ accessor'[w] = accessor[w]
               /\ vaultProxyToFundDeployer'[w] = vaultProxyToFundDeployer[w]
               /\ vaultLib'[w] = vaultLib[w]
               /\ accessor[w] \in Comptrollers
               /\ accessor[w] # next
               /\ accessor[w] # accessor[v]
               /\ status'[accessor[w]] = "active"
    BY <2>1, <2>3 DEF AccessorInForce
  <2>4. QED
    BY <2>1, <2>2, <2>3 DEF AccessorInForce
<1>2. RequestsAreExecutable'
  BY DEF RequestsAreExecutable, AccessorInForce, MigrationRequestsConsistent,
         RequestsWellFormed
<1>3. MigrationRequestsConsistent'
  BY DEF MigrationRequestsConsistent
<1>4. RequestsWellFormed'
  BY DEF RequestsWellFormed
<1>5. QED
  BY <1>1, <1>2, <1>3, <1>4

\* A reconfiguration request names a fresh ComptrollerProxy of the release the
\* fund is on.
LEMMA ControlCreateReconfigurationRequest ==
  ASSUME ControlInvariant, TypeOK',
         NEW fd \in FundDeployers, NEW v \in Vaults, NEW c \in Comptrollers,
         NEW who \in Accounts, CreateReconfigurationRequest(fd, v, c, who)
  PROVE  ControlInvariant'
<1> USE AddressAssumption
    DEF ControlInvariant, TypeOK, Deployed, HasMigrationRequest,
        HasReconfigurationRequest, MigrationRequest, ReconfigurationRequest,
        CreateReconfigurationRequest, DeployComptroller, dispatcherVars,
        vaultVars
<1>1. AccessorInForce'
  BY DEF AccessorInForce
<1>2. RequestsAreExecutable'
  BY DEF RequestsAreExecutable
<1>3. MigrationRequestsConsistent'
  BY DEF MigrationRequestsConsistent
<1>4. RequestsWellFormed'
  BY DEF RequestsWellFormed, RequestsAreExecutable, NoMigration
<1>5. QED
  BY <1>1, <1>2, <1>3, <1>4

\* cancelReconfiguration destroys the ComptrollerProxy of its own request, which
\* no other request names and no fund obeys, because it is not activated.
LEMMA ControlCancelReconfiguration ==
  ASSUME ControlInvariant, TypeOK',
         NEW fd \in FundDeployers, NEW v \in Vaults, NEW who \in Accounts,
         CancelReconfiguration(fd, v, who)
  PROVE  ControlInvariant'
<1> USE AddressAssumption
    DEF ControlInvariant, TypeOK, Deployed, HasMigrationRequest,
        HasReconfigurationRequest, MigrationRequest, ReconfigurationRequest,
        CancelReconfiguration, CanCancelReconfiguration, DeleteReconfigurationRequest,
        NoReconfiguration, dispatcherVars, vaultVars
<1>1. AccessorInForce'
  BY DEF AccessorInForce, RequestsAreExecutable
<1>2. RequestsAreExecutable'
  BY DEF RequestsAreExecutable, RequestsWellFormed
<1>3. MigrationRequestsConsistent'
  BY DEF MigrationRequestsConsistent
<1>4. RequestsWellFormed'
  BY DEF RequestsWellFormed
<1>5. QED
  BY <1>1, <1>2, <1>3, <1>4

\* The successor was configured for this fund by the release the fund is on;
\* the accessor destroyed is named by no request, being activated.
LEMMA ControlExecuteReconfiguration ==
  ASSUME ControlInvariant, TypeOK',
         NEW fd \in FundDeployers, NEW v \in Vaults, NEW who \in Accounts,
         NEW paid \in BOOLEAN, ExecuteReconfiguration(fd, v, who, paid)
  PROVE  ControlInvariant'
<1> USE AddressAssumption
    DEF ControlInvariant, TypeOK, Deployed, HasMigrationRequest,
        HasReconfigurationRequest, MigrationRequest, ReconfigurationRequest,
        ExecuteReconfiguration, DeleteReconfigurationRequest, Succession,
        NoReconfiguration, dispatcherVars
<1>1. AccessorInForce'
  BY DEF AccessorInForce, RequestsAreExecutable
<1>2. RequestsAreExecutable'
  BY DEF RequestsAreExecutable, AccessorInForce, RequestsWellFormed
<1>3. MigrationRequestsConsistent'
  BY DEF MigrationRequestsConsistent
<1>4. RequestsWellFormed'
  BY DEF RequestsWellFormed
<1>5. QED
  BY <1>1, <1>2, <1>3, <1>4

\* Every transaction keeps the control invariant.
LEMMA ControlStep == ControlInvariant /\ [Next]_vars => ControlInvariant'
<1> SUFFICES ASSUME ControlInvariant, [Next]_vars
             PROVE  ControlInvariant'
  OBVIOUS
<1>1. TypeOK'
  BY TypeStep DEF ControlInvariant
<1>2. CASE Governance
  BY <1>1, <1>2, ControlUnchanged
     DEF Governance, SetCurrentFundDeployer, SetReleaseLive,
         SetReconfigurationTimelock, SetLastPaidForVault,
         SetMigrationTimelock,
         controlVars, dispatcherVars, deployerVars, vaultVars, comptrollerVars
<1>3. CASE Roles
  BY <1>1, <1>3, ControlUnchanged
     DEF Roles, SetMigrator, SetNominatedOwner, RemoveNominatedOwner,
         ClaimOwnership, controlVars, dispatcherVars, deployerVars, vaultVars,
         comptrollerVars
<1>4. CASE Migration
  BY <1>1, <1>4, ControlCreateNewFund, ControlCreateMigrationRequest,
     ControlCancelMigration, ControlExecuteMigration
     DEF Migration, CancelMigrationViaFundDeployer
<1>5. CASE Reconfiguration
  BY <1>1, <1>5, ControlCreateReconfigurationRequest,
     ControlCancelReconfiguration, ControlExecuteReconfiguration
     DEF Reconfiguration
<1>6. CASE \E v \in Vaults : PayProtocolFee(v)
  BY <1>1, <1>6, ControlUnchanged
     DEF PayProtocolFee, controlVars, dispatcherVars, deployerVars, vaultVars,
         comptrollerVars
<1>7. CASE Tick \/ UNCHANGED vars
  BY <1>1, <1>7, ControlUnchanged
     DEF Tick, vars, controlVars, dispatcherVars, deployerVars, vaultVars,
         comptrollerVars
<1>8. QED
  BY <1>2, <1>3, <1>4, <1>5, <1>6, <1>7 DEF Next

\* The control invariant holds before anything is deployed.
LEMMA ControlInit == Init => ControlInvariant
<1> SUFFICES ASSUME Init
             PROVE  ControlInvariant
  OBVIOUS
<1>1. TypeOK
  BY MaxTimeAssumption, TimelocksAssumption, AddressAssumption
     DEF Init, TypeOK, Time, Statuses, NoMigration, NoReconfiguration,
         MigrationRequest, ReconfigurationRequest
<1>2. QED
  BY <1>1, AddressAssumption
     DEF Init, ControlInvariant, AccessorInForce, RequestsAreExecutable,
         MigrationRequestsConsistent, RequestsWellFormed, Deployed,
         HasMigrationRequest, HasReconfigurationRequest, NoMigration,
         NoReconfiguration

\* The control state of every fund is always sound: its types, the accessor in
\* force, the requests, and what makes these inductive.
THEOREM ControlCorrect == Spec => []ControlInvariant
<1>1. QED
  BY ControlInit, ControlStep, PTL DEF Spec

\* The corollaries that the runs check on small instances.
\* Type correctness.
THEOREM TypeCorrect == Spec => []TypeOK
<1>1. ControlInvariant => TypeOK
  BY DEF ControlInvariant
<1>2. QED
  BY <1>1, ControlCorrect, PTL

\* Every fund always obeys an activated ComptrollerProxy of its own, of the
\* release it is on (Dispatcher.executeMigration,
\* FundDeployer.executeReconfiguration): it is never bricked.
THEOREM FundNeverBricked == Spec => []AccessorInForce
<1>1. ControlInvariant => AccessorInForce
  BY DEF ControlInvariant
<1>2. QED
  BY <1>1, ControlCorrect, PTL

\* Every pending request can be executed and called off, and destroying its
\* ComptrollerProxy never destroys one in force
\* (FundDeployer.invokeMigrationInCancelHook, cancelReconfiguration).
THEOREM RequestsStayExecutable == Spec => []RequestsAreExecutable
<1>1. ControlInvariant => RequestsAreExecutable
  BY DEF ControlInvariant
<1>2. QED
  BY <1>1, ControlCorrect, PTL

\* A migration request always leads out of the fund's release, and the two
\* ways of asking for one agree (Dispatcher.signalMigration, cancelMigration,
\* executeMigration, hasMigrationRequest).
THEOREM MigrationRequestsStayConsistent ==
  Spec => []MigrationRequestsConsistent
<1>1. ControlInvariant => MigrationRequestsConsistent
  BY DEF ControlInvariant
<1>2. QED
  BY <1>1, ControlCorrect, PTL

\* Nothing that is pending ever gets out of the owner's hands: the request is
\* there by both tests, and the ComptrollerProxy that is to be destroyed still
\* answers the release that holds the request, whether or not the fund is on
\* that release (Dispatcher.cancelMigration, FundDeployer.cancelReconfiguration).
THEOREM OwnerCanAlwaysCallOff == Spec => []OwnerCanCallOff
<1>1. ASSUME ControlInvariant PROVE OwnerCanCallOff
  <2>1. ASSUME NEW v \in Vaults, HasMigrationRequest(v)
        PROVE  /\ CanCancelMigration(v, owner[v], FALSE, TRUE)
               /\ CanCancelMigration(v, owner[v], TRUE, FALSE)
    <3>1. vaultProxyToMigrationRequest[v].nextFundDeployer # NoAddress
      BY <1>1, <2>1 DEF ControlInvariant, MigrationRequestsConsistent
    <3>2. Answers(vaultProxyToMigrationRequest[v].nextVaultAccessor,
                  vaultProxyToMigrationRequest[v].nextFundDeployer)
      BY <1>1, <2>1 DEF ControlInvariant, RequestsAreExecutable, Answers
    <3> QED
      BY <3>1, <3>2 DEF CanCancelMigration, CanMigrate, HookOutcome
  <2>2. ASSUME NEW v \in Vaults, NEW fd \in FundDeployers,
               HasReconfigurationRequest(fd, v)
        PROVE  CanCancelReconfiguration(fd, v, owner[v])
    BY <1>1, <2>2 DEF ControlInvariant, RequestsAreExecutable, Answers, CanMigrate,
                      CanCancelReconfiguration, HasReconfigurationRequest
  <2> QED
    BY <2>1, <2>2 DEF OwnerCanCallOff
<1>2. QED
  BY <1>1, ControlCorrect, PTL

(***************************************************************************)
(* The protocol fee.                                                       *)
(***************************************************************************)
FeesInvariant ==
  /\ \A v \in Vaults : chargedUntil[v] <= now
  /\ NoSecondChargedTwice

\* Paying the protocol fee of v leaves its clock at or after the end of what was
\* charged, and other vaults alone (ProtocolFeeTracker.payFee).
LEMMA PayFeeKeeps ==
  ASSUME TypeOK, NEW fd \in FundDeployers, NEW v \in Vaults,
         chargedUntil[v] <= now,
         vaultProxyToLastPaid[fd][v] >= chargedUntil[v]
  PROVE  /\ ChargedAfterPayFee(fd, v)[v] <= now
         /\ ClockAfterPayFee(fd, v)[fd][v] >= ChargedAfterPayFee(fd, v)[v]
         /\ \A g \in FundDeployers, w \in Vaults : w # v =>
              /\ ClockAfterPayFee(fd, v)[g][w] = vaultProxyToLastPaid[g][w]
              /\ ChargedAfterPayFee(fd, v)[w] = chargedUntil[w]
<1>1. /\ now \in Nat
      /\ chargedUntil[v] \in Nat
      /\ vaultProxyToLastPaid[fd][v] \in Nat
  BY MaxTimeAssumption DEF TypeOK, Time
<1>2. CASE vaultProxyToLastPaid[fd][v] >= now
  BY <1>1, <1>2 DEF ClockAfterPayFee, ChargedAfterPayFee
<1>3. CASE ~(vaultProxyToLastPaid[fd][v] >= now)
  <2>1. /\ ClockAfterPayFee(fd, v) =
             [vaultProxyToLastPaid EXCEPT ![fd][v] = now]
        /\ ChargedAfterPayFee(fd, v) = [chargedUntil EXCEPT ![v] = now]
    BY <1>3 DEF ClockAfterPayFee, ChargedAfterPayFee
  <2>2. QED
    BY <1>1, <2>1 DEF TypeOK
<1>4. QED
  BY <1>2, <1>3

\* Every transaction keeps the clocks at or after the end of what was charged.
LEMMA FeesStep ==
  ControlInvariant /\ FeesInvariant /\ [Next]_vars => FeesInvariant'
<1> SUFFICES ASSUME ControlInvariant, FeesInvariant, [Next]_vars
             PROVE  FeesInvariant'
  OBVIOUS
<1>1. TypeOK /\ TypeOK'
  BY TypeStep DEF ControlInvariant
<1>2. /\ now \in Nat
      /\ \A v \in Vaults : chargedUntil[v] \in Nat
      /\ \A fd \in FundDeployers, v \in Vaults :
           vaultProxyToLastPaid[fd][v] \in Nat
  BY <1>1, MaxTimeAssumption DEF TypeOK, Time
<1>3. \A v \in Vaults : Deployed(v) =>
        /\ vaultLib[v] \in FundDeployers
        /\ vaultLib[v] = vaultProxyToFundDeployer[v]
  BY <1>1 DEF ControlInvariant, AccessorInForce, TypeOK, Deployed
<1>4. ASSUME UNCHANGED <<now, feeVars, vaultLib, vaultProxyToFundDeployer>>
      PROVE  FeesInvariant'
  BY <1>4 DEF FeesInvariant, NoSecondChargedTwice, Deployed, feeVars
<1>5. CASE Governance
  <2>1. ASSUME NEW fd \in FundDeployers, NEW v \in Vaults,
               NEW t \in LastPaidTimes, SetLastPaidForVault(fd, v, t)
        PROVE  FeesInvariant'
    <3>1. t \in Nat
      BY LastPaidTimesAssumption, MaxTimeAssumption
    <3>2. vaultProxyToLastPaid' = [vaultProxyToLastPaid EXCEPT ![fd][v] = t]
      BY <2>1 DEF SetLastPaidForVault
    <3>3. ASSUME NEW w \in Vaults, Deployed(w)
          PROVE  vaultProxyToLastPaid'[vaultLib[w]][w] >= chargedUntil[w]
      <4>1. vaultProxyToLastPaid[vaultLib[w]][w] >= chargedUntil[w]
        BY <3>3 DEF FeesInvariant, NoSecondChargedTwice
      <4>2. CASE vaultLib[w] = fd /\ w = v
        <5>1. t >= chargedUntil[w]
          BY <1>2, <2>1, <3>1, <4>1, <4>2
             DEF SetLastPaidForVault, FeesInvariant
        <5>2. QED
          BY <1>1, <3>2, <4>2, <5>1 DEF TypeOK
      <4>3. CASE ~(vaultLib[w] = fd /\ w = v)
        BY <1>1, <1>3, <3>2, <3>3, <4>1, <4>3 DEF TypeOK
      <4>4. QED
        BY <4>2, <4>3
    <3>4. QED
      BY <2>1, <3>3
         DEF SetLastPaidForVault, FeesInvariant, NoSecondChargedTwice,
             Deployed, dispatcherVars, vaultVars
  <2>2. QED
    BY <1>4, <1>5, <2>1
       DEF Governance, SetCurrentFundDeployer, SetReleaseLive,
           SetReconfigurationTimelock, SetMigrationTimelock, dispatcherVars,
           vaultVars
<1>6. CASE Roles
  BY <1>4, <1>6
     DEF Roles, SetMigrator, SetNominatedOwner, RemoveNominatedOwner,
         ClaimOwnership, dispatcherVars, vaultVars
<1>7. CASE Migration
  <2>1. ASSUME NEW fd \in FundDeployers, NEW v \in Vaults,
               NEW c \in Comptrollers, NEW who \in Accounts,
               CreateNewFund(fd, v, c, who)
        PROVE  FeesInvariant'
    <3>1. /\ vaultProxyToLastPaid' =
               [vaultProxyToLastPaid EXCEPT ![fd][v] = now]
          /\ vaultLib' = [vaultLib EXCEPT ![v] = fd]
          /\ vaultProxyToFundDeployer' =
               [vaultProxyToFundDeployer EXCEPT ![v] = fd]
          /\ UNCHANGED <<now, chargedUntil>>
      BY <2>1 DEF CreateNewFund, InitializeForVault
    <3>2. ASSUME NEW w \in Vaults, Deployed(w)'
          PROVE  vaultProxyToLastPaid'[vaultLib'[w]][w] >= chargedUntil[w]
      <4>1. CASE w = v
        BY <1>1, <1>2, <3>1, <4>1 DEF TypeOK, FeesInvariant
      <4>2. CASE w # v
        BY <1>1, <1>3, <3>1, <3>2, <4>2
           DEF TypeOK, FeesInvariant, NoSecondChargedTwice, Deployed
      <4>3. QED
        BY <4>1, <4>2
    <3>3. QED
      BY <3>1, <3>2 DEF FeesInvariant, NoSecondChargedTwice
  <2>2. ASSUME NEW fd \in FundDeployers, NEW v \in Vaults, NEW who \in Accounts,
               NEW ok \in BOOLEAN, NEW bypass \in BOOLEAN, NEW paid \in BOOLEAN,
               ExecuteMigration(fd, v, who, ok, bypass, paid)
        PROVE  FeesInvariant'
    <3> DEFINE clock == IF ok /\ paid THEN ClockAfterPayFee(vaultLib[v], v)
                                     ELSE vaultProxyToLastPaid
    <3>1. /\ vaultProxyToLastPaid' = [clock EXCEPT ![fd][v] = now]
          /\ chargedUntil' = IF ok /\ paid
                               THEN ChargedAfterPayFee(vaultLib[v], v)
                               ELSE chargedUntil
          /\ vaultLib' = [vaultLib EXCEPT ![v] = fd]
          /\ vaultProxyToFundDeployer' =
               [vaultProxyToFundDeployer EXCEPT ![v] = fd]
          /\ UNCHANGED now
      BY <2>2 DEF ExecuteMigration,
                  InitializeForVault
    <3>2. Deployed(v) /\ vaultLib[v] \in FundDeployers
      BY <1>3, <2>2
         DEF ExecuteMigration, ControlInvariant, MigrationRequestsConsistent
    <3>3. /\ clock \in [FundDeployers -> [Vaults -> 0..MaxTime]]
          /\ chargedUntil'[v] <= now
          /\ \A g \in FundDeployers, w \in Vaults : w # v =>
               /\ clock[g][w] = vaultProxyToLastPaid[g][w]
               /\ chargedUntil'[w] = chargedUntil[w]
      <4>1. /\ chargedUntil[v] <= now
            /\ vaultProxyToLastPaid[vaultLib[v]][v] >= chargedUntil[v]
        BY <3>2 DEF FeesInvariant, NoSecondChargedTwice
      <4>2. vaultProxyToLastPaid \in [FundDeployers -> [Vaults -> 0..MaxTime]]
        BY <1>1 DEF TypeOK
      <4>3. QED
        BY <1>1, <3>1, <3>2, <4>1, <4>2, PayFeeKeeps, PayFeeType
    <3> HIDE DEF clock
    <3>4. ASSUME NEW w \in Vaults, Deployed(w)'
          PROVE  /\ vaultProxyToLastPaid'[vaultLib'[w]][w] >= chargedUntil'[w]
                 /\ chargedUntil'[w] <= now
      <4>1. CASE w = v
        <5>1. vaultProxyToLastPaid'[fd][v] = now
          BY <3>1, <3>3
        <5>2. vaultLib'[v] = fd
          BY <1>1, <3>1 DEF TypeOK
        <5>3. chargedUntil'[v] \in Nat
          BY <1>1, MaxTimeAssumption DEF TypeOK
        <5>4. QED
          BY <1>2, <3>3, <4>1, <5>1, <5>2, <5>3
      <4>2. CASE w # v
        <5>1. Deployed(w) /\ vaultLib'[w] = vaultLib[w]
          BY <1>1, <3>1, <3>4, <4>2 DEF TypeOK, Deployed
        <5>2. vaultProxyToLastPaid'[vaultLib[w]][w] =
                vaultProxyToLastPaid[vaultLib[w]][w]
          BY <1>3, <3>1, <3>3, <4>2, <5>1
        <5>3. QED
          BY <3>3, <4>2, <5>1, <5>2 DEF FeesInvariant, NoSecondChargedTwice
      <4>3. QED
        BY <4>1, <4>2
    <3>5. \A w \in Vaults : chargedUntil'[w] <= now
      BY <3>3 DEF FeesInvariant
    <3>6. QED
      BY <3>1, <3>4, <3>5 DEF FeesInvariant, NoSecondChargedTwice
  <2>3. QED
    BY <1>4, <1>7, <2>1, <2>2
       DEF Migration, CancelMigrationViaFundDeployer, CancelMigration, CanCancelMigration,
           CreateMigrationRequest, vaultVars
<1>8. ASSUME NEW v \in Vaults, Deployed(v),
             UNCHANGED <<now, vaultLib, vaultProxyToFundDeployer>>,
             vaultProxyToLastPaid' = ClockAfterPayFee(vaultLib[v], v),
             chargedUntil' = ChargedAfterPayFee(vaultLib[v], v)
      PROVE  FeesInvariant'
  <2>1. /\ chargedUntil[v] <= now
        /\ vaultProxyToLastPaid[vaultLib[v]][v] >= chargedUntil[v]
    BY <1>8 DEF FeesInvariant, NoSecondChargedTwice
  <2>2. /\ chargedUntil'[v] <= now
        /\ vaultProxyToLastPaid'[vaultLib[v]][v] >= chargedUntil'[v]
        /\ \A g \in FundDeployers, w \in Vaults : w # v =>
             /\ vaultProxyToLastPaid'[g][w] = vaultProxyToLastPaid[g][w]
             /\ chargedUntil'[w] = chargedUntil[w]
    BY <1>1, <1>3, <1>8, <2>1, PayFeeKeeps
  <2>3. QED
    BY <1>3, <1>8, <2>2 DEF FeesInvariant, NoSecondChargedTwice, Deployed
<1>9. CASE Reconfiguration
  <2>1. ASSUME NEW fd \in FundDeployers, NEW v \in Vaults, NEW who \in Accounts,
               NEW paid \in BOOLEAN, ExecuteReconfiguration(fd, v, who, paid)
        PROVE  FeesInvariant'
    <3>1. /\ Deployed(v)
          /\ fd = vaultLib[v]
          /\ UNCHANGED <<now, vaultLib, vaultProxyToFundDeployer>>
      BY <2>1, AddressAssumption
         DEF ExecuteReconfiguration,
             Deployed, dispatcherVars
    <3>2. CASE paid
      BY <1>8, <2>1, <3>1, <3>2 DEF ExecuteReconfiguration
    <3>3. CASE ~paid
      BY <1>4, <2>1, <3>1, <3>3 DEF ExecuteReconfiguration, feeVars
    <3>4. QED
      BY <3>2, <3>3
  <2>2. QED
    BY <1>4, <1>9, <2>1
       DEF Reconfiguration, CreateReconfigurationRequest,
           CancelReconfiguration, CanCancelReconfiguration,
           dispatcherVars, vaultVars
<1>10. CASE \E v \in Vaults : PayProtocolFee(v)
  BY <1>8, <1>10
     DEF PayProtocolFee, ControlInvariant, RequestsWellFormed, dispatcherVars,
         vaultVars
<1>11. CASE Tick
  BY <1>1, <1>2, <1>11
     DEF Tick, FeesInvariant, NoSecondChargedTwice, Deployed, feeVars,
         vaultVars, dispatcherVars
<1>12. CASE UNCHANGED vars
  BY <1>4, <1>12 DEF vars, vaultVars, dispatcherVars
<1>13. QED
  BY <1>5, <1>6, <1>7, <1>9, <1>10, <1>11, <1>12 DEF Next

\* No second of a fund's life is charged the protocol fee twice.
THEOREM FeesNeverChargedTwice == Spec => []NoSecondChargedTwice
<1>1. Init => FeesInvariant
  BY AddressAssumption DEF Init, FeesInvariant, NoSecondChargedTwice, Deployed
<1>2. FeesInvariant => NoSecondChargedTwice
  BY DEF FeesInvariant
<1>3. QED
  BY <1>1, <1>2, FeesStep, ControlCorrect, PTL DEF Spec

-----------------------------------------------------------------------------
(***************************************************************************)
(* Predecessors are destroyed.  To be inductive this needs that what was   *)
(* left undestroyed stays activated: such a ComptrollerProxy is never put  *)
(* in force again.                                                         *)
(***************************************************************************)
PredecessorsInv ==
  /\ PredecessorsDestroyed
  /\ undestructed \subseteq {c \in Comptrollers : status[c] = "active"}

\* The same, element by element.
LEMMA PredecessorsEach ==
  PredecessorsInv <=>
    /\ \A c \in Comptrollers :
         status[c] = "active" /\ c \notin undestructed =>
           \E v \in Vaults : Deployed(v) /\ accessor[v] = c
    /\ \A v \in Vaults : Deployed(v) =>
         /\ accessor[v] \in Comptrollers
         /\ status[accessor[v]] = "active" /\ accessor[v] \notin undestructed
    /\ undestructed \subseteq {c \in Comptrollers : status[c] = "active"}
BY DEF PredecessorsInv, PredecessorsDestroyed

\* Requests come and go among ComptrollerProxies that are not activated.
LEMMA PredecessorsRequest ==
  ASSUME PredecessorsInv, NEW c,
         status \in [Comptrollers -> Statuses],
         c \in Comptrollers => status[c] # "active",
         NEW s, s # "active",
         status' = [status EXCEPT ![c] = s],
         UNCHANGED <<vaultProxyToFundDeployer, accessor, undestructed>>
  PROVE  PredecessorsInv'
<1>1. {d \in Comptrollers : status[d] = "active"}' = {d \in Comptrollers : status[d] = "active"}
  OBVIOUS
<1>2. {v \in Vaults : Deployed(v)}' = {v \in Vaults : Deployed(v)}
  BY DEF Deployed
<1>3. QED
  BY <1>1, <1>2 DEF PredecessorsInv, PredecessorsDestroyed

\* Nothing that PredecessorsInv speaks of changes.
LEMMA PredecessorsUnchanged ==
  ASSUME PredecessorsInv,
         UNCHANGED <<status, vaultProxyToFundDeployer, accessor, undestructed>>
  PROVE  PredecessorsInv'
BY DEF PredecessorsInv, PredecessorsDestroyed, Deployed

\* A new fund activates its own ComptrollerProxy (FundDeployer.createNewFund).
LEMMA PredecessorsCreate ==
  ASSUME ControlInvariant, PredecessorsInv,
         NEW fd \in FundDeployers, NEW v \in Vaults, NEW c \in Comptrollers,
         NEW who \in Accounts, CreateNewFund(fd, v, c, who)
  PROVE  PredecessorsInv'
<1>1. /\ status[c] = "unused" /\ status' = [status EXCEPT ![c] = "active"]
      /\ accessor' = [accessor EXCEPT ![v] = c]
      /\ ~Deployed(v)
      /\ vaultProxyToFundDeployer' = [vaultProxyToFundDeployer EXCEPT ![v] = fd]
      /\ undestructed' = undestructed
      /\ status \in [Comptrollers -> Statuses]
      /\ accessor \in [Vaults -> Comptrollers \cup {NoAddress}]
      /\ vaultProxyToFundDeployer \in [Vaults -> FundDeployers \cup {NoAddress}]
  BY DEF CreateNewFund, DeployComptroller, Deployed, ControlInvariant, TypeOK
<1>2. c \notin undestructed
  BY <1>1 DEF PredecessorsInv
<1>3. /\ Deployed(v)' /\ accessor'[v] = c
      /\ \A w \in Vaults \ {v} : (Deployed(w)' <=> Deployed(w)) /\ accessor'[w] = accessor[w]
  BY <1>1, AddressAssumption DEF Deployed
<1>4. \A d \in Comptrollers :
        status'[d] = "active" /\ d \notin undestructed' =>
          \E w \in Vaults : Deployed(w)' /\ accessor'[w] = d
  <2> TAKE d \in Comptrollers
  <2> HAVE status'[d] = "active" /\ d \notin undestructed'
  <2>1. CASE d = c
    BY <2>1, <1>3
  <2>2. CASE d # c
    <3>1. PICK w \in Vaults : Deployed(w) /\ accessor[w] = d
      BY <2>2, <1>1, PredecessorsEach
    <3>2. QED
      BY <3>1, <1>1, <1>3
  <2>3. QED
    BY <2>1, <2>2
<1>5. \A w \in Vaults : Deployed(w)' =>
        /\ accessor'[w] \in Comptrollers
        /\ status'[accessor'[w]] = "active" /\ accessor'[w] \notin undestructed'
  BY <1>1, <1>2, <1>3, PredecessorsEach
<1>6. undestructed' \subseteq {d \in Comptrollers : status'[d] = "active"}
  BY <1>1 DEF PredecessorsInv
<1>7. QED
  BY <1>4, <1>5, <1>6 DEF PredecessorsInv, PredecessorsDestroyed

\* What migrations and reconfigurations share: prev is destroyed or noted, next
\* takes its place.
LEMMA PredecessorsSucceed ==
  ASSUME ControlInvariant, PredecessorsInv, NEW v \in Vaults, Deployed(v),
         NEW next \in Comptrollers, status[next] = "configured",
         NEW destroys \in BOOLEAN,
         Succession(accessor[v], next, destroys),
         accessor' = [accessor EXCEPT ![v] = next],
         undestructed' = IF destroys THEN undestructed ELSE undestructed \cup {accessor[v]},
         \A w \in Vaults : Deployed(w)' <=> Deployed(w)
  PROVE  PredecessorsInv'
<1> DEFINE prev == accessor[v]
<1>1. /\ prev \in Comptrollers /\ status[prev] = "active" /\ prev \notin undestructed
      /\ prev # next
  BY PredecessorsEach
<1>2. next \notin undestructed
  BY DEF PredecessorsInv
<1>3. \A w \in Vaults \ {v} : Deployed(w) => accessor[w] # prev /\ accessor[w] # next
  BY PredecessorsEach DEF ControlInvariant, AccessorInForce
<1>4. /\ accessor'[v] = next
      /\ \A w \in Vaults \ {v} : accessor'[w] = accessor[w]
  BY DEF ControlInvariant, TypeOK
<1>5. /\ status'[next] = "active"
      /\ status'[prev] = IF destroys THEN "destroyed" ELSE "active"
      /\ \A d \in Comptrollers \ {prev, next} : status'[d] = status[d]
  BY <1>1 DEF Succession, ControlInvariant, TypeOK
<1> HIDE DEF prev
<1>6. undestructed' = IF destroys THEN undestructed ELSE undestructed \cup {prev}
  BY DEF prev
<1>7. accessor[v] = prev
  BY DEF prev
<1>8. \A d \in Comptrollers :
        status'[d] = "active" /\ d \notin undestructed' =>
          \E w \in Vaults : Deployed(w)' /\ accessor'[w] = d
  <2> TAKE d \in Comptrollers
  <2> HAVE status'[d] = "active" /\ d \notin undestructed'
  <2>1. CASE d = next
    BY <2>1, <1>4
  <2>2. CASE d # next
    <3>1. d # prev
      BY <1>5, <1>6
    <3>2. PICK w \in Vaults : Deployed(w) /\ accessor[w] = d
      BY <2>2, <3>1, <1>5, <1>6, PredecessorsEach
    <3>3. QED
      BY <3>1, <3>2, <1>4, <1>7
  <2>3. QED
    BY <2>1, <2>2
<1>9. \A w \in Vaults : Deployed(w)' =>
        /\ accessor'[w] \in Comptrollers
        /\ status'[accessor'[w]] = "active" /\ accessor'[w] \notin undestructed'
  <2> TAKE w \in Vaults
  <2> HAVE Deployed(w)'
  <2>1. CASE w = v
    BY <2>1, <1>1, <1>2, <1>4, <1>5, <1>6
  <2>2. CASE w # v
    BY <2>2, <1>3, <1>4, <1>5, <1>6, PredecessorsEach
  <2>3. QED
    BY <2>1, <2>2
<1>10. undestructed' \subseteq {d \in Comptrollers : status'[d] = "active"}
  BY <1>1, <1>2, <1>5, <1>6 DEF PredecessorsInv
<1>11. QED
  BY <1>8, <1>9, <1>10 DEF PredecessorsInv, PredecessorsDestroyed

\* Every transaction keeps PredecessorsInv, by the lemmas above.
LEMMA PredecessorsStep == ControlInvariant /\ PredecessorsInv /\ [Next]_vars => PredecessorsInv'
<1> SUFFICES ASSUME ControlInvariant, PredecessorsInv, [Next]_vars PROVE PredecessorsInv'
  OBVIOUS
<1>1. ASSUME Governance \/ Roles \/ Tick \/ UNCHANGED vars \/ \E v \in Vaults : PayProtocolFee(v)
      PROVE  PredecessorsInv'
  <2>1. UNCHANGED <<status, vaultProxyToFundDeployer, accessor, undestructed>>
    BY <1>1
       DEF Governance, Roles, Tick, PayProtocolFee, SetCurrentFundDeployer, SetMigrationTimelock,
           SetReleaseLive, SetReconfigurationTimelock, SetLastPaidForVault, SetMigrator,
           SetNominatedOwner, RemoveNominatedOwner, ClaimOwnership, vars, dispatcherVars,
           deployerVars, vaultVars, comptrollerVars
  <2>2. QED
    BY <2>1, PredecessorsUnchanged
<1>2. ASSUME NEW fd \in FundDeployers, NEW v \in Vaults, NEW c \in Comptrollers,
             NEW who \in Accounts,
             \/ CreateMigrationRequest(fd, v, c, who)
             \/ CreateReconfigurationRequest(fd, v, c, who)
      PROVE  PredecessorsInv'
  <2>1. /\ status[c] = "unused" /\ status' = [status EXCEPT ![c] = "configured"]
        /\ UNCHANGED <<vaultProxyToFundDeployer, accessor, undestructed>>
        /\ status \in [Comptrollers -> Statuses]
    BY <1>2 DEF CreateMigrationRequest, CreateReconfigurationRequest, DeployComptroller,
                dispatcherVars, vaultVars, ControlInvariant, TypeOK
  <2>2. QED
    BY <2>1, PredecessorsRequest
<1>3. ASSUME NEW v \in Vaults, NEW sender, NEW ok \in BOOLEAN, NEW bypass \in BOOLEAN,
             CancelMigration(v, sender, ok, bypass)
      PROVE  PredecessorsInv'
  <2> DEFINE next == vaultProxyToMigrationRequest[v].nextVaultAccessor
  <2>1. /\ UNCHANGED <<vaultProxyToFundDeployer, accessor, undestructed>>
        /\ status \in [Comptrollers -> Statuses]
        /\ status' = IF ok THEN [status EXCEPT ![next] = "destroyed"] ELSE status
    BY <1>3 DEF CancelMigration, vaultVars, ControlInvariant, TypeOK
  <2>2. status[next] = "configured"
    BY <1>3 DEF CancelMigration, CanCancelMigration, ControlInvariant,
                MigrationRequestsConsistent, RequestsAreExecutable
  <2> HIDE DEF next
  <2>3. CASE ok
    BY <2>1, <2>2, <2>3, PredecessorsRequest
  <2>4. CASE ~ok
    BY <2>1, <2>4, PredecessorsUnchanged
  <2>5. QED
    BY <2>3, <2>4
<1>4. ASSUME NEW fd \in FundDeployers, NEW v \in Vaults, NEW who \in Accounts,
             CancelReconfiguration(fd, v, who)
      PROVE  PredecessorsInv'
  <2> DEFINE next == vaultProxyToReconfigurationRequest[fd][v].nextComptrollerProxy
  <2>1. /\ UNCHANGED <<vaultProxyToFundDeployer, accessor, undestructed>>
        /\ status \in [Comptrollers -> Statuses]
        /\ status' = [status EXCEPT ![next] = "destroyed"]
    BY <1>4 DEF CancelReconfiguration, dispatcherVars, vaultVars, ControlInvariant, TypeOK
  <2>2. status[next] = "configured"
    BY <1>4 DEF CancelReconfiguration, CanCancelReconfiguration,
                HasReconfigurationRequest, ControlInvariant, RequestsAreExecutable
  <2> HIDE DEF next
  <2>3. QED
    BY <2>1, <2>2, PredecessorsRequest
<1>5. ASSUME NEW fd \in FundDeployers, NEW v \in Vaults, NEW who \in Accounts,
             NEW ok \in BOOLEAN, NEW bypass \in BOOLEAN, NEW paid \in BOOLEAN,
             ExecuteMigration(fd, v, who, ok, bypass, paid)
      PROVE  PredecessorsInv'
  <2> DEFINE next == vaultProxyToMigrationRequest[v].nextVaultAccessor
  <2>1. HasMigrationRequest(v) /\ Deployed(v)
    BY <1>5 DEF ExecuteMigration, ControlInvariant, MigrationRequestsConsistent
  <2>2. next \in Comptrollers /\ status[next] = "configured"
    BY <2>1 DEF ControlInvariant, RequestsAreExecutable
  <2>3. /\ Succession(accessor[v], next, ok)
        /\ accessor' = [accessor EXCEPT ![v] = next]
        /\ undestructed' = IF ok THEN undestructed ELSE undestructed \cup {accessor[v]}
        /\ vaultProxyToFundDeployer' = [vaultProxyToFundDeployer EXCEPT ![v] = fd]
    BY <1>5 DEF ExecuteMigration
  <2>4. \A w \in Vaults : Deployed(w)' <=> Deployed(w)
    BY <2>1, <2>3, AddressAssumption DEF Deployed, ControlInvariant, TypeOK
  <2> HIDE DEF next
  <2>5. QED
    BY <2>1, <2>2, <2>3, <2>4, PredecessorsSucceed
<1>6. ASSUME NEW fd \in FundDeployers, NEW v \in Vaults, NEW who \in Accounts,
             NEW paid \in BOOLEAN, ExecuteReconfiguration(fd, v, who, paid)
      PROVE  PredecessorsInv'
  <2> DEFINE next == vaultProxyToReconfigurationRequest[fd][v].nextComptrollerProxy
  <2>1. HasReconfigurationRequest(fd, v) /\ Deployed(v)
    BY <1>6, AddressAssumption DEF ExecuteReconfiguration, HasReconfigurationRequest, Deployed
  <2>2. next \in Comptrollers /\ status[next] = "configured"
    <3>1. next \in Comptrollers \cup {NoAddress}
      BY DEF ControlInvariant, TypeOK, ReconfigurationRequest
    <3>2. QED
      BY <2>1, <3>1 DEF ControlInvariant, RequestsAreExecutable, HasReconfigurationRequest
  <2>3. /\ Succession(accessor[v], next, TRUE)
        /\ accessor' = [accessor EXCEPT ![v] = next]
        /\ UNCHANGED <<undestructed, vaultProxyToFundDeployer>>
    BY <1>6 DEF ExecuteReconfiguration, dispatcherVars
  <2>4. \A w \in Vaults : Deployed(w)' <=> Deployed(w)
    BY <2>3 DEF Deployed
  <2> HIDE DEF next
  <2>5. QED
    BY <2>1, <2>2, <2>3, <2>4, PredecessorsSucceed
<1>7. QED
  BY <1>1, <1>2, <1>3, <1>4, <1>5, <1>6, PredecessorsCreate
     DEF Next, Migration, Reconfiguration, CancelMigrationViaFundDeployer

\* The ComptrollerProxies that a fund has left are destroyed, except the ones
\* whose PreMigrate hook failed and was bypassed
\* (FundDeployer.executeReconfiguration, Dispatcher.executeMigration).
THEOREM PredecessorsAreDestroyed == Spec => []PredecessorsDestroyed
<1>1. Init => PredecessorsInv
  BY DEF Init, PredecessorsInv, PredecessorsDestroyed, Deployed
<1>2. PredecessorsInv => PredecessorsDestroyed
  BY DEF PredecessorsInv
<1>3. QED
  BY <1>1, <1>2, PredecessorsStep, ControlCorrect, PTL DEF Spec

-----------------------------------------------------------------------------
(***************************************************************************)
(* FundLifecycle implements AccessorHandover.                              *)
(***************************************************************************)

\* What the refinement mapping depends on.
mappedVars == <<now, accessor, vaultProxyToMigrationRequest,
                vaultProxyToReconfigurationRequest, migrationTimelock,
                reconfigurationTimelock, status>>

\* The announcements, the notices in force and the ComptrollerProxies spent that
\* the mapping reads off the state.
AnnouncedIn == [v \in Vaults |-> Announcements(v)]
InForce == {migrationTimelock} \cup {reconfigurationTimelock[fd] : fd \in FundDeployers}
Spent == {c \in Comptrollers : status[c] # "unused"}

\* The two parts of Announcements(v).
MigrationAnnouncement(v) ==
  [next |-> vaultProxyToMigrationRequest[v].nextVaultAccessor,
   from |-> vaultProxyToMigrationRequest[v].executableTimestamp]

ReconfigurationAnnouncement(fd, v) ==
  [next |-> vaultProxyToReconfigurationRequest[fd][v].nextComptrollerProxy,
   from |-> vaultProxyToReconfigurationRequest[fd][v].executableTimestamp]

MigrationAnnouncements(v) ==
  {[next |-> r.nextVaultAccessor, from |-> r.executableTimestamp] :
     r \in {vaultProxyToMigrationRequest[v]} \ {NoMigration}}

ReconfigurationAnnouncements(v) ==
  {[next |-> r.nextComptrollerProxy, from |-> r.executableTimestamp] :
     r \in {vaultProxyToReconfigurationRequest[fd][v] : fd \in FundDeployers}
             \ {NoReconfiguration}}

\* What is announced about v: its migration request and its reconfiguration
\* requests on every release.
LEMMA AnnouncementsAre ==
  ASSUME NEW v \in Vaults
  PROVE  /\ Announcements(v) = MigrationAnnouncements(v) \cup ReconfigurationAnnouncements(v)
         /\ MigrationAnnouncements(v) =
              {a \in {MigrationAnnouncement(v)} : vaultProxyToMigrationRequest[v] # NoMigration}
         /\ ReconfigurationAnnouncements(v) =
              {ReconfigurationAnnouncement(fd, v) :
                 fd \in {f \in FundDeployers :
                           vaultProxyToReconfigurationRequest[f][v] # NoReconfiguration}}
BY DEF Announcements, MigrationAnnouncements, ReconfigurationAnnouncements,
       MigrationAnnouncement, ReconfigurationAnnouncement

\* An existing request names its ComptrollerProxy alone.
LEMMA AnnouncementsDiffer ==
  ASSUME ControlInvariant, NEW v \in Vaults, NEW fd \in FundDeployers,
         vaultProxyToReconfigurationRequest[fd][v] # NoReconfiguration
  PROVE  /\ ReconfigurationAnnouncement(fd, v) # MigrationAnnouncement(v)
         /\ \A g \in FundDeployers \ {fd} :
              vaultProxyToReconfigurationRequest[g][v] # NoReconfiguration =>
                ReconfigurationAnnouncement(g, v) # ReconfigurationAnnouncement(fd, v)
<1>1. \A f \in FundDeployers :
        vaultProxyToReconfigurationRequest[f][v] # NoReconfiguration =>
          HasReconfigurationRequest(f, v)
  BY DEF ControlInvariant, RequestsWellFormed
<1>2. QED
  BY <1>1 DEF ControlInvariant, RequestsWellFormed, RequestsAreExecutable,
              ReconfigurationAnnouncement, MigrationAnnouncement

\* A step that changes the announcements of one fund only.
LEMMA AnnouncementsExcept ==
  ASSUME NEW v \in Vaults, NEW S, Announcements(v)' = S,
         \A w \in Vaults \ {v} : Announcements(w)' = Announcements(w)
  PROVE  AnnouncedIn' = [AnnouncedIn EXCEPT ![v] = S]
BY DEF AnnouncedIn

\* A migration request signalled is one announcement more.
LEMMA MigrationAdded ==
  ASSUME NEW v \in Vaults, NEW r, vaultProxyToMigrationRequest[v] = NoMigration,
         r # NoMigration,
         vaultProxyToMigrationRequest \in [Vaults -> MigrationRequest],
         vaultProxyToMigrationRequest' = [vaultProxyToMigrationRequest EXCEPT ![v] = r],
         UNCHANGED vaultProxyToReconfigurationRequest
  PROVE  AnnouncedIn' = [AnnouncedIn EXCEPT ![v] =
           @ \cup {[next |-> r.nextVaultAccessor, from |-> r.executableTimestamp]}]
<1>1. /\ vaultProxyToMigrationRequest'[v] = r
      /\ \A w \in Vaults \ {v} :
           vaultProxyToMigrationRequest'[w] = vaultProxyToMigrationRequest[w]
  OBVIOUS
<1>2. ReconfigurationAnnouncements(v)' = ReconfigurationAnnouncements(v)
  BY DEF ReconfigurationAnnouncements
<1>3. MigrationAnnouncements(v) = {}
  BY DEF MigrationAnnouncements
<1>4. MigrationAnnouncements(v)' =
        {[next |-> r.nextVaultAccessor, from |-> r.executableTimestamp]}
  BY <1>1 DEF MigrationAnnouncements
<1>5. /\ Announcements(v) = MigrationAnnouncements(v) \cup ReconfigurationAnnouncements(v)
      /\ Announcements(v)' = MigrationAnnouncements(v)' \cup ReconfigurationAnnouncements(v)'
  BY DEF Announcements, MigrationAnnouncements, ReconfigurationAnnouncements
<1>6. \A w \in Vaults \ {v} : Announcements(w)' = Announcements(w)
  BY <1>1 DEF Announcements
<1>7. Announcements(v)' =
        Announcements(v) \cup {[next |-> r.nextVaultAccessor, from |-> r.executableTimestamp]}
  BY <1>2, <1>3, <1>4, <1>5
<1>8. QED
  BY <1>6, <1>7, AnnouncementsExcept DEF AnnouncedIn

\* A migration request deleted is its one announcement less.
LEMMA MigrationRemoved ==
  ASSUME ControlInvariant, NEW v \in Vaults,
         vaultProxyToMigrationRequest[v] # NoMigration,
         vaultProxyToMigrationRequest' =
           [vaultProxyToMigrationRequest EXCEPT ![v] = NoMigration],
         UNCHANGED vaultProxyToReconfigurationRequest
  PROVE  /\ MigrationAnnouncement(v) \in AnnouncedIn[v]
         /\ AnnouncedIn' = [AnnouncedIn EXCEPT ![v] = @ \ {MigrationAnnouncement(v)}]
<1>1. /\ vaultProxyToMigrationRequest'[v] = NoMigration
      /\ \A w \in Vaults \ {v} :
           vaultProxyToMigrationRequest'[w] = vaultProxyToMigrationRequest[w]
  BY DEF ControlInvariant, TypeOK
<1>2. ReconfigurationAnnouncements(v)' = ReconfigurationAnnouncements(v)
  BY DEF ReconfigurationAnnouncements
<1>3. MigrationAnnouncements(v) = {MigrationAnnouncement(v)}
  BY DEF MigrationAnnouncements, MigrationAnnouncement
<1>4. MigrationAnnouncements(v)' = {}
  BY <1>1 DEF MigrationAnnouncements
<1>5. /\ Announcements(v) = MigrationAnnouncements(v) \cup ReconfigurationAnnouncements(v)
      /\ Announcements(v)' = MigrationAnnouncements(v)' \cup ReconfigurationAnnouncements(v)'
  BY DEF Announcements, MigrationAnnouncements, ReconfigurationAnnouncements
<1>6. MigrationAnnouncement(v) \notin ReconfigurationAnnouncements(v)
  BY AnnouncementsAre, AnnouncementsDiffer
<1>7. \A w \in Vaults \ {v} : Announcements(w)' = Announcements(w)
  BY <1>1 DEF Announcements
<1>8. Announcements(v)' = Announcements(v) \ {MigrationAnnouncement(v)}
  BY <1>2, <1>3, <1>4, <1>5, <1>6
<1>9. QED
  BY <1>3, <1>5, <1>7, <1>8, AnnouncementsExcept DEF AnnouncedIn

\* A reconfiguration request made is one announcement more.
LEMMA ReconfigurationAdded ==
  ASSUME NEW v \in Vaults, NEW fd \in FundDeployers, NEW r,
         vaultProxyToReconfigurationRequest[fd][v] = NoReconfiguration,
         r # NoReconfiguration,
         vaultProxyToReconfigurationRequest \in
           [FundDeployers -> [Vaults -> ReconfigurationRequest]],
         vaultProxyToReconfigurationRequest' =
           [vaultProxyToReconfigurationRequest EXCEPT ![fd][v] = r],
         UNCHANGED vaultProxyToMigrationRequest
  PROVE  AnnouncedIn' = [AnnouncedIn EXCEPT ![v] =
           @ \cup {[next |-> r.nextComptrollerProxy, from |-> r.executableTimestamp]}]
<1> DEFINE new == [next |-> r.nextComptrollerProxy, from |-> r.executableTimestamp]
<1>1. /\ vaultProxyToReconfigurationRequest'[fd][v] = r
      /\ \A f \in FundDeployers, w \in Vaults : f # fd \/ w # v =>
           vaultProxyToReconfigurationRequest'[f][w] = vaultProxyToReconfigurationRequest[f][w]
  OBVIOUS
<1>2. MigrationAnnouncements(v)' = MigrationAnnouncements(v)
  BY DEF MigrationAnnouncements
<1>3. {vaultProxyToReconfigurationRequest'[f][v] : f \in FundDeployers} \ {NoReconfiguration} =
        ({vaultProxyToReconfigurationRequest[f][v] : f \in FundDeployers} \ {NoReconfiguration})
          \cup {r}
  BY <1>1
<1>4. ReconfigurationAnnouncements(v)' = ReconfigurationAnnouncements(v) \cup {new}
  BY <1>3 DEF ReconfigurationAnnouncements
<1>5. /\ Announcements(v) = MigrationAnnouncements(v) \cup ReconfigurationAnnouncements(v)
      /\ Announcements(v)' = MigrationAnnouncements(v)' \cup ReconfigurationAnnouncements(v)'
  BY DEF Announcements, MigrationAnnouncements, ReconfigurationAnnouncements
<1>6. \A w \in Vaults \ {v} : Announcements(w)' = Announcements(w)
  BY <1>1 DEF Announcements
<1> HIDE DEF new
<1>7. Announcements(v)' = Announcements(v) \cup {new}
  BY <1>2, <1>4, <1>5
<1>8. AnnouncedIn' = [AnnouncedIn EXCEPT ![v] = @ \cup {new}]
  BY <1>6, <1>7, AnnouncementsExcept DEF AnnouncedIn
<1>9. QED
  BY <1>8 DEF new

\* A reconfiguration request deleted is its one announcement less.
LEMMA ReconfigurationRemoved ==
  ASSUME ControlInvariant, NEW v \in Vaults, NEW fd \in FundDeployers,
         vaultProxyToReconfigurationRequest[fd][v] # NoReconfiguration,
         vaultProxyToReconfigurationRequest' =
           [vaultProxyToReconfigurationRequest EXCEPT ![fd][v] = NoReconfiguration],
         UNCHANGED vaultProxyToMigrationRequest
  PROVE  /\ ReconfigurationAnnouncement(fd, v) \in AnnouncedIn[v]
         /\ AnnouncedIn' =
              [AnnouncedIn EXCEPT ![v] = @ \ {ReconfigurationAnnouncement(fd, v)}]
<1> DEFINE old == ReconfigurationAnnouncement(fd, v)
           pending == {f \in FundDeployers :
                         vaultProxyToReconfigurationRequest[f][v] # NoReconfiguration}
<1>1. /\ vaultProxyToReconfigurationRequest'[fd][v] = NoReconfiguration
      /\ \A f \in FundDeployers, w \in Vaults : f # fd \/ w # v =>
           vaultProxyToReconfigurationRequest'[f][w] = vaultProxyToReconfigurationRequest[f][w]
  BY DEF ControlInvariant, TypeOK
<1>2. MigrationAnnouncements(v)' = MigrationAnnouncements(v)
  BY DEF MigrationAnnouncements
<1>3. ReconfigurationAnnouncements(v) = {ReconfigurationAnnouncement(f, v) : f \in pending}
  BY AnnouncementsAre
<1>4. ReconfigurationAnnouncements(v)' =
        {ReconfigurationAnnouncement(f, v) : f \in pending \ {fd}}
  BY <1>1 DEF ReconfigurationAnnouncements, ReconfigurationAnnouncement
<1>5. fd \in pending /\ \A f \in pending \ {fd} : ReconfigurationAnnouncement(f, v) # old
  BY AnnouncementsDiffer
<1>6. old \notin MigrationAnnouncements(v)
  BY AnnouncementsAre, AnnouncementsDiffer
<1>7. /\ Announcements(v) = MigrationAnnouncements(v) \cup ReconfigurationAnnouncements(v)
      /\ Announcements(v)' = MigrationAnnouncements(v)' \cup ReconfigurationAnnouncements(v)'
  BY DEF Announcements, MigrationAnnouncements, ReconfigurationAnnouncements
<1>8. \A w \in Vaults \ {v} : Announcements(w)' = Announcements(w)
  BY <1>1 DEF Announcements
<1> HIDE DEF pending
<1>9. ReconfigurationAnnouncements(v)' = ReconfigurationAnnouncements(v) \ {old}
  BY <1>3, <1>4, <1>5
<1>10. old \in ReconfigurationAnnouncements(v)
  BY <1>3, <1>5
<1> HIDE DEF old
<1>11. Announcements(v)' = Announcements(v) \ {old} /\ old \in Announcements(v)
  BY <1>2, <1>6, <1>7, <1>9, <1>10
<1>12. AnnouncedIn' = [AnnouncedIn EXCEPT ![v] = @ \ {old}] /\ old \in AnnouncedIn[v]
  BY <1>8, <1>11, AnnouncementsExcept DEF AnnouncedIn
<1>13. QED
  BY <1>12 DEF old

\* What leaves mappedVars alone is a stutter of AccessorHandover.
LEMMA MappingUnchanged ==
  ASSUME UNCHANGED mappedVars
  PROVE  UNCHANGED Handover!vars
BY DEF mappedVars, Handover!vars, Announcements

\* A new fund is put under control (FundDeployer.createNewFund).
LEMMA RefineCreateNewFund ==
  ASSUME ControlInvariant,
         NEW fd \in FundDeployers, NEW v \in Vaults, NEW c \in Comptrollers,
         NEW who \in Accounts, CreateNewFund(fd, v, c, who)
  PROVE  Handover!Next
<1>1. accessor[v] = NoAddress /\ c \notin Spent
  BY DEF CreateNewFund, DeployComptroller, ControlInvariant, Deployed,
         RequestsWellFormed, Spent
<1>2. accessor' = [accessor EXCEPT ![v] = c]
  BY DEF CreateNewFund
<1>3. Spent' = Spent \cup {c}
  BY DEF CreateNewFund, DeployComptroller, ControlInvariant, TypeOK, Spent
<1>4. UNCHANGED <<now, AnnouncedIn, InForce>>
  BY DEF CreateNewFund, AnnouncedIn, Announcements, InForce, deployerVars
<1>5. Handover!Found(v, c)
  BY <1>1, <1>2, <1>3, <1>4 DEF Handover!Found, Spent, AnnouncedIn, InForce
<1>6. QED
  BY <1>5 DEF Handover!Next

\* A migration request is announced (Dispatcher.signalMigration).
LEMMA RefineCreateMigrationRequest ==
  ASSUME ControlInvariant,
         NEW fd \in FundDeployers, NEW v \in Vaults, NEW c \in Comptrollers,
         NEW who \in Accounts, CreateMigrationRequest(fd, v, c, who)
  PROVE  Handover!Next
<1> DEFINE r == [nextFundDeployer |-> fd, nextVaultAccessor |-> c,
                 executableTimestamp |-> now + migrationTimelock]
           a == [next |-> c, from |-> now + migrationTimelock]
<1>1. accessor[v] # NoAddress /\ c \notin Spent
  BY AddressAssumption
     DEF CreateMigrationRequest, SignalMigration, DeployComptroller,
         ControlInvariant, AccessorInForce, Deployed, Spent
<1>2. Spent' = Spent \cup {c}
  BY DEF CreateMigrationRequest, DeployComptroller, ControlInvariant, TypeOK, Spent
<1>3. UNCHANGED <<now, accessor, InForce>>
  BY DEF CreateMigrationRequest, InForce, deployerVars, vaultVars
<1>4. AnnouncedIn' = [AnnouncedIn EXCEPT ![v] = @ \cup {a}]
  <2>1. vaultProxyToMigrationRequest[v] = NoMigration
    BY DEF CreateMigrationRequest, ControlInvariant, RequestsWellFormed
  <2>2. r # NoMigration
    BY AddressAssumption DEF NoMigration
  <2>3. /\ vaultProxyToMigrationRequest' = [vaultProxyToMigrationRequest EXCEPT ![v] = r]
        /\ UNCHANGED vaultProxyToReconfigurationRequest
        /\ vaultProxyToMigrationRequest \in [Vaults -> MigrationRequest]
    BY DEF CreateMigrationRequest, SignalMigration, deployerVars, ControlInvariant, TypeOK
  <2>4. r.nextVaultAccessor = c /\ r.executableTimestamp = now + migrationTimelock
    OBVIOUS
  <2> HIDE DEF r
  <2>5. QED
    BY <2>1, <2>2, <2>3, <2>4, MigrationAdded
<1> HIDE DEF r
<1>5. PICK notice \in Timelocks : notice = migrationTimelock
  BY DEF ControlInvariant, TypeOK
<1>6. notice \in InForce
  BY <1>5 DEF InForce
<1>7. Handover!Announce(v, c, notice)
  BY <1>1, <1>2, <1>3, <1>4, <1>5 DEF Handover!Announce, Spent, AnnouncedIn, InForce
<1>8. QED
  BY <1>6, <1>7 DEF Handover!Next, InForce

\* A reconfiguration request is announced
\* (FundDeployer.createReconfigurationRequest).
LEMMA RefineCreateReconfigurationRequest ==
  ASSUME ControlInvariant,
         NEW fd \in FundDeployers, NEW v \in Vaults, NEW c \in Comptrollers,
         NEW who \in Accounts, CreateReconfigurationRequest(fd, v, c, who)
  PROVE  Handover!Next
<1> DEFINE r == [nextComptrollerProxy |-> c,
                 executableTimestamp |-> now + reconfigurationTimelock[fd]]
           a == [next |-> c, from |-> now + reconfigurationTimelock[fd]]
<1>1. accessor[v] # NoAddress /\ c \notin Spent
  BY AddressAssumption
     DEF CreateReconfigurationRequest, DeployComptroller, ControlInvariant,
         AccessorInForce, Deployed, Spent
<1>2. Spent' = Spent \cup {c}
  BY DEF CreateReconfigurationRequest, DeployComptroller, ControlInvariant, TypeOK, Spent
<1>3. UNCHANGED <<now, accessor, InForce>>
  BY DEF CreateReconfigurationRequest, InForce, dispatcherVars, vaultVars
<1>4. AnnouncedIn' = [AnnouncedIn EXCEPT ![v] = @ \cup {a}]
  <2>1. vaultProxyToReconfigurationRequest[fd][v] = NoReconfiguration
    BY DEF CreateReconfigurationRequest, ControlInvariant, RequestsWellFormed
  <2>2. r # NoReconfiguration
    BY AddressAssumption DEF NoReconfiguration
  <2>3. /\ vaultProxyToReconfigurationRequest' =
             [vaultProxyToReconfigurationRequest EXCEPT ![fd][v] = r]
        /\ UNCHANGED vaultProxyToMigrationRequest
        /\ vaultProxyToReconfigurationRequest \in
             [FundDeployers -> [Vaults -> ReconfigurationRequest]]
    BY DEF CreateReconfigurationRequest, dispatcherVars, ControlInvariant, TypeOK
  <2>4. /\ r.nextComptrollerProxy = c
        /\ r.executableTimestamp = now + reconfigurationTimelock[fd]
    OBVIOUS
  <2> HIDE DEF r
  <2>5. QED
    BY <2>1, <2>2, <2>3, <2>4, ReconfigurationAdded
<1> HIDE DEF r
<1>5. PICK notice \in Timelocks : notice = reconfigurationTimelock[fd]
  BY DEF ControlInvariant, TypeOK
<1>6. notice \in InForce
  BY <1>5 DEF InForce
<1>7. Handover!Announce(v, c, notice)
  BY <1>1, <1>2, <1>3, <1>4, <1>5 DEF Handover!Announce, Spent, AnnouncedIn, InForce
<1>8. QED
  BY <1>6, <1>7 DEF Handover!Next, InForce

\* A cancelled migration is withdrawn (Dispatcher.cancelMigration).
LEMMA RefineCancelMigration ==
  ASSUME ControlInvariant,
         NEW v \in Vaults, NEW sender, NEW ok \in BOOLEAN, NEW bypass \in BOOLEAN,
         CancelMigration(v, sender, ok, bypass)
  PROVE  Handover!Next
<1> DEFINE a == MigrationAnnouncement(v)
<1>1. vaultProxyToMigrationRequest[v] # NoMigration
  BY DEF CancelMigration, CanCancelMigration, NoMigration
<1>2. a \in AnnouncedIn[v] /\ AnnouncedIn' = [AnnouncedIn EXCEPT ![v] = @ \ {a}]
  BY <1>1, MigrationRemoved DEF CancelMigration, DeleteMigrationRequest, deployerVars
<1>3. Spent' = Spent
  BY DEF CancelMigration, CanCancelMigration, Answers, ControlInvariant, TypeOK, Spent
<1>4. UNCHANGED <<now, accessor, InForce>>
  BY DEF CancelMigration, InForce, deployerVars, vaultVars
<1> HIDE DEF a
<1>5. Handover!Withdraw(v, a) /\ a \in Announcements(v)
  BY <1>2, <1>3, <1>4 DEF Handover!Withdraw, Spent, AnnouncedIn, InForce
<1>6. QED
  BY <1>5 DEF Handover!Next

\* A cancelled reconfiguration is withdrawn (FundDeployer.cancelReconfiguration).
LEMMA RefineCancelReconfiguration ==
  ASSUME ControlInvariant,
         NEW fd \in FundDeployers, NEW v \in Vaults, NEW who \in Accounts,
         CancelReconfiguration(fd, v, who)
  PROVE  Handover!Next
<1> DEFINE a == ReconfigurationAnnouncement(fd, v)
<1>1. vaultProxyToReconfigurationRequest[fd][v] # NoReconfiguration
  BY DEF CancelReconfiguration, CanCancelReconfiguration, NoReconfiguration
<1>2. a \in AnnouncedIn[v] /\ AnnouncedIn' = [AnnouncedIn EXCEPT ![v] = @ \ {a}]
  BY <1>1, ReconfigurationRemoved
     DEF CancelReconfiguration, DeleteReconfigurationRequest, dispatcherVars
<1>3. Spent' = Spent
  BY DEF CancelReconfiguration, CanCancelReconfiguration, Answers, ControlInvariant, TypeOK, Spent
<1>4. UNCHANGED <<now, accessor, InForce>>
  BY DEF CancelReconfiguration, InForce, dispatcherVars, vaultVars
<1> HIDE DEF a
<1>5. Handover!Withdraw(v, a) /\ a \in Announcements(v)
  BY <1>2, <1>3, <1>4 DEF Handover!Withdraw, Spent, AnnouncedIn, InForce
<1>6. QED
  BY <1>5 DEF Handover!Next

\* Activating and destroying spends nobody new.
LEMMA SuccessionSpends ==
  ASSUME TypeOK, NEW prev, NEW next, NEW destroys \in BOOLEAN,
         Succession(prev, next, destroys),
         prev \in Comptrollers => prev \in Spent, next \in Spent
  PROVE  Spent' = Spent
BY DEF Succession, TypeOK, Spent

\* An executed migration hands the fund over (Dispatcher.executeMigration).
LEMMA RefineExecuteMigration ==
  ASSUME ControlInvariant,
         NEW fd \in FundDeployers, NEW v \in Vaults, NEW who \in Accounts,
         NEW ok \in BOOLEAN, NEW bypass \in BOOLEAN, NEW paid \in BOOLEAN,
         ExecuteMigration(fd, v, who, ok, bypass, paid)
  PROVE  Handover!Next
<1> DEFINE a == MigrationAnnouncement(v)
<1>1. vaultProxyToMigrationRequest[v] # NoMigration
  <2>1. vaultProxyToMigrationRequest[v].nextFundDeployer # NoAddress
    BY DEF ExecuteMigration
  <2>2. QED
    BY <2>1 DEF NoMigration
<1>2. a \in AnnouncedIn[v] /\ AnnouncedIn' = [AnnouncedIn EXCEPT ![v] = @ \ {a}]
  BY <1>1, MigrationRemoved DEF ExecuteMigration, DeleteMigrationRequest, deployerVars
<1>3. Spent' = Spent
  <2>1. HasMigrationRequest(v) /\ Deployed(v)
    BY AddressAssumption
       DEF ExecuteMigration, ControlInvariant, MigrationRequestsConsistent
  <2>2. accessor[v] \in Spent
    BY <2>1 DEF ControlInvariant, AccessorInForce, Spent
  <2>3. vaultProxyToMigrationRequest[v].nextVaultAccessor \in Spent
    BY <2>1 DEF ControlInvariant, RequestsAreExecutable, Spent
  <2>4. Succession(accessor[v], vaultProxyToMigrationRequest[v].nextVaultAccessor, ok)
    BY DEF ExecuteMigration
  <2>5. QED
    BY <2>2, <2>3, <2>4, SuccessionSpends DEF ControlInvariant
<1>4. /\ accessor' = [accessor EXCEPT ![v] = a.next]
      /\ now >= a.from
      /\ UNCHANGED <<now, InForce>>
  BY DEF ExecuteMigration, MigrationAnnouncement, InForce, deployerVars
<1> HIDE DEF a
<1>5. Handover!HandOver(v, a) /\ a \in Announcements(v)
  BY <1>2, <1>3, <1>4 DEF Handover!HandOver, Spent, AnnouncedIn, InForce
<1>6. QED
  BY <1>5 DEF Handover!Next

\* An executed reconfiguration hands the fund over
\* (FundDeployer.executeReconfiguration).
LEMMA RefineExecuteReconfiguration ==
  ASSUME ControlInvariant,
         NEW fd \in FundDeployers, NEW v \in Vaults, NEW who \in Accounts,
         NEW paid \in BOOLEAN, ExecuteReconfiguration(fd, v, who, paid)
  PROVE  Handover!Next
<1> DEFINE a == ReconfigurationAnnouncement(fd, v)
           next == vaultProxyToReconfigurationRequest[fd][v].nextComptrollerProxy
<1>1. vaultProxyToReconfigurationRequest[fd][v] # NoReconfiguration
  BY DEF ExecuteReconfiguration, NoReconfiguration
<1>2. a \in AnnouncedIn[v] /\ AnnouncedIn' = [AnnouncedIn EXCEPT ![v] = @ \ {a}]
  BY <1>1, ReconfigurationRemoved
     DEF ExecuteReconfiguration, DeleteReconfigurationRequest, dispatcherVars
<1>3. Spent' = Spent
  <2>1. HasReconfigurationRequest(fd, v)
    BY DEF ExecuteReconfiguration, HasReconfigurationRequest
  <2>2. accessor[v] \in Comptrollers => accessor[v] \in Spent
    BY DEF ExecuteReconfiguration, Answers, Spent
  <2>3. next \in Comptrollers /\ next \in Spent
    <3>1. next \in Comptrollers \cup {NoAddress}
      BY DEF ControlInvariant, TypeOK, ReconfigurationRequest
    <3>2. QED
      BY <2>1, <3>1
         DEF ControlInvariant, RequestsAreExecutable, HasReconfigurationRequest, Spent
  <2>4. Succession(accessor[v], next, TRUE)
    BY DEF ExecuteReconfiguration
  <2> HIDE DEF next
  <2>5. QED
    BY <2>2, <2>3, <2>4, SuccessionSpends DEF ControlInvariant
<1>4. /\ accessor' = [accessor EXCEPT ![v] = a.next]
      /\ now >= a.from
      /\ UNCHANGED <<now, InForce>>
  BY DEF ExecuteReconfiguration, ReconfigurationAnnouncement, InForce, dispatcherVars
<1> HIDE DEF a
<1>5. Handover!HandOver(v, a) /\ a \in Announcements(v)
  BY <1>2, <1>3, <1>4 DEF Handover!HandOver, Spent, AnnouncedIn, InForce
<1>6. QED
  BY <1>5 DEF Handover!Next

\* The governance's timelocks are the notice periods in force.
LEMMA RefineTimelocks ==
  ASSUME ControlInvariant', UNCHANGED <<now, AnnouncedIn, Spent, accessor>>
  PROVE  Handover!Next
<1>1. InForce' \subseteq Timelocks
  BY DEF InForce, ControlInvariant, TypeOK
<1>2. Handover!Govern
  BY <1>1 DEF Handover!Govern, InForce, AnnouncedIn, Spent
<1>3. QED
  BY <1>2 DEF Handover!Next

\* Every step of FundLifecycle is a step of AccessorHandover or leaves its
\* variables alone.
LEMMA RefineStep ==
  ASSUME ControlInvariant, ControlInvariant', [Next]_vars
  PROVE  Handover!Next \/ UNCHANGED Handover!vars
<1> DEFINE Goal == Handover!Next \/ UNCHANGED Handover!vars
<1>1. ASSUME Governance PROVE Goal
  <2>1. ASSUME NEW fd \in FundDeployers,
               \/ SetCurrentFundDeployer(fd)
               \/ SetReleaseLive(fd)
               \/ \E v \in Vaults, t \in LastPaidTimes : SetLastPaidForVault(fd, v, t)
        PROVE  UNCHANGED mappedVars
    BY <2>1 DEF SetCurrentFundDeployer, SetReleaseLive, SetLastPaidForVault, mappedVars,
                dispatcherVars, deployerVars, vaultVars, comptrollerVars
  <2>2. ASSUME \/ \E fd \in FundDeployers, t \in Timelocks : SetReconfigurationTimelock(fd, t)
               \/ \E t \in Timelocks : SetMigrationTimelock(t)
        PROVE  UNCHANGED <<now, AnnouncedIn, Spent, accessor>>
    BY <2>2 DEF SetReconfigurationTimelock, SetMigrationTimelock, AnnouncedIn, Announcements,
                Spent, dispatcherVars, deployerVars, vaultVars, comptrollerVars
  <2>3. QED
    BY <1>1, <2>1, <2>2, RefineTimelocks, MappingUnchanged DEF Governance
<1>2. ASSUME Roles PROVE Goal
  <2>1. UNCHANGED mappedVars
    BY <1>2 DEF Roles, SetMigrator, SetNominatedOwner, RemoveNominatedOwner, ClaimOwnership,
                mappedVars, dispatcherVars, deployerVars, vaultVars, comptrollerVars
  <2>2. QED
    BY <2>1, MappingUnchanged
<1>3. ASSUME Migration PROVE Goal
  BY <1>3, RefineCancelMigration, RefineExecuteMigration, RefineCreateNewFund,
     RefineCreateMigrationRequest
     DEF Migration, CancelMigrationViaFundDeployer
<1>4. ASSUME Reconfiguration PROVE Goal
  BY <1>4, RefineCreateReconfigurationRequest, RefineCancelReconfiguration,
     RefineExecuteReconfiguration
     DEF Reconfiguration
<1>5. ASSUME NEW v \in Vaults, PayProtocolFee(v) PROVE Goal
  <2>1. UNCHANGED mappedVars
    BY <1>5 DEF PayProtocolFee, mappedVars, dispatcherVars, deployerVars, vaultVars,
                comptrollerVars
  <2>2. QED
    BY <2>1, MappingUnchanged
<1>6. ASSUME Tick PROVE Goal
  <2>1. now \in Nat /\ now' = now + 1 /\ UNCHANGED <<accessor, AnnouncedIn, InForce, Spent>>
    BY <1>6 DEF Tick, ControlInvariant, TypeOK, Time, AnnouncedIn, Announcements, InForce,
                Spent, dispatcherVars, deployerVars, vaultVars, comptrollerVars
  <2>2. now' \in Nat /\ now' > now
    BY <2>1
  <2>3. Handover!Tick
    BY <2>1, <2>2 DEF Handover!Tick, AnnouncedIn, InForce, Spent
  <2>4. QED
    BY <2>3 DEF Handover!Next
<1>7. ASSUME UNCHANGED vars PROVE Goal
  <2>1. UNCHANGED mappedVars
    BY <1>7 DEF vars, mappedVars, dispatcherVars, deployerVars, vaultVars, comptrollerVars
  <2>2. QED
    BY <2>1, MappingUnchanged
<1>8. QED
  BY <1>1, <1>2, <1>3, <1>4, <1>5, <1>6, <1>7 DEF Next

\* Both begin with no fund deployed.
LEMMA RefineInit == Init => Handover!Init
<1> SUFFICES ASSUME Init PROVE Handover!Init
  OBVIOUS
<1>1. now \in Nat /\ accessor = [v \in Vaults |-> NoAddress]
  BY DEF Init
<1>2. \A v \in Vaults : Announcements(v) = {}
  BY DEF Init, Announcements
<1>3. InForce \subseteq Timelocks
  BY TimelocksAssumption DEF Init, InForce
<1>4. Spent = {}
  BY DEF Init, Spent
<1>5. QED
  BY <1>1, <1>2, <1>3, <1>4 DEF Handover!Init, InForce, Spent

\* FundLifecycle implements AccessorHandover: control of a fund moves only to
\* a ComptrollerProxy that was announced, with the notice then in force, was not
\* called off since, and was never named before
\* (Dispatcher.executeMigration, FundDeployer.executeReconfiguration).
THEOREM LifecycleImplementsHandover == Spec => AccessorHandoverSpec
<1>1. ControlInvariant /\ ControlInvariant' /\ [Next]_vars =>
        [Handover!Next]_(Handover!vars)
  BY RefineStep
<1>2. QED
  BY <1>1, RefineInit, ControlCorrect, PTL DEF Spec, AccessorHandoverSpec, Handover!Spec
==============================================================================
