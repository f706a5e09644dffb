---------------------------- MODULE FundLifecycle ----------------------------
(***************************************************************************)
(* The life of funds across releases: the persistent Dispatcher, the       *)
(* FundDeployer of every release, the VaultProxy's access-control state,   *)
(* the existence of ComptrollerProxies, and the clock of each release's    *)
(* ProtocolFeeTracker.                                                     *)
(*                                                                         *)
(* One action is one transaction: the EVM runs it to its end or reverts    *)
(* it.  What interleaves are transactions of different accounts, and the   *)
(* passing of block.timestamp between them.  Addresses are atoms; a        *)
(* release is named by its FundDeployer, which stands for the release's    *)
(* VaultLib and ProtocolFeeTracker too (each FundDeployer has one of each, *)
(* settable once).  The shares that the handlers move are in FeeCustody.   *)
(***************************************************************************)
EXTENDS Naturals

CONSTANTS
  FundDeployers,  \* the FundDeployer contracts, one per release
  Vaults,         \* the VaultProxies, deployed or to be deployed
  Comptrollers,   \* the ComptrollerProxies, deployed or to be deployed
  Accounts,       \* externally owned accounts
  NoAddress,      \* address(0)
  Timelocks,      \* the values the governance may give to a timelock
  TwoDays,        \* the timelock that the constructors set
  LastPaidTimes,  \* the times the governance may set a fee clock to
  MaxTime         \* bound on block.timestamp

ASSUME AddressAssumption ==
  NoAddress \notin FundDeployers \cup Vaults \cup Comptrollers \cup Accounts
ASSUME TimelocksAssumption == Timelocks \subseteq Nat /\ TwoDays \in Timelocks
ASSUME MaxTimeAssumption == MaxTime \in Nat \ {0}
ASSUME LastPaidTimesAssumption == LastPaidTimes \subseteq 1..MaxTime

VARIABLES
  now,                                \* block.timestamp
  \* Dispatcher
  currentFundDeployer,
  migrationTimelock,
  vaultProxyToFundDeployer,
  vaultProxyToMigrationRequest,
  \* FundDeployer, one of each per release
  isLive,
  reconfigurationTimelock,
  vaultProxyToReconfigurationRequest,
  \* VaultProxy
  accessor,
  vaultLib,                           \* the release whose VaultLib it runs
  owner,
  nominatedOwner,
  migrator,
  \* ComptrollerProxy
  status,                             \* does it exist, and was it activated
  vaultProxy,                         \* the VaultProxy it was bound to
  release,                            \* its FUND_DEPLOYER
  \* ProtocolFeeTracker, one per release
  vaultProxyToLastPaid,
  \* History: the accessors that a failed PreMigrate hook left undestroyed,
  \* and up to when a vault was charged the protocol fee.
  undestructed,
  chargedUntil

dispatcherVars == <<currentFundDeployer, migrationTimelock,
                    vaultProxyToFundDeployer, vaultProxyToMigrationRequest>>
deployerVars == <<isLive, reconfigurationTimelock,
                  vaultProxyToReconfigurationRequest>>
rolesVars == <<owner, nominatedOwner, migrator>>
vaultVars == <<accessor, vaultLib>>
comptrollerVars == <<status, vaultProxy, release>>
feeVars == <<vaultProxyToLastPaid, chargedUntil>>
vars == <<now, dispatcherVars, deployerVars, rolesVars, vaultVars,
          comptrollerVars, feeVars, undestructed>>

Time == 1..MaxTime

\* Solidity's default value of a mapping entry: no request.
NoMigration == [nextFundDeployer |-> NoAddress,
                nextVaultAccessor |-> NoAddress,
                executableTimestamp |-> 0]
NoReconfiguration == [nextComptrollerProxy |-> NoAddress,
                      executableTimestamp |-> 0]

MigrationRequest ==
  [nextFundDeployer : FundDeployers \cup {NoAddress},
   nextVaultAccessor : Comptrollers \cup {NoAddress},
   executableTimestamp : Nat]
ReconfigurationRequest ==
  [nextComptrollerProxy : Comptrollers \cup {NoAddress},
   executableTimestamp : Nat]

\* A ComptrollerProxy is an unused address, then configured (deployed with
\* its extensions), active once activate() ran, destroyed by selfdestruct.
Statuses == {"unused", "configured", "active", "destroyed"}

TypeOK ==
  /\ now \in Time
  /\ currentFundDeployer \in FundDeployers \cup {NoAddress}
  /\ migrationTimelock \in Timelocks
  /\ vaultProxyToFundDeployer \in [Vaults -> FundDeployers \cup {NoAddress}]
  /\ vaultProxyToMigrationRequest \in [Vaults -> MigrationRequest]
  /\ isLive \in [FundDeployers -> BOOLEAN]
  /\ reconfigurationTimelock \in [FundDeployers -> Timelocks]
  /\ vaultProxyToReconfigurationRequest \in
       [FundDeployers -> [Vaults -> ReconfigurationRequest]]
  /\ accessor \in [Vaults -> Comptrollers \cup {NoAddress}]
  /\ vaultLib \in [Vaults -> FundDeployers \cup {NoAddress}]
  /\ owner \in [Vaults -> Accounts \cup {NoAddress}]
  /\ nominatedOwner \in [Vaults -> Accounts \cup {NoAddress}]
  /\ migrator \in [Vaults -> Accounts \cup {NoAddress}]
  /\ status \in [Comptrollers -> Statuses]
  /\ vaultProxy \in [Comptrollers -> Vaults \cup {NoAddress}]
  /\ release \in [Comptrollers -> FundDeployers \cup {NoAddress}]
  /\ vaultProxyToLastPaid \in [FundDeployers -> [Vaults -> 0..MaxTime]]
  /\ chargedUntil \in [Vaults -> 0..MaxTime]
  /\ undestructed \subseteq Comptrollers \cup {NoAddress}

Init ==
  /\ now = 1
  /\ currentFundDeployer = NoAddress
  /\ migrationTimelock = TwoDays
  /\ vaultProxyToFundDeployer = [v \in Vaults |-> NoAddress]
  /\ vaultProxyToMigrationRequest = [v \in Vaults |-> NoMigration]
  /\ isLive = [fd \in FundDeployers |-> FALSE]
  /\ reconfigurationTimelock = [fd \in FundDeployers |-> TwoDays]
  /\ vaultProxyToReconfigurationRequest =
       [fd \in FundDeployers |-> [v \in Vaults |-> NoReconfiguration]]
  /\ accessor = [v \in Vaults |-> NoAddress]
  /\ vaultLib = [v \in Vaults |-> NoAddress]
  /\ owner = [v \in Vaults |-> NoAddress]
  /\ nominatedOwner = [v \in Vaults |-> NoAddress]
  /\ migrator = [v \in Vaults |-> NoAddress]
  /\ status = [c \in Comptrollers |-> "unused"]
  /\ vaultProxy = [c \in Comptrollers |-> NoAddress]
  /\ release = [c \in Comptrollers |-> NoAddress]
  /\ vaultProxyToLastPaid = [fd \in FundDeployers |-> [v \in Vaults |-> 0]]
  /\ chargedUntil = [v \in Vaults |-> 0]
  /\ undestructed = {}

-----------------------------------------------------------------------------
(* What the handlers look up. *)

CanMigrate(v, who) == who = owner[v] \/ who = migrator[v]

HasReconfigurationRequest(fd, v) ==
  vaultProxyToReconfigurationRequest[fd][v].nextComptrollerProxy # NoAddress

HasMigrationRequest(v) ==
  vaultProxyToMigrationRequest[v].executableTimestamp > 0

\* A call reaches a ComptrollerProxy only while it has code, and its
\* onlyFundDeployer functions answer the FundDeployer of its release only.
Answers(c, fd) ==
  /\ status[c] \in {"configured", "active"}
  /\ release[c] = fd

-----------------------------------------------------------------------------
(* The governance (the owner of the Dispatcher, the creator of a release). *)

SetCurrentFundDeployer(fd) ==
  /\ fd # currentFundDeployer
  /\ currentFundDeployer' = fd
  /\ UNCHANGED <<now, migrationTimelock, vaultProxyToFundDeployer,
                 vaultProxyToMigrationRequest, deployerVars, rolesVars,
                 vaultVars, comptrollerVars, feeVars, undestructed>>

SetMigrationTimelock(t) ==
  /\ t # migrationTimelock
  /\ migrationTimelock' = t
  /\ UNCHANGED <<now, currentFundDeployer, vaultProxyToFundDeployer,
                 vaultProxyToMigrationRequest, deployerVars, rolesVars,
                 vaultVars, comptrollerVars, feeVars, undestructed>>

SetReleaseLive(fd) ==
  /\ ~isLive[fd]
  /\ isLive' = [isLive EXCEPT ![fd] = TRUE]
  /\ UNCHANGED <<now, dispatcherVars, reconfigurationTimelock,
                 vaultProxyToReconfigurationRequest, rolesVars, vaultVars,
                 comptrollerVars, feeVars, undestructed>>

SetReconfigurationTimelock(fd, t) ==
  /\ reconfigurationTimelock' = [reconfigurationTimelock EXCEPT ![fd] = t]
  /\ UNCHANGED <<now, dispatcherVars, isLive,
                 vaultProxyToReconfigurationRequest, rolesVars, vaultVars,
                 comptrollerVars, feeVars, undestructed>>

\* The protocol may forgive a fee, or suspend it until a future time.
SetLastPaidForVault(fd, v, t) ==
  /\ vaultProxyToLastPaid[fd][v] > 0
  /\ t > vaultProxyToLastPaid[fd][v] \/ t > now
  /\ vaultProxyToLastPaid' = [vaultProxyToLastPaid EXCEPT ![fd][v] = t]
  /\ UNCHANGED <<now, dispatcherVars, deployerVars, rolesVars, vaultVars,
                 comptrollerVars, chargedUntil, undestructed>>

-----------------------------------------------------------------------------
(* Roles on a VaultProxy. *)

SetMigrator(v, who, next) ==
  /\ who = owner[v]
  /\ next # migrator[v]
  /\ migrator' = [migrator EXCEPT ![v] = next]
  /\ UNCHANGED <<now, dispatcherVars, deployerVars, owner, nominatedOwner,
                 vaultVars, comptrollerVars, feeVars, undestructed>>

SetNominatedOwner(v, who, next) ==
  /\ who = owner[v]
  /\ next # owner[v]
  /\ next # nominatedOwner[v]
  /\ nominatedOwner' = [nominatedOwner EXCEPT ![v] = next]
  /\ UNCHANGED <<now, dispatcherVars, deployerVars, owner, migrator,
                 vaultVars, comptrollerVars, feeVars, undestructed>>

RemoveNominatedOwner(v, who) ==
  /\ who = owner[v]
  /\ nominatedOwner[v] # NoAddress
  /\ nominatedOwner' = [nominatedOwner EXCEPT ![v] = NoAddress]
  /\ UNCHANGED <<now, dispatcherVars, deployerVars, owner, migrator,
                 vaultVars, comptrollerVars, feeVars, undestructed>>

ClaimOwnership(v, who) ==
  /\ who = nominatedOwner[v]
  /\ nominatedOwner' = [nominatedOwner EXCEPT ![v] = NoAddress]
  /\ owner' = [owner EXCEPT ![v] = who]
  /\ UNCHANGED <<now, dispatcherVars, deployerVars, migrator, vaultVars,
                 comptrollerVars, feeVars, undestructed>>

-----------------------------------------------------------------------------
(* Deploying ComptrollerProxies. *)

\* A fresh ComptrollerProxy of release fd, bound to v: the new values of
\* vaultProxy and release.  Its extensions are configured with it.
DeployComptroller(c, fd, v) ==
  /\ status[c] = "unused"
  /\ vaultProxy' = [vaultProxy EXCEPT ![c] = v]
  /\ release' = [release EXCEPT ![c] = fd]

\* ProtocolFeeTracker.initializeForVault: the clock of release fd starts,
\* or starts again if the vault has been on that release before.
\* [Mutant: it starts only once.]
InitializeForVaultOnce(fd, v, clock) ==
  IF clock[fd][v] > 0 THEN clock ELSE [clock EXCEPT ![fd][v] = now]
InitializeForVault(fd, v, clock) == [clock EXCEPT ![fd][v] = now]

\* FundDeployer.createNewFund, with Dispatcher.deployVaultProxy in it.
CreateNewFund(fd, v, c, fundOwner) ==
  /\ isLive[fd]
  /\ fd = currentFundDeployer
  /\ vaultProxyToFundDeployer[v] = NoAddress
  /\ DeployComptroller(c, fd, v)
  /\ vaultProxyToFundDeployer' = [vaultProxyToFundDeployer EXCEPT ![v] = fd]
  /\ accessor' = [accessor EXCEPT ![v] = c]
  /\ vaultLib' = [vaultLib EXCEPT ![v] = fd]
  /\ owner' = [owner EXCEPT ![v] = fundOwner]
  /\ status' = [status EXCEPT ![c] = "active"]
  /\ vaultProxyToLastPaid' = InitializeForVault(fd, v, vaultProxyToLastPaid)
  /\ UNCHANGED <<now, currentFundDeployer, migrationTimelock,
                 vaultProxyToMigrationRequest, deployerVars, nominatedOwner,
                 migrator, chargedUntil, undestructed>>

-----------------------------------------------------------------------------
(* Migration to another release.                                           *)
(* Hooks are low-level calls: one that fails is reverted alone, and the    *)
(* transaction goes on only if the caller chose to bypass the failure.     *)
(* A hook of this code fails when the ComptrollerProxy it destroys does    *)
(* not answer; any release's hook may fail for want of gas.  The hooks     *)
(* PreSignal, PostSignal, PostCancel and PostMigrate return at once.       *)

\* [Mutant: the bypass has no effect.]
HookOutcomeStrict(succeeds, bypassFailure) == succeeds
HookOutcome(succeeds, bypassFailure) == succeeds \/ bypassFailure

\* [Mutant: the request outlives its execution or its cancellation.]
KeepMigrationRequest(v) == UNCHANGED vaultProxyToMigrationRequest
DeleteMigrationRequest(v) ==
  vaultProxyToMigrationRequest' =
    [vaultProxyToMigrationRequest EXCEPT ![v] = NoMigration]

\* The predecessor is destroyed, if its hook succeeds, and next activated.
\* [Mutant: the predecessor survives.]
SuccessionWithoutDestruction(prev, next, destroys) ==
  status' = [status EXCEPT ![next] = "active"]
Succession(prev, next, destroys) ==
  status' = [status EXCEPT ![prev] = IF destroys THEN "destroyed" ELSE @,
                           ![next] = "active"]

\* Dispatcher.signalMigration
\* [Mutant: the timelock is not added.]
SignalMigrationAtOnce(fd, v, c) ==
  /\ fd = currentFundDeployer
  /\ vaultProxyToFundDeployer[v] # NoAddress
  /\ fd # vaultProxyToFundDeployer[v]
  /\ vaultProxyToMigrationRequest' =
       [vaultProxyToMigrationRequest EXCEPT ![v] =
          [nextFundDeployer |-> fd,
           nextVaultAccessor |-> c,
           executableTimestamp |-> now]]
SignalMigration(fd, v, c) ==
  /\ fd = currentFundDeployer
  /\ vaultProxyToFundDeployer[v] # NoAddress
  /\ fd # vaultProxyToFundDeployer[v]
  /\ vaultProxyToMigrationRequest' =
       [vaultProxyToMigrationRequest EXCEPT ![v] =
          [nextFundDeployer |-> fd,
           nextVaultAccessor |-> c,
           executableTimestamp |-> now + migrationTimelock]]

\* FundDeployer.createMigrationRequest
CreateMigrationRequest(fd, v, c, who) ==
  /\ isLive[fd]
  /\ CanMigrate(v, who)
  /\ ~HasMigrationRequest(v)
  /\ DeployComptroller(c, fd, v)
  /\ SignalMigration(fd, v, c)
  /\ status' = [status EXCEPT ![c] = "configured"]
  /\ UNCHANGED <<now, currentFundDeployer, migrationTimelock,
                 vaultProxyToFundDeployer, deployerVars, rolesVars,
                 vaultVars, feeVars, undestructed>>

\* Dispatcher.cancelMigration, called by a migrator or by the next
\* FundDeployer on behalf of a migrator.  The MigrationInCancelHook destroys
\* the ComptrollerProxy that was to take over.
CanCancelMigration(v, sender, hookSucceeds, bypassFailure) ==
  LET request == vaultProxyToMigrationRequest[v]
  IN
  /\ request.nextFundDeployer # NoAddress
  /\ sender = request.nextFundDeployer \/ CanMigrate(v, sender)
  /\ hookSucceeds => Answers(request.nextVaultAccessor, request.nextFundDeployer)
  /\ HookOutcome(hookSucceeds, bypassFailure)

CancelMigration(v, sender, hookSucceeds, bypassFailure) ==
  LET next == vaultProxyToMigrationRequest[v].nextVaultAccessor
  IN
  /\ CanCancelMigration(v, sender, hookSucceeds, bypassFailure)
  /\ DeleteMigrationRequest(v)
  /\ status' = IF hookSucceeds
                 THEN [status EXCEPT ![next] = "destroyed"]
                 ELSE status
  /\ UNCHANGED <<now, currentFundDeployer, migrationTimelock,
                 vaultProxyToFundDeployer, deployerVars, rolesVars,
                 vaultVars, vaultProxy, release, feeVars, undestructed>>

\* FundDeployer.cancelMigration
CancelMigrationViaFundDeployer(fd, v, who, hookSucceeds, bypassFailure) ==
  /\ CanMigrate(v, who)
  /\ CancelMigration(v, fd, hookSucceeds, bypassFailure)

\* ProtocolFeeTracker.payFee, called by v through ComptrollerProxies of the
\* release whose VaultLib v runs: what it does to the clock, and the history
\* of what was charged.  lastPaid may lie in the future.
ClockAfterPayFee(fd, v) ==
  IF vaultProxyToLastPaid[fd][v] >= now
    THEN vaultProxyToLastPaid
    ELSE [vaultProxyToLastPaid EXCEPT ![fd][v] = now]

ChargedAfterPayFee(fd, v) ==
  IF vaultProxyToLastPaid[fd][v] >= now
    THEN chargedUntil
    ELSE [chargedUntil EXCEPT ![v] = now]

\* FundDeployer.executeMigration: Dispatcher.executeMigration with the
\* PreMigrate hook of the release left (destructActivated of the accessor in
\* force, which tries to pay the protocol fee), then activate and
\* initializeForVault on the release entered.
ExecuteMigration(fd, v, who, hookSucceeds, bypassFailure, feePaid) ==
  LET request == vaultProxyToMigrationRequest[v]
      prev == accessor[v]
      next == request.nextVaultAccessor
      left == vaultProxyToFundDeployer[v]
      pays == hookSucceeds /\ feePaid
  IN
  /\ CanMigrate(v, who)
  /\ request.nextFundDeployer # NoAddress
  /\ fd = request.nextFundDeployer
  /\ fd = currentFundDeployer
  /\ now >= request.executableTimestamp
  /\ hookSucceeds => Answers(prev, left)
  /\ HookOutcome(hookSucceeds, bypassFailure)
  /\ vaultLib' = [vaultLib EXCEPT ![v] = fd]
  /\ accessor' = [accessor EXCEPT ![v] = next]
  /\ vaultProxyToFundDeployer' = [vaultProxyToFundDeployer EXCEPT ![v] = fd]
  /\ DeleteMigrationRequest(v)
  /\ Answers(next, fd)
  /\ Succession(prev, next, hookSucceeds)
  /\ vaultProxyToLastPaid' =
       InitializeForVault(fd, v, IF pays THEN ClockAfterPayFee(vaultLib[v], v)
                                         ELSE vaultProxyToLastPaid)
  /\ chargedUntil' = IF pays THEN ChargedAfterPayFee(vaultLib[v], v)
                             ELSE chargedUntil
  /\ undestructed' = IF hookSucceeds THEN undestructed
                                     ELSE undestructed \cup {prev}
  /\ UNCHANGED <<now, currentFundDeployer, migrationTimelock, deployerVars,
                 rolesVars, vaultProxy, release>>

-----------------------------------------------------------------------------
(* Reconfiguration: migration within a release. *)

\* [Mutant: the request outlives its execution or its cancellation.]
KeepReconfigurationRequest(fd, v) ==
  UNCHANGED vaultProxyToReconfigurationRequest
DeleteReconfigurationRequest(fd, v) ==
  vaultProxyToReconfigurationRequest' =
    [vaultProxyToReconfigurationRequest EXCEPT ![fd][v] = NoReconfiguration]

CreateReconfigurationRequest(fd, v, c, who) ==
  /\ CanMigrate(v, who)
  /\ vaultProxyToFundDeployer[v] = fd
  /\ ~HasReconfigurationRequest(fd, v)
  /\ DeployComptroller(c, fd, v)
  /\ vaultProxyToReconfigurationRequest' =
       [vaultProxyToReconfigurationRequest EXCEPT ![fd][v] =
          [nextComptrollerProxy |-> c,
           executableTimestamp |-> now + reconfigurationTimelock[fd]]]
  /\ status' = [status EXCEPT ![c] = "configured"]
  /\ UNCHANGED <<now, dispatcherVars, isLive, reconfigurationTimelock,
                 rolesVars, vaultVars, feeVars, undestructed>>

CanCancelReconfiguration(fd, v, who) ==
  LET next == vaultProxyToReconfigurationRequest[fd][v].nextComptrollerProxy
  IN  CanMigrate(v, who) /\ next # NoAddress /\ Answers(next, fd)

CancelReconfiguration(fd, v, who) ==
  LET next == vaultProxyToReconfigurationRequest[fd][v].nextComptrollerProxy
  IN
  /\ CanCancelReconfiguration(fd, v, who)
  /\ status' = [status EXCEPT ![next] = "destroyed"]
  /\ DeleteReconfigurationRequest(fd, v)
  /\ UNCHANGED <<now, dispatcherVars, isLive, reconfigurationTimelock,
                 rolesVars, vaultVars, vaultProxy, release, feeVars,
                 undestructed>>

\* The accessor in force is read when the request is executed, not when it
\* was made: migrations and other events may have come in between.
ExecuteReconfiguration(fd, v, who, feePaid) ==
  LET request == vaultProxyToReconfigurationRequest[fd][v]
      prev == accessor[v]
      next == request.nextComptrollerProxy
  IN
  /\ CanMigrate(v, who)
  /\ next # NoAddress
  /\ now >= request.executableTimestamp
  /\ vaultProxyToFundDeployer[v] = fd
  /\ Answers(prev, fd)
  /\ fd = vaultLib[v]          \* VaultLib.setAccessorForFundReconfiguration
  /\ accessor' = [accessor EXCEPT ![v] = next]
  /\ Answers(next, fd)
  /\ Succession(prev, next, TRUE)
  /\ vaultProxyToLastPaid' =
       IF feePaid THEN ClockAfterPayFee(fd, v) ELSE vaultProxyToLastPaid
  /\ chargedUntil' = IF feePaid THEN ChargedAfterPayFee(fd, v)
                                ELSE chargedUntil
  /\ DeleteReconfigurationRequest(fd, v)
  /\ UNCHANGED <<now, dispatcherVars, isLive, reconfigurationTimelock,
                 rolesVars, vaultLib, vaultProxy, release, undestructed>>

-----------------------------------------------------------------------------
\* Buying and redeeming shares pays the protocol fee (VaultLib.payProtocolFee,
\* onlyAccessor).
PayProtocolFee(v) ==
  /\ accessor[v] # NoAddress
  /\ status[accessor[v]] \in {"configured", "active"}
  /\ vaultProxyToLastPaid[vaultLib[v]][v] > 0
  /\ vaultProxyToLastPaid' = ClockAfterPayFee(vaultLib[v], v)
  /\ chargedUntil' = ChargedAfterPayFee(vaultLib[v], v)
  /\ UNCHANGED <<now, dispatcherVars, deployerVars, rolesVars, vaultVars,
                 comptrollerVars, undestructed>>

Tick ==
  /\ now < MaxTime
  /\ now' = now + 1
  /\ UNCHANGED <<dispatcherVars, deployerVars, rolesVars, vaultVars,
                 comptrollerVars, feeVars, undestructed>>

Governance ==
  \/ \E fd \in FundDeployers :
       \/ SetCurrentFundDeployer(fd)
       \/ SetReleaseLive(fd)
       \/ \E t \in Timelocks : SetReconfigurationTimelock(fd, t)
       \/ \E v \in Vaults, t \in LastPaidTimes : SetLastPaidForVault(fd, v, t)
  \/ \E t \in Timelocks : SetMigrationTimelock(t)

Roles ==
  \E v \in Vaults, who \in Accounts :
    \/ \E next \in Accounts \cup {NoAddress} : SetMigrator(v, who, next)
    \/ \E next \in Accounts : SetNominatedOwner(v, who, next)
    \/ RemoveNominatedOwner(v, who)
    \/ ClaimOwnership(v, who)

Migration ==
  \E v \in Vaults, who \in Accounts :
    \/ \E hookSucceeds, bypassFailure \in BOOLEAN :
         \/ CancelMigration(v, who, hookSucceeds, bypassFailure)
         \/ \E fd \in FundDeployers :
              \/ CancelMigrationViaFundDeployer(fd, v, who, hookSucceeds,
                                                bypassFailure)
              \/ \E feePaid \in BOOLEAN :
                   ExecuteMigration(fd, v, who, hookSucceeds, bypassFailure,
                                    feePaid)
    \/ \E fd \in FundDeployers, c \in Comptrollers :
         \/ CreateNewFund(fd, v, c, who)
         \/ CreateMigrationRequest(fd, v, c, who)

Reconfiguration ==
  \E fd \in FundDeployers, v \in Vaults, who \in Accounts :
    \/ \E c \in Comptrollers : CreateReconfigurationRequest(fd, v, c, who)
    \/ CancelReconfiguration(fd, v, who)
    \/ \E feePaid \in BOOLEAN : ExecuteReconfiguration(fd, v, who, feePaid)

Next ==
  \/ Governance
  \/ Roles
  \/ Migration
  \/ Reconfiguration
  \/ \E v \in Vaults : PayProtocolFee(v)
  \/ Tick

Spec == Init /\ [][Next]_vars

-----------------------------------------------------------------------------
(* Properties. *)

Deployed(v) == vaultProxyToFundDeployer[v] # NoAddress

\* Whatever was requested, cancelled, executed or bypassed, in whichever
\* order, every fund obeys a ComptrollerProxy that exists, that was
\* activated, that was made for this fund, and that belongs to the release
\* the Dispatcher has the fund on and whose VaultLib it runs.  Were it not,
\* the fund would be bricked: nobody could redeem
\* (Dispatcher.executeMigration, FundDeployer.executeReconfiguration).
AccessorInForce ==
  \A v \in Vaults : Deployed(v) =>
    /\ accessor[v] \in Comptrollers
    /\ status[accessor[v]] = "active"
    /\ vaultProxy[accessor[v]] = v
    /\ release[accessor[v]] = vaultProxyToFundDeployer[v]
    /\ vaultLib[v] = vaultProxyToFundDeployer[v]

\* A pending request names a ComptrollerProxy that exists, is not yet
\* activated, and was made for this fund by the release that holds the
\* request, even when the fund has since left that release; so it can be
\* executed and cancelled, and cancelling it never destroys a ComptrollerProxy
\* in force (invokeMigrationInCancelHook and cancelReconfiguration call
\* destructUnactivated, which does not check that it is unactivated).
RequestsAreExecutable ==
  \A v \in Vaults :
    /\ LET request == vaultProxyToMigrationRequest[v]
       IN HasMigrationRequest(v) =>
            /\ request.nextVaultAccessor \in Comptrollers
            /\ status[request.nextVaultAccessor] = "configured"
            /\ vaultProxy[request.nextVaultAccessor] = v
            /\ release[request.nextVaultAccessor] = request.nextFundDeployer
    /\ \A fd \in FundDeployers :
         LET request == vaultProxyToReconfigurationRequest[fd][v]
         IN HasReconfigurationRequest(fd, v) =>
              /\ status[request.nextComptrollerProxy] = "configured"
              /\ vaultProxy[request.nextComptrollerProxy] = v
              /\ release[request.nextComptrollerProxy] = fd

\* A migration request always leads out of the release the fund is on, and
\* the two ways the code asks whether there is one (nextFundDeployer # 0 in
\* the Dispatcher, executableTimestamp > 0 in hasMigrationRequest, which the
\* FundDeployer and the ComptrollerProxy rely on) agree.
MigrationRequestsConsistent ==
  \A v \in Vaults :
    LET request == vaultProxyToMigrationRequest[v]
    IN /\ (request.nextFundDeployer # NoAddress) <=> HasMigrationRequest(v)
       /\ HasMigrationRequest(v) =>
            /\ Deployed(v)
            /\ request.nextFundDeployer # vaultProxyToFundDeployer[v]

\* What makes the three properties above inductive: an absent request is the
\* mapping's default value, only a deployed fund has an accessor or requests,
\* and no two requests name the same ComptrollerProxy.
RequestsWellFormed ==
  \A v \in Vaults :
    /\ ~HasMigrationRequest(v) =>
         vaultProxyToMigrationRequest[v] = NoMigration
    /\ \A fd \in FundDeployers :
         /\ ~HasReconfigurationRequest(fd, v) =>
              vaultProxyToReconfigurationRequest[fd][v] = NoReconfiguration
         /\ HasReconfigurationRequest(fd, v) =>
              /\ Deployed(v)
              /\ vaultProxyToReconfigurationRequest[fd][v].nextComptrollerProxy
                   # vaultProxyToMigrationRequest[v].nextVaultAccessor
    /\ ~Deployed(v) => accessor[v] = NoAddress

ControlInvariant ==
  /\ TypeOK
  /\ AccessorInForce
  /\ RequestsAreExecutable
  /\ MigrationRequestsConsistent
  /\ RequestsWellFormed

\* The ComptrollerProxies a fund has left are destroyed, except the ones whose
\* PreMigrate hook failed and was bypassed: no other activated
\* ComptrollerProxy survives next to the one in force.
PredecessorsDestroyed ==
  {c \in Comptrollers : status[c] = "active"} \ undestructed =
    {accessor[v] : v \in {v \in Vaults : Deployed(v)}}

\* No second of a fund's life is charged the protocol fee twice, however often
\* it changes release and comes back: the clock the next payment will be
\* counted from is never before the end of what was charged
\* (ProtocolFeeTracker.initializeForVault on every migration, setLastPaidForVault).
NoSecondChargedTwice ==
  \A v \in Vaults : Deployed(v) =>
    vaultProxyToLastPaid[vaultLib[v]][v] >= chargedUntil[v]

\* Whatever is pending can be called off by the fund's owner alone, whatever
\* governance and releases did in the meantime: a migration even when the hook
\* of the release it leads to fails, and without a bypass when it does not
\* (Dispatcher.cancelMigration); a reconfiguration also on a release that the
\* fund has left since (FundDeployer.cancelReconfiguration).
OwnerCanCallOff ==
  \A v \in Vaults :
    /\ HasMigrationRequest(v) =>
         /\ CanCancelMigration(v, owner[v], FALSE, TRUE)
         /\ CanCancelMigration(v, owner[v], TRUE, FALSE)
    /\ \A fd \in FundDeployers :
         HasReconfigurationRequest(fd, v) =>
           CanCancelReconfiguration(fd, v, owner[v])

-----------------------------------------------------------------------------
(* FundLifecycle implements AccessorHandover. *)

\* The pending requests of v, on the Dispatcher and on every release, also
\* on the releases v is not on.
Announcements(v) ==
  {[next |-> r.nextVaultAccessor, from |-> r.executableTimestamp] :
     r \in {vaultProxyToMigrationRequest[v]} \ {NoMigration}}
  \cup
  {[next |-> r.nextComptrollerProxy, from |-> r.executableTimestamp] :
     r \in {vaultProxyToReconfigurationRequest[fd][v] : fd \in FundDeployers}
             \ {NoReconfiguration}}

Handover == INSTANCE AccessorHandover WITH
  Accessors <- Comptrollers,
  NoAccessor <- NoAddress,
  NoticePeriods <- Timelocks,
  holder <- accessor,
  announced <- [v \in Vaults |-> Announcements(v)],
  inForce <- {migrationTimelock} \cup
               {reconfigurationTimelock[fd] : fd \in FundDeployers},
  spent <- {c \in Comptrollers : status[c] # "unused"}

\* Control of a fund only moves to a ComptrollerProxy that was announced, with
\* the notice a timelock in force then prescribed, that has not been called
\* off since, and that was never in control before; a failed hook, a lowered
\* timelock, a change of release or of the current FundDeployer do not help
\* (Dispatcher.executeMigration, FundDeployer.executeReconfiguration).
AccessorHandoverSpec == Handover!Spec
==============================================================================
