----------------------- MODULE CallOnExtension_proofs -----------------------
(***************************************************************************)
(* Proofs about CallOnExtension, for any number of assets, positions,      *)
(* adapters and ComptrollerProxies, any actions of adapters and positions, *)
(* and calls nested to any depth.                                          *)
(*                                                                         *)
(* A failing call puts back the state in which it began, so an invariant   *)
(* can only be inductive if it also holds of every saved state, where only *)
(* the calls below the failing one are open.  Each invariant is therefore  *)
(* stated of a state and of the number of calls that are open in it, and   *)
(* holds of the present state with all calls, and of the state that the    *)
(* i-th call saved with i - 1 of them.                                     *)
(***************************************************************************)
EXTENDS CallOnExtension, Arithmetic, SequenceTheorems, TLAPS

Statuses == {"configured", "activated", "destroyed"}

\* The stack is a sequence; what is in the frames of calls is said apart.
IsStack(cs) == \E S : cs \in Seq(S)

-----------------------------------------------------------------------------
\* Control: mutexes, statuses and the accessor, with n calls open.

ControlOK(acc, sts, lck, prm, cs, n) ==
  /\ acc \in Comptrollers /\ sts \in [Comptrollers -> Statuses]
  /\ sts[acc] = "activated"
  /\ lck \in [Comptrollers -> BOOLEAN] /\ prm \in [Comptrollers -> BOOLEAN]
  /\ \A c \in Comptrollers : lck[c] <=> \E i \in 1..n : cs[i].comptroller = c
  /\ \A c \in Comptrollers : prm[c] <=> lck[c]
  /\ \A i \in 1..n : sts[cs[i].comptroller] = "activated"

ControlNow ==
  ControlOK(accessor, status, reentranceLocked, permissionedVaultActionAllowed,
            calls, Len(calls))

ControlSaved(cs) ==
  \A k \in 1..Len(cs) :
    ControlOK(cs[k].before.accessor, cs[k].before.status, cs[k].before.reentranceLocked,
              cs[k].before.permissionedVaultActionAllowed, cs, k - 1)

Distinct(cs) == \A i, j \in 1..Len(cs) : cs[i].comptroller = cs[j].comptroller => i = j

\* What a frame is, whatever it saved.
IsFrame(e) ==
  \/ \E B, P : e \in [kind : {"integration"}, comptroller : Comptrollers, adapter : Adapters,
                      action : AdapterActions, before : B, burned : Nat, preCallIncoming : P]
  \/ \E B : e \in [kind : {"position"}, comptroller : Comptrollers, position : Positions,
                   action : PositionActions, before : B, burned : Nat]

Frames(cs) == \A i \in 1..Len(cs) : IsFrame(cs[i])

ControlInv ==
  /\ IsStack(calls)
  /\ Frames(calls) /\ Distinct(calls)
  /\ ControlNow /\ ControlSaved(calls)

-----------------------------------------------------------------------------
\* Stacks

\* Pushing a call onto the stack, and cutting the stack off.
LEMMA Pushing ==
  ASSUME NEW cs, IsStack(cs), NEW e
  PROVE  /\ IsStack(Append(cs, e))
         /\ Len(Append(cs, e)) = Len(cs) + 1
         /\ Len(cs) \in Nat
         /\ Append(cs, e)[Len(cs) + 1] = e
         /\ \A i \in 1..Len(cs) : Append(cs, e)[i] = cs[i]
<1>1. PICK S : cs \in Seq(S)  BY DEF IsStack
<1>2. cs \in Seq(S \cup {e}) /\ e \in S \cup {e}  BY <1>1
<1>3. Append(cs, e) \in Seq(S \cup {e})  BY <1>2
<1> QED  BY <1>2, <1>3 DEF IsStack

LEMMA Cutting ==
  ASSUME NEW cs, IsStack(cs), NEW n \in Nat, n <= Len(cs)
  PROVE  /\ IsStack(SubSeq(cs, 1, n))
         /\ Len(SubSeq(cs, 1, n)) = n
         /\ \A i \in 1..n : SubSeq(cs, 1, n)[i] = cs[i]
<1>1. PICK S : cs \in Seq(S)  BY DEF IsStack
<1>2. SubSeq(cs, 1, n) \in Seq(S)  BY <1>1
<1> QED  BY <1>1, <1>2 DEF IsStack

\* What is said of the lowest n calls does not depend on those above them.
LEMMA ControlPrefix ==
  ASSUME NEW acc, NEW sts, NEW lck, NEW prm, NEW cs, NEW ds, NEW n \in Nat,
         ControlOK(acc, sts, lck, prm, cs, n),
         \A i \in 1..n : ds[i].comptroller = cs[i].comptroller
  PROVE  ControlOK(acc, sts, lck, prm, ds, n)
BY DEF ControlOK

\* Entering a call: what it needs of the ComptrollerProxy, and what holds then.
LEMMA ControlEnter ==
  ASSUME ControlInv, NEW c \in Comptrollers, AcceptsCall(c), NEW e,
         IsFrame(e), e.comptroller = c, e.before = State, Enter(e),
         accessor' = accessor, status' = status
  PROVE  ControlInv'
<1>1. /\ IsStack(calls') /\ Len(calls') = Len(calls) + 1 /\ Len(calls) \in Nat
      /\ calls'[Len(calls) + 1] = e
      /\ \A i \in 1..Len(calls) : calls'[i] = calls[i]
  BY Pushing DEF ControlInv, Enter
<1>2. \A i \in 1..Len(calls) : calls[i].comptroller # c
  BY DEF ControlInv, ControlNow, ControlOK, AcceptsCall, MayEnter
<1>3. Frames(calls') /\ Distinct(calls')
  BY <1>1, <1>2 DEF ControlInv, Frames, Distinct
<1>4. ControlOK(accessor, status, reentranceLocked, permissionedVaultActionAllowed,
                calls', Len(calls))
  BY <1>1, ControlPrefix DEF ControlInv, ControlNow
<1>5. ControlSaved(calls')
  <2> SUFFICES ASSUME NEW k \in 1..Len(calls')
               PROVE  ControlOK(calls'[k].before.accessor, calls'[k].before.status,
                        calls'[k].before.reentranceLocked,
                        calls'[k].before.permissionedVaultActionAllowed, calls', k - 1)
    BY DEF ControlSaved
  <2>1. CASE k = Len(calls) + 1
    BY <2>1, <1>1, <1>4 DEF State
  <2>2. CASE k # Len(calls) + 1
    <3>1. k \in 1..Len(calls) /\ k - 1 \in Nat /\ calls'[k] = calls[k]
      BY <2>2, <1>1
    <3>2. \A i \in 1..(k - 1) : calls'[i].comptroller = calls[i].comptroller
      BY <3>1, <1>1
    <3> QED  BY <3>1, <3>2, ControlPrefix DEF ControlInv, ControlSaved
  <2> QED  BY <2>1, <2>2
<1>6. ControlNow'
  <2>1. \A i \in 1..Len(calls') : calls'[i].comptroller =
          IF i = Len(calls) + 1 THEN c ELSE calls[i].comptroller
    BY <1>1
  <2>2. \A d \in Comptrollers : reentranceLocked'[d] <=> (reentranceLocked[d] \/ d = c)
    BY DEF Enter, ControlInv, ControlNow, ControlOK
  <2>3. \A d \in Comptrollers : permissionedVaultActionAllowed'[d] <=>
          (permissionedVaultActionAllowed[d] \/ d = c)
    BY DEF Enter, ControlInv, ControlNow, ControlOK
  <2>4. /\ reentranceLocked' \in [Comptrollers -> BOOLEAN]
        /\ permissionedVaultActionAllowed' \in [Comptrollers -> BOOLEAN]
    BY DEF Enter, ControlInv, ControlNow, ControlOK
  <2>5. \A d \in Comptrollers :
          reentranceLocked'[d] <=> \E i \in 1..Len(calls') : calls'[i].comptroller = d
    BY <2>1, <2>2, <1>1 DEF ControlInv, ControlNow, ControlOK
  <2>6. \A i \in 1..Len(calls') : status'[calls'[i].comptroller] = "activated"
    BY <2>1, <1>1 DEF ControlInv, ControlNow, ControlOK, AcceptsCall, OnlyAccessor
  <2> QED
    BY <2>2, <2>3, <2>4, <2>5, <2>6 DEF ControlInv, ControlNow, ControlOK
<1> QED  BY <1>1, <1>3, <1>5, <1>6 DEF ControlInv

\* Cutting the stack off keeps what holds of the calls that stay.
LEMMA ControlCut ==
  ASSUME ControlInv, NEW n \in Nat, n <= Len(calls), calls' = SubSeq(calls, 1, n)
  PROVE  /\ IsStack(calls') /\ Len(calls') = n
         /\ \A i \in 1..n : calls'[i] = calls[i]
         /\ Frames(calls') /\ Distinct(calls') /\ ControlSaved(calls')
<1>0. Len(calls) \in Nat
  <2>1. PICK S : calls \in Seq(S)  BY DEF ControlInv, IsStack
  <2> QED  BY <2>1
<1>1. /\ IsStack(calls') /\ Len(calls') = n
      /\ \A i \in 1..n : calls'[i] = calls[i]
  BY Cutting DEF ControlInv
<1>2. Frames(calls') /\ Distinct(calls')
  BY <1>0, <1>1 DEF ControlInv, Frames, Distinct
<1>3. ControlSaved(calls')
  <2> SUFFICES ASSUME NEW k \in 1..n
               PROVE  ControlOK(calls'[k].before.accessor, calls'[k].before.status,
                        calls'[k].before.reentranceLocked,
                        calls'[k].before.permissionedVaultActionAllowed, calls', k - 1)
    BY <1>1 DEF ControlSaved
  <2>1. k \in 1..Len(calls) /\ k - 1 \in Nat /\ calls'[k] = calls[k]
    BY <1>0, <1>1
  <2>2. \A i \in 1..(k - 1) : calls'[i].comptroller = calls[i].comptroller
    BY <1>1, <2>1
  <2> QED  BY <2>1, <2>2, ControlPrefix DEF ControlInv, ControlSaved
<1> QED  BY <1>1, <1>2, <1>3

\* Leaving the innermost call.
LEMMA ControlLeave ==
  ASSUME ControlInv, calls # <<>>, Leave, accessor' = accessor, status' = status
  PROVE  ControlInv'
<1>0. Len(calls) \in Nat /\ Len(calls) > 0
  <2>1. PICK S : calls \in Seq(S)  BY DEF ControlInv, IsStack
  <2> QED  BY <2>1
<1> DEFINE n == Len(calls) - 1
<1>1. n \in Nat /\ n <= Len(calls) /\ calls' = SubSeq(calls, 1, n)  BY <1>0 DEF Leave
<1>2. /\ IsStack(calls') /\ Len(calls') = n
      /\ \A i \in 1..n : calls'[i] = calls[i]
      /\ Frames(calls') /\ Distinct(calls') /\ ControlSaved(calls')
  BY <1>1, ControlCut
<1>3. Top.comptroller \in Comptrollers /\ Top = calls[n + 1]
  BY <1>0 DEF Top, ControlInv, Frames, IsFrame
<1>4. \A i \in 1..n : calls[i].comptroller # Top.comptroller
  BY <1>0, <1>3 DEF ControlInv, Distinct
<1>5. ControlNow'
  <2>1. \A d \in Comptrollers :
          /\ reentranceLocked'[d] <=> (reentranceLocked[d] /\ d # Top.comptroller)
          /\ permissionedVaultActionAllowed'[d] <=>
               (permissionedVaultActionAllowed[d] /\ d # Top.comptroller)
    BY <1>3 DEF Leave, ControlInv, ControlNow, ControlOK
  <2>2. /\ reentranceLocked' \in [Comptrollers -> BOOLEAN]
        /\ permissionedVaultActionAllowed' \in [Comptrollers -> BOOLEAN]
    BY DEF Leave, ControlInv, ControlNow, ControlOK
  <2>3. \A i \in 1..Len(calls) : i = n + 1 \/ i \in 1..n  BY <1>0
  <2>4. \A d \in Comptrollers :
          reentranceLocked'[d] <=> \E i \in 1..Len(calls') : calls'[i].comptroller = d
    BY <1>0, <1>2, <1>3, <1>4, <2>1, <2>3 DEF ControlInv, ControlNow, ControlOK
  <2>5. \A i \in 1..Len(calls') : status'[calls'[i].comptroller] = "activated"
    BY <1>0, <1>2 DEF ControlInv, ControlNow, ControlOK
  <2> QED  BY <2>1, <2>2, <2>4, <2>5 DEF ControlInv, ControlNow, ControlOK
<1> QED  BY <1>2, <1>5 DEF ControlInv

\* Burning MLN in a call changes nothing else of its frame.
LEMMA Burning ==
  ASSUME ControlInv, NEW n \in Nat,
         calls' = IF calls = <<>> THEN calls ELSE [calls EXCEPT ![Len(calls)].burned = @ + n]
  PROVE  /\ IsStack(calls') /\ Len(calls') = Len(calls) /\ Len(calls) \in Nat
         /\ Frames(calls')
         /\ \A i \in 1..Len(calls) :
              /\ calls'[i].kind = calls[i].kind
              /\ calls'[i].comptroller = calls[i].comptroller
              /\ calls'[i].action = calls[i].action
              /\ calls'[i].before = calls[i].before
              /\ calls[i].kind = "integration" =>
                   /\ calls'[i].adapter = calls[i].adapter
                   /\ calls'[i].preCallIncoming = calls[i].preCallIncoming
              /\ calls[i].burned \in Nat
              /\ calls'[i].burned = calls[i].burned + (IF i = Len(calls) THEN n ELSE 0)
<1>1. PICK S : calls \in Seq(S)  BY DEF ControlInv, IsStack
<1>2. CASE calls = <<>>  BY <1>1, <1>2 DEF ControlInv
<1>3. CASE calls # <<>>
  <2> DEFINE m == Len(calls)
             e == [calls[m] EXCEPT !.burned = @ + n]
  <2>1. m \in Nat /\ m > 0 /\ m \in 1..m  BY <1>1, <1>3
  <2>2. calls' = [calls EXCEPT ![m] = e]  BY <1>3
  <2>3. IsFrame(calls[m])  BY <2>1 DEF ControlInv, Frames
  <2>4. /\ IsFrame(e)
        /\ e.kind = calls[m].kind /\ e.comptroller = calls[m].comptroller
        /\ e.action = calls[m].action /\ e.before = calls[m].before
        /\ calls[m].kind = "integration" =>
             /\ e.adapter = calls[m].adapter
             /\ e.preCallIncoming = calls[m].preCallIncoming
        /\ calls[m].burned \in Nat /\ e.burned = calls[m].burned + n
    <3>1. CASE \E B, P : calls[m] \in
                 [kind : {"integration"}, comptroller : Comptrollers, adapter : Adapters,
                  action : AdapterActions, before : B, burned : Nat, preCallIncoming : P]
      <4>1. PICK B, P : calls[m] \in
                 [kind : {"integration"}, comptroller : Comptrollers, adapter : Adapters,
                  action : AdapterActions, before : B, burned : Nat, preCallIncoming : P]
        BY <3>1
      <4>2. e \in
                 [kind : {"integration"}, comptroller : Comptrollers, adapter : Adapters,
                  action : AdapterActions, before : B, burned : Nat, preCallIncoming : P]
        BY <4>1
      <4> QED  BY <4>1, <4>2 DEF IsFrame
    <3>2. CASE \E B : calls[m] \in
                 [kind : {"position"}, comptroller : Comptrollers, position : Positions,
                  action : PositionActions, before : B, burned : Nat]
      <4>1. PICK B : calls[m] \in
                 [kind : {"position"}, comptroller : Comptrollers, position : Positions,
                  action : PositionActions, before : B, burned : Nat]
        BY <3>2
      <4>2. e \in
                 [kind : {"position"}, comptroller : Comptrollers, position : Positions,
                  action : PositionActions, before : B, burned : Nat]
        BY <4>1
      <4> QED  BY <4>1, <4>2 DEF IsFrame
    <3> QED  BY <2>3, <3>1, <3>2 DEF IsFrame
  <2> HIDE DEF e
  <2>5. calls' \in Seq(S \cup {e}) /\ Len(calls') = m
    <3> DEFINE T == S \cup {e}
    <3>1. calls \in Seq(T) /\ e \in T  BY <1>1
    <3>2. m \in 1..Len(calls)  BY <2>1
    <3> HIDE DEF T, m
    <3>3. [calls EXCEPT ![m] = e] \in Seq(T) /\ Len([calls EXCEPT ![m] = e]) = Len(calls)
      BY <3>1, <3>2, ExceptSeq
    <3> QED  BY <3>3, <2>2 DEF T, m
  <2>6. \A i \in 1..m : calls'[i] = IF i = m THEN e ELSE calls[i]
    BY <1>1, <2>1, <2>2
  <2>7. Frames(calls')  BY <2>4, <2>5, <2>6 DEF Frames, ControlInv
  <2>8. \A i \in 1..m : calls[i].burned \in Nat
    BY DEF ControlInv, Frames, IsFrame
  <2>9. \A i \in 1..m : calls'[i].burned = calls[i].burned + (IF i = m THEN n ELSE 0)
    BY <2>4, <2>6, <2>8
  <2> QED  BY <2>1, <2>4, <2>5, <2>6, <2>7, <2>8, <2>9 DEF IsStack
<1> QED  BY <1>2, <1>3

LEMMA ControlBurn ==
  ASSUME ControlInv, NEW n \in Nat,
         calls' = IF calls = <<>> THEN calls ELSE [calls EXCEPT ![Len(calls)].burned = @ + n],
         UNCHANGED <<accessor, status, reentranceLocked, permissionedVaultActionAllowed>>
  PROVE  ControlInv'
<1>1. /\ IsStack(calls') /\ Len(calls') = Len(calls) /\ Len(calls) \in Nat
      /\ Frames(calls')
      /\ \A i \in 1..Len(calls) : /\ calls'[i].comptroller = calls[i].comptroller
                                  /\ calls'[i].before = calls[i].before
  BY Burning
<1>2. Distinct(calls')  BY <1>1 DEF ControlInv, Distinct
<1>3. ControlOK(accessor, status, reentranceLocked, permissionedVaultActionAllowed,
                calls', Len(calls))
  BY <1>1, ControlPrefix DEF ControlInv, ControlNow
<1>4. ControlNow'  BY <1>1, <1>3 DEF ControlNow
<1>5. ControlSaved(calls')
  <2> SUFFICES ASSUME NEW k \in 1..Len(calls)
               PROVE  ControlOK(calls[k].before.accessor, calls[k].before.status,
                        calls[k].before.reentranceLocked,
                        calls[k].before.permissionedVaultActionAllowed, calls', k - 1)
    BY <1>1 DEF ControlSaved
  <2>1. k - 1 \in Nat /\ \A i \in 1..(k - 1) : calls'[i].comptroller = calls[i].comptroller
    BY <1>1
  <2> QED  BY <2>1, ControlPrefix DEF ControlInv, ControlSaved
<1> QED  BY <1>1, <1>2, <1>4, <1>5 DEF ControlInv

\* A new accessor, which no open call is of; the old one may only be destroyed
\* if no call of it is open.
LEMMA ControlHandOver ==
  ASSUME ControlInv, NEW next \in Comptrollers, status[next] = "configured",
         accessor' = next,
         UNCHANGED <<reentranceLocked, permissionedVaultActionAllowed, calls>>,
         \/ /\ MayDestruct(accessor)
            /\ status' = [status EXCEPT ![accessor] = "destroyed", ![next] = "activated"]
         \/ status' = [status EXCEPT ![next] = "activated"]
  PROVE  ControlInv'
<1>1. accessor \in Comptrollers /\ status \in [Comptrollers -> Statuses]
      /\ accessor # next
  BY DEF ControlInv, ControlNow, ControlOK
<1>2. status' \in [Comptrollers -> Statuses] /\ status'[next] = "activated"
  BY <1>1 DEF Statuses
<1>3. \A i \in 1..Len(calls) : status'[calls[i].comptroller] = "activated"
  <2> SUFFICES ASSUME NEW i \in 1..Len(calls)
               PROVE  status'[calls[i].comptroller] = "activated"
    OBVIOUS
  <2> DEFINE c == calls[i].comptroller
  <2>1. c \in Comptrollers /\ status[c] = "activated"
    BY DEF ControlInv, ControlNow, ControlOK, Frames, IsFrame
  <2>2. permissionedVaultActionAllowed[c]
    BY <2>1 DEF ControlInv, ControlNow, ControlOK
  <2>3. ASSUME MayDestruct(accessor)  PROVE c # accessor
    BY <2>2, <2>3 DEF MayDestruct
  <2> QED  BY <1>1, <2>1, <2>3
<1>4. ControlNow'  BY <1>2, <1>3 DEF ControlInv, ControlNow, ControlOK
<1> QED  BY <1>4 DEF ControlInv

\* A failing call puts back the state it saved, and the calls below it.
LEMMA ControlRevert ==
  ASSUME ControlInv, NEW i \in DOMAIN calls, Revert(i)
  PROVE  ControlInv'
<1>0. DOMAIN calls = 1..Len(calls) /\ Len(calls) \in Nat
  <2>1. PICK S : calls \in Seq(S)  BY DEF ControlInv, IsStack
  <2> QED  BY <2>1
<1> DEFINE n == i - 1
<1>1. n \in Nat /\ n <= Len(calls) /\ calls' = SubSeq(calls, 1, n)
  BY <1>0 DEF Revert
<1>2. /\ IsStack(calls') /\ Len(calls') = n
      /\ \A j \in 1..n : calls'[j] = calls[j]
      /\ Frames(calls') /\ Distinct(calls') /\ ControlSaved(calls')
  BY <1>1, ControlCut
<1>3. ControlOK(accessor', status', reentranceLocked', permissionedVaultActionAllowed',
                calls, n)
  BY <1>0 DEF Revert, ControlInv, ControlSaved
<1>4. ControlOK(accessor', status', reentranceLocked', permissionedVaultActionAllowed',
                calls', n)
  BY <1>1, <1>2, <1>3, ControlPrefix
<1>5. ControlNow'  BY <1>2, <1>4 DEF ControlNow
<1> QED  BY <1>2, <1>5 DEF ControlInv

LEMMA ControlInit == Init => ControlInv
<1> SUFFICES ASSUME Init PROVE ControlInv  OBVIOUS
<1>1. calls = <<>> /\ Len(calls) = 0  BY DEF Init
<1>2. IsStack(calls)
  <2>1. calls \in Seq(Nat)  BY <1>1
  <2> QED  BY <2>1 DEF IsStack
<1>3. ControlNow
  BY <1>1, ComptrollersAssumption DEF Init, ControlNow, ControlOK, Statuses
<1> QED  BY <1>1, <1>2, <1>3 DEF ControlInv, Frames, Distinct, ControlSaved

LEMMA ControlStep == ControlInv /\ [Next]_vars => ControlInv'
<1> SUFFICES ASSUME ControlInv, [Next]_vars PROVE ControlInv'  OBVIOUS
<1>0. ASSUME UNCHANGED <<accessor, status, mutexVars>>  PROVE ControlInv'
  BY <1>0 DEF mutexVars, ControlInv, ControlNow
<1>1. ASSUME NEW c \in Comptrollers, AssetManagerStep(c)  PROVE ControlInv'
  <2>1. ASSUME NEW d \in Adapters, NEW action \in AdapterActions,
               BeginCallOnIntegration(c, d, action)
        PROVE  ControlInv'
    <3> DEFINE e == [kind |-> "integration", comptroller |-> c, adapter |-> d,
                     action |-> action, before |-> State, burned |-> 0,
                     preCallIncoming |-> PreCallIncomingBalances(action)]
    <3>1. e \in [kind : {"integration"}, comptroller : Comptrollers, adapter : Adapters,
                 action : AdapterActions, before : {State}, burned : Nat,
                 preCallIncoming : {PreCallIncomingBalances(action)}]
      OBVIOUS
    <3>2. IsFrame(e)  BY <3>1 DEF IsFrame
    <3>3. e.comptroller = c /\ e.before = State  OBVIOUS
    <3>4. Enter(e) /\ AcceptsCall(c) /\ accessor' = accessor /\ status' = status
      BY <2>1 DEF BeginCallOnIntegration
    <3> HIDE DEF e
    <3> QED  BY <3>2, <3>3, <3>4, ControlEnter
  <2>2. ASSUME NEW p \in Positions, NEW action \in PositionActions,
               BeginCallOnExternalPosition(c, p, action)
                 \/ CreateAndCallExternalPosition(c, p, action)
        PROVE  ControlInv'
    <3> DEFINE e == PositionCall(c, p, action)
    <3>1. e \in [kind : {"position"}, comptroller : Comptrollers, position : Positions,
                 action : PositionActions, before : {State}, burned : Nat]
      BY DEF PositionCall
    <3>2. IsFrame(e)  BY <3>1 DEF IsFrame
    <3>3. e.comptroller = c /\ e.before = State  BY DEF PositionCall
    <3>4. Enter(e) /\ AcceptsCall(c) /\ accessor' = accessor /\ status' = status
      BY <2>2 DEF BeginCallOnExternalPosition, CreateAndCallExternalPosition
    <3> HIDE DEF e
    <3> QED  BY <3>2, <3>3, <3>4, ControlEnter
  <2>3. ASSUME NEW assets \in Arrays,
               AddTrackedAssets(c, assets) \/ RemoveTrackedAssets(c, assets)
        PROVE  ControlInv'
    BY <2>3, <1>0 DEF AddTrackedAssets, RemoveTrackedAssets
  <2>4. ASSUME NEW p \in Positions,
               \/ CreateExternalPosition(c, p)
               \/ RemoveExternalPosition(c, p)
               \/ ReactivateExternalPosition(c, p)
        PROVE  ControlInv'
    BY <2>4, <1>0 DEF CreateExternalPosition, RemoveExternalPosition,
                      ReactivateExternalPosition
  <2> QED  BY <1>1, <2>1, <2>2, <2>3, <2>4 DEF AssetManagerStep
<1>2. ASSUME EndCallOnIntegration \/ EndCallOnExternalPosition  PROVE ControlInv'
  BY <1>2, ControlLeave DEF EndCallOnIntegration, EndCallOnExternalPosition, IsOpen
<1>3. ASSUME OutsideStep  PROVE ControlInv'
  BY <1>3, <1>0 DEF OutsideStep, AdapterTakes, ProtocolTakes, VaultReceives,
                    DeployForAnotherVault
<1>4. ASSUME NEW n \in Amounts, BuyBackProtocolFeeShares(n)  PROVE ControlInv'
  <2>1. n \in Nat  BY BoundsAssumption
  <2> QED  BY <1>4, <2>1, ControlBurn DEF BuyBackProtocolFeeShares
<1>5. ASSUME NEW a \in Assets, NEW n \in Amounts, RedeemShares(a, n)  PROVE ControlInv'
  BY <1>5, <1>0 DEF RedeemShares
<1>6. ASSUME NEW next \in Comptrollers, HandOver(next) \/ HandOverBypassingFailure(next)
      PROVE  ControlInv'
  BY <1>6, ControlHandOver DEF HandOver, HandOverBypassingFailure, ActivateNext, mutexVars
<1>7. ASSUME NEW i \in DOMAIN calls, Revert(i)  PROVE ControlInv'
  BY <1>7, ControlRevert
<1>8. ASSUME UNCHANGED vars  PROVE ControlInv'
  BY <1>8, <1>0 DEF vars
<1>9. ASSUME NEW n \in Amounts, PayOutSharesOutstanding(n)  PROVE ControlInv'
  BY <1>9, <1>0 DEF PayOutSharesOutstanding
<1> QED  BY <1>1, <1>2, <1>3, <1>4, <1>5, <1>6, <1>7, <1>8, <1>9 DEF Next

\* The mutexes, statuses and frames stay consistent, in every state that a
\* failing call could bring back too.
THEOREM ControlCorrect == Spec => []ControlInv
BY ControlInit, ControlStep, PTL DEF Spec

\* The two mutexes of a ComptrollerProxy are taken exactly while one call of it
\* is open (the modifiers of callOnExtension), however calls fail and nest.
THEOREM MutexesAlwaysMatch == Spec => []MutexesMatchCalls
<1>1. ControlInv => MutexesMatchCalls
  <2> SUFFICES ASSUME ControlInv PROVE MutexesMatchCalls  OBVIOUS
  <2>1. DOMAIN calls = 1..Len(calls)
    <3>1. PICK S : calls \in Seq(S)  BY DEF ControlInv, IsStack
    <3> QED  BY <3>1
  <2> QED  BY <2>1 DEF ControlInv, ControlNow, ControlOK, Distinct, MutexesMatchCalls
<1> QED  BY <1>1, ControlCorrect, PTL

\* No ComptrollerProxy is destroyed while a call of it is open: destructActivated
\* takes the mutex that the call holds.
THEOREM NoCallIsOrphaned == Spec => []NoCallOutlivesItsComptroller
<1>1. ControlInv => NoCallOutlivesItsComptroller
  <2> SUFFICES ASSUME ControlInv PROVE NoCallOutlivesItsComptroller  OBVIOUS
  <2>1. DOMAIN calls = 1..Len(calls)
    <3>1. PICK S : calls \in Seq(S)  BY DEF ControlInv, IsStack
    <3> QED  BY <3>1
  <2> QED  BY <2>1 DEF ControlInv, ControlNow, ControlOK, NoCallOutlivesItsComptroller
<1> QED  BY <1>1, ControlCorrect, PTL

-----------------------------------------------------------------------------
\* Approvals, with n calls open.

ApprovalsOK(alw, cs, n) ==
  /\ alw \in [Adapters -> [Assets -> Nat]]
  /\ \A d \in Adapters, a \in Assets :
       alw[d][a] > 0 => \E i \in 1..n : Grants(cs[i], d, a)

ApprovalsNow == ApprovalsOK(allowance, calls, Len(calls))

ApprovalsSaved(cs) == \A k \in 1..Len(cs) : ApprovalsOK(cs[k].before.allowance, cs, k - 1)

ApprovalsInv == ApprovalsNow /\ ApprovalsSaved(calls)

\* Two stacks grant the same if their lowest n calls are of the same kind.
LEMMA ApprovalsPrefix ==
  ASSUME NEW alw, NEW cs, NEW ds, NEW n \in Nat, ApprovalsOK(alw, cs, n),
         \A i \in 1..n : \A d \in Adapters, a \in Assets :
           Grants(cs[i], d, a) => Grants(ds[i], d, a)
  PROVE  ApprovalsOK(alw, ds, n)
BY DEF ApprovalsOK

\* An approval that is set is an amount, and only of an announced asset.
LEMMA ApprovedForIs ==
  ASSUME NEW adapter \in Adapters, NEW action \in AdapterActions,
         allowance \in [Adapters -> [Assets -> Nat]], IsUniqueSet(action.spendAssets)
  PROVE  /\ ApprovedFor(adapter, action) \in [Adapters -> [Assets -> Nat]]
         /\ \A d \in Adapters, a \in Assets :
              ApprovedFor(adapter, action)[d][a] # allowance[d][a]
                => d = adapter /\ a \in AssetsOf(action.spendAssets)
<1> DEFINE list == action.spendAssets
<1>1. list \in Seq(AmountOf)  BY ActionsAssumption DEF AdapterAction
<1>2. \A a \in AssetsOf(list) : LastOf(list, a) \in Nat
  <2> SUFFICES ASSUME NEW a \in AssetsOf(list) PROVE LastOf(list, a) \in Nat  OBVIOUS
  <2> HIDE DEF list
  <2>1. DOMAIN list = 1..Len(list) /\ Len(list) \in Nat  BY <1>1
  <2>2. PICK i \in DOMAIN list : list[i].asset = a  BY DEF AssetsOf
  <2>3. \A j \in DOMAIN list : list[j].asset = a => j = i
    BY <2>2 DEF IsUniqueSet, list
  <2> DEFINE last == CHOOSE j \in DOMAIN list :
                       /\ list[j].asset = a
                       /\ \A k \in DOMAIN list : list[k].asset = a => k <= j
  <2>4. i <= i  BY <2>1, <2>2
  <2>5. \E j \in DOMAIN list : /\ list[j].asset = a
                               /\ \A k \in DOMAIN list : list[k].asset = a => k <= j
    BY <2>2, <2>3, <2>4
  <2>6. last \in DOMAIN list  BY <2>5
  <2>7. list[last] \in AmountOf  BY <1>1, <2>1, <2>6
  <2>8. list[last].amount \in Nat  BY <2>7 DEF AmountOf
  <2> QED  BY <2>8 DEF LastOf
<1>3. ApprovedFor(adapter, action) =
        [allowance EXCEPT ![adapter] =
           [a \in Assets |-> IF a \in AssetsOf(list) THEN LastOf(list, a)
                             ELSE allowance[adapter][a]]]
  BY DEF ApprovedFor
<1> HIDE DEF list
<1>4. [a \in Assets |-> IF a \in AssetsOf(list) THEN LastOf(list, a)
                        ELSE allowance[adapter][a]] \in [Assets -> Nat]
  BY <1>2
<1>5. ApprovedFor(adapter, action) \in [Adapters -> [Assets -> Nat]]
  BY <1>3, <1>4
<1>6. \A d \in Adapters, a \in Assets :
        ApprovedFor(adapter, action)[d][a] =
          IF d = adapter /\ a \in AssetsOf(list) THEN LastOf(list, a) ELSE allowance[d][a]
  BY <1>3
<1> QED  BY <1>5, <1>6 DEF list

\* Entering a call, after which an approval is either as it was or granted by
\* the new call.
LEMMA ApprovalsEnter ==
  ASSUME ControlInv, ApprovalsInv, NEW e, e.before = State, Enter(e),
         allowance' \in [Adapters -> [Assets -> Nat]],
         \A d \in Adapters, a \in Assets :
           allowance'[d][a] = allowance[d][a] \/ Grants(e, d, a)
  PROVE  ApprovalsInv'
<1>1. /\ Len(calls') = Len(calls) + 1 /\ Len(calls) \in Nat
      /\ calls'[Len(calls) + 1] = e
      /\ \A i \in 1..Len(calls) : calls'[i] = calls[i]
  BY Pushing DEF ControlInv, Enter
<1>2. ApprovalsOK(allowance, calls', Len(calls))
  BY <1>1, ApprovalsPrefix DEF ApprovalsInv, ApprovalsNow
<1>3. ApprovalsNow'
  <2>1. \A d \in Adapters, a \in Assets :
          allowance'[d][a] > 0 => \E i \in 1..(Len(calls) + 1) : Grants(calls'[i], d, a)
    <3> SUFFICES ASSUME NEW d \in Adapters, NEW a \in Assets, allowance'[d][a] > 0
                 PROVE  \E i \in 1..(Len(calls) + 1) : Grants(calls'[i], d, a)
      OBVIOUS
    <3>1. ASSUME Grants(e, d, a)
          PROVE  \E i \in 1..(Len(calls) + 1) : Grants(calls'[i], d, a)
      <4>1. Len(calls) + 1 \in 1..(Len(calls) + 1)  BY <1>1
      <4> QED  BY <3>1, <4>1, <1>1
    <3>2. ASSUME allowance'[d][a] = allowance[d][a]
          PROVE  \E i \in 1..(Len(calls) + 1) : Grants(calls'[i], d, a)
      <4>1. PICK i \in 1..Len(calls) : Grants(calls'[i], d, a)
        BY <3>2, <1>2 DEF ApprovalsOK
      <4>2. i \in 1..(Len(calls) + 1)  BY <1>1
      <4> QED  BY <4>1, <4>2
    <3> QED  BY <3>1, <3>2
  <2> QED  BY <2>1, <1>1 DEF ApprovalsNow, ApprovalsOK
<1>4. ApprovalsSaved(calls')
  <2> SUFFICES ASSUME NEW k \in 1..Len(calls')
               PROVE  ApprovalsOK(calls'[k].before.allowance, calls', k - 1)
    BY DEF ApprovalsSaved
  <2>1. ASSUME k = Len(calls) + 1
        PROVE  ApprovalsOK(calls'[k].before.allowance, calls', k - 1)
    BY <2>1, <1>1, <1>2 DEF State
  <2>2. ASSUME k # Len(calls) + 1
        PROVE  ApprovalsOK(calls'[k].before.allowance, calls', k - 1)
    <3>1. k \in 1..Len(calls) /\ k - 1 \in Nat /\ calls'[k] = calls[k]
      BY <2>2, <1>1
    <3>2. \A i \in 1..(k - 1) : calls'[i] = calls[i]  BY <3>1, <1>1
    <3> QED  BY <3>1, <3>2, ApprovalsPrefix DEF ApprovalsInv, ApprovalsSaved
  <2> QED  BY <2>1, <2>2
<1> QED  BY <1>3, <1>4 DEF ApprovalsInv

\* Cutting the stack off keeps what the calls that stay have saved.
LEMMA ApprovalsCut ==
  ASSUME ControlInv, ApprovalsInv, NEW n \in Nat, n <= Len(calls),
         calls' = SubSeq(calls, 1, n)
  PROVE  ApprovalsSaved(calls')
<1>0. Len(calls) \in Nat
  <2>1. PICK S : calls \in Seq(S)  BY DEF ControlInv, IsStack
  <2> QED  BY <2>1
<1>1. Len(calls') = n /\ \A i \in 1..n : calls'[i] = calls[i]
  BY Cutting DEF ControlInv
<1> SUFFICES ASSUME NEW k \in 1..n
             PROVE  ApprovalsOK(calls'[k].before.allowance, calls', k - 1)
  BY <1>1 DEF ApprovalsSaved
<1>2. k \in 1..Len(calls) /\ k - 1 \in Nat /\ calls'[k] = calls[k]  BY <1>0, <1>1
<1>3. \A i \in 1..(k - 1) : calls'[i] = calls[i]  BY <1>1, <1>2
<1> QED  BY <1>2, <1>3, ApprovalsPrefix DEF ApprovalsInv, ApprovalsSaved

\* Leaving the innermost call, whose approvals are all used up or reset.
LEMMA ApprovalsLeave ==
  ASSUME ControlInv, ApprovalsInv, calls # <<>>, Leave,
         allowance' \in [Adapters -> [Assets -> Nat]],
         \A d \in Adapters, a \in Assets :
           \/ allowance'[d][a] = 0
           \/ allowance'[d][a] = allowance[d][a] /\ ~Grants(Top, d, a)
  PROVE  ApprovalsInv'
<1>0. Len(calls) \in Nat /\ Len(calls) > 0
  <2>1. PICK S : calls \in Seq(S)  BY DEF ControlInv, IsStack
  <2> QED  BY <2>1
<1> DEFINE n == Len(calls) - 1
<1>1. n \in Nat /\ n <= Len(calls) /\ calls' = SubSeq(calls, 1, n)  BY <1>0 DEF Leave
<1>2. Len(calls') = n /\ \A i \in 1..n : calls'[i] = calls[i]
  BY <1>1, Cutting DEF ControlInv
<1>3. ApprovalsSaved(calls')  BY <1>1, ApprovalsCut
<1>4. \A d \in Adapters, a \in Assets :
        allowance'[d][a] > 0 => \E i \in 1..n : Grants(calls'[i], d, a)
  <2> SUFFICES ASSUME NEW d \in Adapters, NEW a \in Assets, allowance'[d][a] > 0
               PROVE  \E i \in 1..n : Grants(calls'[i], d, a)
    OBVIOUS
  <2>1. allowance'[d][a] = allowance[d][a] /\ ~Grants(Top, d, a)  OBVIOUS
  <2>2. PICK i \in 1..Len(calls) : Grants(calls[i], d, a)
    BY <2>1 DEF ApprovalsInv, ApprovalsNow, ApprovalsOK
  <2>3. i # Len(calls)  BY <2>1, <2>2 DEF Top
  <2>4. i \in 1..n  BY <1>0, <2>3
  <2> QED  BY <2>2, <2>4, <1>2
<1> QED  BY <1>2, <1>3, <1>4 DEF ApprovalsInv, ApprovalsNow, ApprovalsOK

\* A trade ends only with its approvals used up or reset.
LEMMA ApprovalsEnd ==
  ASSUME ControlInv, ApprovalsInv, EndCallOnIntegration
  PROVE  ApprovalsInv'
<1>1. allowance \in [Adapters -> [Assets -> Nat]]
  BY DEF ApprovalsInv, ApprovalsNow, ApprovalsOK
<1>2. allowance' = [allowance EXCEPT ![Top.adapter] =
        [a \in Assets |-> IF a \in ApprovalsLeft(Top) THEN 0 ELSE allowance[Top.adapter][a]]]
  BY DEF EndCallOnIntegration
<1>3. allowance' \in [Adapters -> [Assets -> Nat]]
  <2>1. ASSUME Top.adapter \in Adapters
        PROVE  [a \in Assets |-> IF a \in ApprovalsLeft(Top) THEN 0
                                 ELSE allowance[Top.adapter][a]] \in [Assets -> Nat]
    BY <1>1, <2>1
  <2> QED  BY <1>1, <1>2, <2>1
<1>4. \A d \in Adapters, a \in Assets :
        allowance'[d][a] = IF d = Top.adapter /\ a \in ApprovalsLeft(Top) THEN 0
                           ELSE allowance[d][a]
  BY <1>1, <1>2
<1>5. \A d \in Adapters, a \in Assets :
        \/ allowance'[d][a] = 0
        \/ allowance'[d][a] = allowance[d][a] /\ ~Grants(Top, d, a)
  <2> SUFFICES ASSUME NEW d \in Adapters, NEW a \in Assets, Grants(Top, d, a)
               PROVE  allowance'[d][a] = 0
    BY <1>4
  <2>1. d = Top.adapter /\ Approves(Top.action) /\ a \in AssetsOf(Top.action.spendAssets)
    BY DEF Grants
  <2>2. allowance[d][a] \in Nat  BY <1>1
  <2>3. a \in ApprovalsLeft(Top) \/ allowance[d][a] = 0
    BY <2>1, <2>2 DEF ApprovalsLeft
  <2> QED  BY <1>4, <2>1, <2>3
<1>6. calls # <<>> /\ Leave  BY DEF EndCallOnIntegration, IsOpen
<1> QED  BY <1>3, <1>5, <1>6, ApprovalsLeave

LEMMA ApprovalsInit == Init => ApprovalsInv
<1> SUFFICES ASSUME Init PROVE ApprovalsInv  OBVIOUS
<1>1. calls = <<>> /\ Len(calls) = 0  BY DEF Init
<1>2. allowance \in [Adapters -> [Assets -> Nat]]
      /\ \A d \in Adapters, a \in Assets : allowance[d][a] = 0
  BY DEF Init
<1> QED  BY <1>1, <1>2 DEF ApprovalsInv, ApprovalsNow, ApprovalsOK, ApprovalsSaved

LEMMA ApprovalsStep == ControlInv /\ ApprovalsInv /\ [Next]_vars => ApprovalsInv'
<1> SUFFICES ASSUME ControlInv, ApprovalsInv, [Next]_vars PROVE ApprovalsInv'  OBVIOUS
<1> USE DEF mutexVars
<1>0. allowance \in [Adapters -> [Assets -> Nat]]
  BY DEF ApprovalsInv, ApprovalsNow, ApprovalsOK
<1>1. ASSUME UNCHANGED <<allowance, calls>>  PROVE ApprovalsInv'
  BY <1>1 DEF ApprovalsInv, ApprovalsNow
<1>2. ASSUME NEW c \in Comptrollers, AssetManagerStep(c)  PROVE ApprovalsInv'
  <2>1. ASSUME NEW d \in Adapters, NEW action \in AdapterActions,
               BeginCallOnIntegration(c, d, action)
        PROVE  ApprovalsInv'
    <3> DEFINE e == [kind |-> "integration", comptroller |-> c, adapter |-> d,
                     action |-> action, before |-> State, burned |-> 0,
                     preCallIncoming |-> PreCallIncomingBalances(action)]
    <3>1. e.before = State /\ e.kind = "integration" /\ e.adapter = d /\ e.action = action
      OBVIOUS
    <3>2. Enter(e) /\ IsUniqueSet(action.spendAssets) /\ HandSpendAssets(d, action)
      BY <2>1 DEF BeginCallOnIntegration, ValidAssetsForAction
    <3> HIDE DEF e
    <3>3. ASSUME Approves(action), allowance' = ApprovedFor(d, action)
          PROVE  ApprovalsInv'
      <4>1. /\ allowance' \in [Adapters -> [Assets -> Nat]]
            /\ \A x \in Adapters, a \in Assets :
                 allowance'[x][a] # allowance[x][a]
                   => x = d /\ a \in AssetsOf(action.spendAssets)
        BY <1>0, <3>2, <3>3, ApprovedForIs
      <4>2. \A x \in Adapters, a \in Assets :
              allowance'[x][a] = allowance[x][a] \/ Grants(e, x, a)
        BY <3>1, <3>3, <4>1 DEF Grants
      <4> QED  BY <3>1, <3>2, <4>1, <4>2, ApprovalsEnter
    <3>4. ASSUME UNCHANGED allowance  PROVE ApprovalsInv'
      BY <1>0, <3>1, <3>2, <3>4, ApprovalsEnter
    <3> QED  BY <3>2, <3>3, <3>4 DEF HandSpendAssets
  <2>2. ASSUME NEW p \in Positions, NEW action \in PositionActions,
               BeginCallOnExternalPosition(c, p, action)
                 \/ CreateAndCallExternalPosition(c, p, action)
        PROVE  ApprovalsInv'
    <3> DEFINE e == PositionCall(c, p, action)
    <3>1. e.before = State  BY DEF PositionCall
    <3>2. Enter(e) /\ UNCHANGED allowance
      BY <2>2 DEF BeginCallOnExternalPosition, CreateAndCallExternalPosition
    <3> HIDE DEF e
    <3> QED  BY <1>0, <3>1, <3>2, ApprovalsEnter
  <2>3. ASSUME NEW assets \in Arrays,
               AddTrackedAssets(c, assets) \/ RemoveTrackedAssets(c, assets)
        PROVE  ApprovalsInv'
    BY <2>3, <1>1 DEF AddTrackedAssets, RemoveTrackedAssets
  <2>4. ASSUME NEW p \in Positions,
               \/ CreateExternalPosition(c, p)
               \/ RemoveExternalPosition(c, p)
               \/ ReactivateExternalPosition(c, p)
        PROVE  ApprovalsInv'
    BY <2>4, <1>1 DEF CreateExternalPosition, RemoveExternalPosition,
                      ReactivateExternalPosition
  <2> QED  BY <1>2, <2>1, <2>2, <2>3, <2>4 DEF AssetManagerStep
<1>3. ASSUME EndCallOnIntegration  PROVE ApprovalsInv'
  BY <1>3, ApprovalsEnd
<1>4. ASSUME EndCallOnExternalPosition  PROVE ApprovalsInv'
  <2>1. calls # <<>> /\ Leave /\ UNCHANGED allowance /\ Top.kind = "position"
    BY <1>4 DEF EndCallOnExternalPosition, IsOpen
  <2>2. \A d \in Adapters, a \in Assets : ~Grants(Top, d, a)  BY <2>1 DEF Grants
  <2> QED  BY <1>0, <2>1, <2>2, ApprovalsLeave
<1>5. ASSUME NEW d \in Adapters, NEW a \in Assets, NEW n \in Amounts, AdapterTakes(d, a, n)
      PROVE  ApprovalsInv'
  <2>1. n \in Nat /\ allowance[d][a] \in Nat /\ n <= allowance[d][a] /\ 0 < n
    BY <1>0, <1>5, BoundsAssumption DEF AdapterTakes
  <2>2. allowance[d][a] - n \in Nat  BY <2>1
  <2>3. allowance' = [allowance EXCEPT ![d][a] = allowance[d][a] - n] /\ calls' = calls
    BY <1>5 DEF AdapterTakes
  <2>4. allowance' \in [Adapters -> [Assets -> Nat]]  BY <1>0, <2>2, <2>3
  <2>5. \A x \in Adapters, b \in Assets : allowance'[x][b] > 0 => allowance[x][b] > 0
    BY <1>0, <2>1, <2>3
  <2> QED  BY <2>3, <2>4, <2>5 DEF ApprovalsInv, ApprovalsNow, ApprovalsOK
<1>6. ASSUME NEW n \in Amounts, BuyBackProtocolFeeShares(n)  PROVE ApprovalsInv'
  <2>1. n \in Nat  BY BoundsAssumption
  <2>2. /\ Len(calls') = Len(calls) /\ Len(calls) \in Nat
        /\ \A i \in 1..Len(calls) :
             /\ calls'[i].kind = calls[i].kind
             /\ calls'[i].action = calls[i].action
             /\ calls'[i].before = calls[i].before
             /\ calls[i].kind = "integration" => calls'[i].adapter = calls[i].adapter
    BY <1>6, <2>1, Burning DEF BuyBackProtocolFeeShares
  <2>3. \A i \in 1..Len(calls) : \A d \in Adapters, a \in Assets :
          Grants(calls[i], d, a) => Grants(calls'[i], d, a)
    BY <2>2 DEF Grants
  <2>4. ApprovalsOK(allowance, calls', Len(calls))
    BY <2>2, <2>3, ApprovalsPrefix DEF ApprovalsInv, ApprovalsNow
  <2>5. ApprovalsSaved(calls')
    <3> SUFFICES ASSUME NEW k \in 1..Len(calls)
                 PROVE  ApprovalsOK(calls[k].before.allowance, calls', k - 1)
      BY <2>2 DEF ApprovalsSaved
    <3>1. k - 1 \in Nat /\ \A i \in 1..(k - 1) : i \in 1..Len(calls)  BY <2>2
    <3> QED  BY <2>3, <3>1, ApprovalsPrefix DEF ApprovalsInv, ApprovalsSaved
  <2>6. allowance' = allowance  BY <1>6 DEF BuyBackProtocolFeeShares
  <2> QED  BY <2>2, <2>4, <2>5, <2>6 DEF ApprovalsInv, ApprovalsNow
<1>7. ASSUME NEW a \in Assets, NEW n \in Amounts,
             RedeemShares(a, n) \/ ProtocolTakes(a, n) \/ VaultReceives(a, n)
      PROVE  ApprovalsInv'
  BY <1>7, <1>1 DEF RedeemShares, ProtocolTakes, VaultReceives
<1>8. ASSUME NEW p \in Positions, DeployForAnotherVault(p)  PROVE ApprovalsInv'
  BY <1>8, <1>1 DEF DeployForAnotherVault
<1>9. ASSUME NEW next \in Comptrollers, HandOver(next) \/ HandOverBypassingFailure(next)
      PROVE  ApprovalsInv'
  BY <1>9, <1>1 DEF HandOver, HandOverBypassingFailure, ActivateNext
<1>10. ASSUME NEW i \in DOMAIN calls, Revert(i)  PROVE ApprovalsInv'
  <2>1. DOMAIN calls = 1..Len(calls) /\ Len(calls) \in Nat
    <3>1. PICK S : calls \in Seq(S)  BY DEF ControlInv, IsStack
    <3> QED  BY <3>1
  <2> DEFINE n == i - 1
  <2>2. n \in Nat /\ n <= Len(calls) /\ calls' = SubSeq(calls, 1, n)
    BY <1>10, <2>1 DEF Revert
  <2>3. Len(calls') = n /\ \A j \in 1..n : calls'[j] = calls[j]
    BY <2>2, Cutting DEF ControlInv
  <2>4. ApprovalsSaved(calls')  BY <2>2, ApprovalsCut
  <2>5. ApprovalsOK(allowance', calls, n)
    BY <1>10, <2>1 DEF Revert, ApprovalsInv, ApprovalsSaved
  <2>6. \A j \in 1..n : \A d \in Adapters, a \in Assets :
          Grants(calls[j], d, a) => Grants(calls'[j], d, a)
    BY <2>3
  <2> HIDE DEF n
  <2>7. ApprovalsOK(allowance', calls', n)  BY <2>2, <2>5, <2>6, ApprovalsPrefix
  <2> QED  BY <2>3, <2>4, <2>7 DEF ApprovalsInv, ApprovalsNow
<1>11. ASSUME UNCHANGED vars  PROVE ApprovalsInv'
  BY <1>11, <1>1 DEF vars
<1>12. ASSUME NEW n \in Amounts, PayOutSharesOutstanding(n)  PROVE ApprovalsInv'
  BY <1>12, <1>1 DEF PayOutSharesOutstanding
<1> QED
  BY <1>2, <1>3, <1>4, <1>5, <1>6, <1>7, <1>8, <1>9, <1>10, <1>11, <1>12
  DEF Next, OutsideStep

\* An adapter can take an asset of the vault only while a call is open that
\* approved it for the adapter: __postProcessCoI resets what was not used, and
\* cannot end otherwise.
THEOREM ApprovalsEndWithCalls == Spec => []NoApprovalOutlivesItsCall
<1>1. Spec => [](ControlInv /\ ApprovalsInv)
  BY ControlInit, ControlStep, ApprovalsInit, ApprovalsStep, PTL DEF Spec
<1>2. ControlInv /\ ApprovalsInv => NoApprovalOutlivesItsCall
  <2> SUFFICES ASSUME ControlInv, ApprovalsInv PROVE NoApprovalOutlivesItsCall  OBVIOUS
  <2>1. DOMAIN calls = 1..Len(calls)
    <3>1. PICK S : calls \in Seq(S)  BY DEF ControlInv, IsStack
    <3> QED  BY <3>1
  <2> QED
    BY <2>1 DEF ApprovalsInv, ApprovalsNow, ApprovalsOK, NoApprovalOutlivesItsCall
<1> QED  BY <1>1, <1>2, PTL

-----------------------------------------------------------------------------
\* What the vault counts as the fund's: assets and positions.

HoldingsOK(acc, trk, act, dep) ==
  /\ acc \in Comptrollers
  /\ trk \subseteq Assets /\ act \subseteq Positions
  /\ dep \in [Positions -> {"nobody", "vault", "another"}]
  /\ DenominationAsset[acc] \in trk
  /\ \A p \in act : dep[p] = "vault"
  /\ WithinLimit(trk, act)

HoldingsNow == HoldingsOK(accessor, trackedAssets, activeExternalPositions, deployedFor)

HoldingsSaved(cs) ==
  \A k \in 1..Len(cs) :
    HoldingsOK(cs[k].before.accessor, cs[k].before.trackedAssets,
               cs[k].before.activeExternalPositions, cs[k].before.deployedFor)

HoldingsInv == HoldingsNow /\ HoldingsSaved(calls)

LEMMA Cardinalities ==
  ASSUME NEW S, NEW T, IsFiniteSet(T), S \subseteq T
  PROVE  /\ IsFiniteSet(S) /\ Cardinality(S) \in Nat /\ Cardinality(T) \in Nat
         /\ Cardinality(S) <= Cardinality(T)
BY FS_Subset, FS_CardinalityType

\* Fewer assets and positions stay within the limit.
LEMMA LimitMonotone ==
  ASSUME NEW S, NEW T, NEW P, NEW Q, S \subseteq T, T \subseteq Assets,
         P \subseteq Q, Q \subseteq Positions, WithinLimit(T, Q)
  PROVE  WithinLimit(S, P)
<1>1. IsFiniteSet(T) /\ IsFiniteSet(Q)
  BY Cardinalities, AssetsAssumption, PositionsAssumption
<1>2. /\ Cardinality(S) \in Nat /\ Cardinality(T) \in Nat
      /\ Cardinality(S) <= Cardinality(T)
  BY <1>1, Cardinalities
<1>3. /\ Cardinality(P) \in Nat /\ Cardinality(Q) \in Nat
      /\ Cardinality(P) <= Cardinality(Q)
  BY <1>1, Cardinalities
<1>4. PositionsLimit \in Nat  BY PositionsAssumption
<1> QED  BY <1>2, <1>3, <1>4 DEF WithinLimit

\* Entering and leaving calls, and burning MLN, keep what is saved.
LEMMA HoldingsEnter ==
  ASSUME ControlInv, HoldingsInv, NEW e, e.before = State, Enter(e)
  PROVE  HoldingsSaved(calls')
<1>1. /\ Len(calls') = Len(calls) + 1 /\ Len(calls) \in Nat
      /\ calls'[Len(calls) + 1] = e
      /\ \A i \in 1..Len(calls) : calls'[i] = calls[i]
  BY Pushing DEF ControlInv, Enter
<1>2. HoldingsOK(e.before.accessor, e.before.trackedAssets,
                 e.before.activeExternalPositions, e.before.deployedFor)
  BY DEF State, HoldingsInv, HoldingsNow
<1>3. \A k \in 1..Len(calls') : k = Len(calls) + 1 \/ k \in 1..Len(calls)  BY <1>1
<1> QED  BY <1>1, <1>2, <1>3 DEF HoldingsInv, HoldingsSaved

LEMMA HoldingsCut ==
  ASSUME ControlInv, HoldingsInv, NEW n \in Nat, n <= Len(calls),
         calls' = SubSeq(calls, 1, n)
  PROVE  HoldingsSaved(calls')
<1>0. Len(calls) \in Nat
  <2>1. PICK S : calls \in Seq(S)  BY DEF ControlInv, IsStack
  <2> QED  BY <2>1
<1>1. Len(calls') = n /\ \A i \in 1..n : calls'[i] = calls[i]
  BY Cutting DEF ControlInv
<1>2. \A k \in 1..n : k \in 1..Len(calls)  BY <1>0
<1> QED  BY <1>1, <1>2 DEF HoldingsInv, HoldingsSaved

LEMMA HoldingsLeave ==
  ASSUME ControlInv, HoldingsInv, calls # <<>>, Leave
  PROVE  HoldingsSaved(calls')
<1>0. Len(calls) \in Nat /\ Len(calls) > 0
  <2>1. PICK S : calls \in Seq(S)  BY DEF ControlInv, IsStack
  <2> QED  BY <2>1
<1>1. Len(calls) - 1 \in Nat /\ Len(calls) - 1 <= Len(calls)
      /\ calls' = SubSeq(calls, 1, Len(calls) - 1)
  BY <1>0 DEF Leave
<1> QED  BY <1>1, HoldingsCut

\* Tracking assets, adding and removing positions, and handing over.
LEMMA HoldingsTrack ==
  ASSUME HoldingsInv, NEW assets \in SUBSET Assets,
         CanTrack(assets, activeExternalPositions),
         trackedAssets' = trackedAssets \cup assets,
         UNCHANGED <<accessor, activeExternalPositions, deployedFor>>
  PROVE  HoldingsNow'
<1>1. WithinLimit(trackedAssets', activeExternalPositions)
  <2>1. ASSUME assets \subseteq trackedAssets
        PROVE  WithinLimit(trackedAssets', activeExternalPositions)
    <3>1. trackedAssets' = trackedAssets  BY <2>1
    <3> QED  BY <3>1 DEF HoldingsInv, HoldingsNow, HoldingsOK
  <2> QED  BY <2>1 DEF CanTrack
<1> QED  BY <1>1 DEF HoldingsInv, HoldingsNow, HoldingsOK

LEMMA HoldingsActivate ==
  ASSUME HoldingsInv, NEW p \in Positions, CanActivate(p),
         activeExternalPositions' = activeExternalPositions \cup {p},
         \/ deployedFor[p] = "vault" /\ UNCHANGED deployedFor
         \/ deployedFor' = [deployedFor EXCEPT ![p] = "vault"],
         UNCHANGED <<accessor, trackedAssets>>
  PROVE  HoldingsNow'
<1>1. WithinLimit(trackedAssets, activeExternalPositions')
  <2>1. ASSUME p \in activeExternalPositions
        PROVE  WithinLimit(trackedAssets, activeExternalPositions')
    <3>1. activeExternalPositions' = activeExternalPositions  BY <2>1
    <3> QED  BY <3>1 DEF HoldingsInv, HoldingsNow, HoldingsOK
  <2> QED  BY <2>1 DEF CanActivate
<1>2. deployedFor \in [Positions -> {"nobody", "vault", "another"}]
  BY DEF HoldingsInv, HoldingsNow, HoldingsOK
<1>3. /\ deployedFor' \in [Positions -> {"nobody", "vault", "another"}]
      /\ \A q \in Positions : deployedFor'[q] = IF q = p THEN "vault" ELSE deployedFor[q]
  BY <1>2
<1>4. \A q \in activeExternalPositions' : q \in Positions /\ deployedFor'[q] = "vault"
  BY <1>3 DEF HoldingsInv, HoldingsNow, HoldingsOK
<1> QED  BY <1>1, <1>3, <1>4 DEF HoldingsInv, HoldingsNow, HoldingsOK

LEMMA HoldingsInit == Init => HoldingsInv
<1> SUFFICES ASSUME Init PROVE HoldingsInv  OBVIOUS
<1>1. Len(calls) = 0  BY DEF Init
<1> DEFINE d == DenominationAsset[FirstComptroller]
<1>2. d \in Assets /\ FirstComptroller \in Comptrollers
  BY ComptrollersAssumption, AssetsAssumption
<1>3. Cardinality({d}) = 1 /\ Cardinality({}) = 0  BY FS_Singleton, FS_EmptySet
<1>4. WithinLimit({d}, {})  BY <1>3, PositionsAssumption DEF WithinLimit
<1>5. HoldingsNow  BY <1>2, <1>4 DEF Init, HoldingsNow, HoldingsOK
<1> QED  BY <1>1, <1>5 DEF HoldingsInv, HoldingsSaved

LEMMA HoldingsStep == ControlInv /\ HoldingsInv /\ [Next]_vars => HoldingsInv'
<1> SUFFICES ASSUME ControlInv, HoldingsInv, [Next]_vars PROVE HoldingsInv'  OBVIOUS
<1> USE DEF mutexVars
<1>1. ASSUME UNCHANGED <<accessor, trackedAssets, activeExternalPositions, deployedFor>>
      PROVE  HoldingsNow'
  BY <1>1 DEF HoldingsInv, HoldingsNow
<1>2. ASSUME UNCHANGED calls  PROVE HoldingsSaved(calls')
  BY <1>2 DEF HoldingsInv
<1>3. ASSUME NEW c \in Comptrollers, AssetManagerStep(c)  PROVE HoldingsInv'
  <2>1. ASSUME NEW d \in Adapters, NEW action \in AdapterActions,
               BeginCallOnIntegration(c, d, action)
        PROVE  HoldingsInv'
    <3> DEFINE e == [kind |-> "integration", comptroller |-> c, adapter |-> d,
                     action |-> action, before |-> State, burned |-> 0,
                     preCallIncoming |-> PreCallIncomingBalances(action)]
    <3>1. e.before = State  OBVIOUS
    <3>2. Enter(e)
          /\ UNCHANGED <<accessor, trackedAssets, activeExternalPositions, deployedFor>>
      BY <2>1 DEF BeginCallOnIntegration
    <3> HIDE DEF e
    <3> QED  BY <3>1, <3>2, <1>1, HoldingsEnter DEF HoldingsInv
  <2>2. ASSUME NEW p \in Positions, NEW action \in PositionActions,
               BeginCallOnExternalPosition(c, p, action)
        PROVE  HoldingsInv'
    <3>1. PositionCall(c, p, action).before = State  BY DEF PositionCall
    <3>2. Enter(PositionCall(c, p, action))
          /\ UNCHANGED <<accessor, trackedAssets, activeExternalPositions, deployedFor>>
      BY <2>2 DEF BeginCallOnExternalPosition
    <3> QED  BY <3>1, <3>2, <1>1, HoldingsEnter DEF HoldingsInv
  <2>3. ASSUME NEW p \in Positions, NEW action \in PositionActions,
               CreateAndCallExternalPosition(c, p, action)
        PROVE  HoldingsInv'
    <3>1. PositionCall(c, p, action).before = State  BY DEF PositionCall
    <3>2. HoldingsSaved(calls')
      BY <2>3, <3>1, HoldingsEnter DEF CreateAndCallExternalPosition
    <3>3. HoldingsNow'
      BY <2>3, HoldingsActivate DEF CreateAndCallExternalPosition
    <3> QED  BY <3>2, <3>3 DEF HoldingsInv
  <2>4. ASSUME NEW assets \in Arrays, AddTrackedAssets(c, assets)  PROVE HoldingsInv'
    <3>1. HoldingsNow'
      BY <2>4, HoldingsTrack DEF AddTrackedAssets, Arrays
    <3> QED  BY <2>4, <3>1, <1>2 DEF AddTrackedAssets, HoldingsInv
  <2>5. ASSUME NEW assets \in Arrays, RemoveTrackedAssets(c, assets)  PROVE HoldingsInv'
    <3>1. trackedAssets' = trackedAssets \ assets /\ DenominationAsset[accessor] \notin assets
          /\ UNCHANGED <<accessor, activeExternalPositions, deployedFor>>
      BY <2>5 DEF RemoveTrackedAssets, MayUntrack, AcceptsCall, OnlyAccessor
    <3>2. WithinLimit(trackedAssets', activeExternalPositions)
      BY <3>1, LimitMonotone DEF HoldingsInv, HoldingsNow, HoldingsOK
    <3>3. HoldingsNow'  BY <3>1, <3>2 DEF HoldingsInv, HoldingsNow, HoldingsOK
    <3> QED  BY <2>5, <3>3, <1>2 DEF RemoveTrackedAssets, HoldingsInv
  <2>6. ASSUME NEW p \in Positions, CreateExternalPosition(c, p)  PROVE HoldingsInv'
    <3>1. HoldingsNow'  BY <2>6, HoldingsActivate DEF CreateExternalPosition
    <3> QED  BY <2>6, <3>1, <1>2 DEF CreateExternalPosition, HoldingsInv
  <2>7. ASSUME NEW p \in Positions, ReactivateExternalPosition(c, p)  PROVE HoldingsInv'
    <3>1. HoldingsNow'
      BY <2>7, HoldingsActivate DEF ReactivateExternalPosition, MayReactivate
    <3> QED  BY <2>7, <3>1, <1>2 DEF ReactivateExternalPosition, HoldingsInv
  <2>8. ASSUME NEW p \in Positions, RemoveExternalPosition(c, p)  PROVE HoldingsInv'
    <3>1. activeExternalPositions' = activeExternalPositions \ {p}
          /\ UNCHANGED <<accessor, trackedAssets, deployedFor>>
      BY <2>8 DEF RemoveExternalPosition
    <3>2. WithinLimit(trackedAssets, activeExternalPositions')
      BY <3>1, LimitMonotone DEF HoldingsInv, HoldingsNow, HoldingsOK
    <3>3. HoldingsNow'  BY <3>1, <3>2 DEF HoldingsInv, HoldingsNow, HoldingsOK
    <3> QED  BY <2>8, <3>3, <1>2 DEF RemoveExternalPosition, HoldingsInv
  <2> QED  BY <1>3, <2>1, <2>2, <2>3, <2>4, <2>5, <2>6, <2>7, <2>8 DEF AssetManagerStep
<1>4. ASSUME EndCallOnIntegration  PROVE HoldingsInv'
  <2>1. calls # <<>> /\ Leave  BY <1>4 DEF EndCallOnIntegration, IsOpen
  <2>2. HoldingsSaved(calls')  BY <2>1, HoldingsLeave
  <2> DEFINE assets == AssetsToTrack(Top)
  <2>3. CanTrack(assets, activeExternalPositions) /\ trackedAssets' = trackedAssets \cup assets
        /\ UNCHANGED <<accessor, activeExternalPositions, deployedFor>>
    BY <1>4 DEF EndCallOnIntegration
  <2>4. assets \in SUBSET Assets
    <3>1. Len(calls) \in 1..Len(calls)
      <4>1. PICK S : calls \in Seq(S)  BY DEF ControlInv, IsStack
      <4> QED  BY <4>1, <2>1
    <3>2. IsFrame(Top) /\ Top.kind = "integration"
      BY <1>4, <3>1 DEF ControlInv, Frames, Top, EndCallOnIntegration, IsOpen
    <3>3. Top.action \in AdapterActions  BY <3>2 DEF IsFrame
    <3> DEFINE list == Top.action.incomingAssets
    <3>4. list \in Seq(AmountOf)
      BY <3>3, ActionsAssumption DEF AdapterAction
    <3>5. assets = AssetsOf(list)  BY DEF AssetsToTrack
    <3> HIDE DEF list, assets
    <3>6. \A i \in DOMAIN list : list[i] \in AmountOf  BY <3>4
    <3>7. \A i \in DOMAIN list : list[i].asset \in Assets  BY <3>6 DEF AmountOf
    <3> QED  BY <3>5, <3>7 DEF AssetsOf
  <2> HIDE DEF assets
  <2>5. HoldingsNow'  BY <2>3, <2>4, HoldingsTrack
  <2> QED  BY <2>2, <2>5 DEF HoldingsInv
<1>5. ASSUME EndCallOnExternalPosition  PROVE HoldingsInv'
  <2>1. calls # <<>> /\ Leave  BY <1>5 DEF EndCallOnExternalPosition, IsOpen
  <2>2. HoldingsSaved(calls')  BY <2>1, HoldingsLeave
  <2> DEFINE assets == Top.action.assetsToReceive
  <2>3. CanTrack(assets, activeExternalPositions) /\ trackedAssets' = trackedAssets \cup assets
        /\ UNCHANGED <<accessor, activeExternalPositions, deployedFor>>
    BY <1>5 DEF EndCallOnExternalPosition
  <2>4. assets \in SUBSET Assets
    <3>1. Len(calls) \in 1..Len(calls)
      <4>1. PICK S : calls \in Seq(S)  BY DEF ControlInv, IsStack
      <4> QED  BY <4>1, <2>1
    <3>2. IsFrame(Top) /\ Top.kind = "position"
      BY <1>5, <3>1 DEF ControlInv, Frames, Top, EndCallOnExternalPosition, IsOpen
    <3>3. Top.action \in PositionActions  BY <3>2 DEF IsFrame
    <3> QED  BY <3>3, ActionsAssumption DEF PositionAction
  <2> HIDE DEF assets
  <2>5. HoldingsNow'  BY <2>3, <2>4, HoldingsTrack
  <2> QED  BY <2>2, <2>5 DEF HoldingsInv
<1>6. ASSUME NEW a \in Assets, NEW n \in Amounts,
             \/ \E d \in Adapters : AdapterTakes(d, a, n)
             \/ ProtocolTakes(a, n)
             \/ VaultReceives(a, n)
             \/ RedeemShares(a, n)
      PROVE  HoldingsInv'
  BY <1>6, <1>1, <1>2 DEF AdapterTakes, ProtocolTakes, VaultReceives, RedeemShares,
                          HoldingsInv
<1>7. ASSUME NEW p \in Positions, DeployForAnotherVault(p)  PROVE HoldingsInv'
  <2>1. p \notin activeExternalPositions
    BY <1>7 DEF DeployForAnotherVault, HoldingsInv, HoldingsNow, HoldingsOK
  <2>2. deployedFor' = [deployedFor EXCEPT ![p] = "another"]
        /\ UNCHANGED <<accessor, trackedAssets, activeExternalPositions>>
    BY <1>7 DEF DeployForAnotherVault
  <2>3. HoldingsNow'  BY <2>1, <2>2 DEF HoldingsInv, HoldingsNow, HoldingsOK
  <2> QED  BY <1>7, <2>3, <1>2 DEF DeployForAnotherVault, HoldingsInv
<1>8. ASSUME NEW n \in Amounts, BuyBackProtocolFeeShares(n)  PROVE HoldingsInv'
  <2>1. n \in Nat  BY BoundsAssumption
  <2>2. /\ Len(calls') = Len(calls)
        /\ \A i \in 1..Len(calls) : calls'[i].before = calls[i].before
    BY <1>8, <2>1, Burning DEF BuyBackProtocolFeeShares
  <2>3. HoldingsSaved(calls')  BY <2>2 DEF HoldingsInv, HoldingsSaved
  <2> QED  BY <1>8, <2>3, <1>1 DEF BuyBackProtocolFeeShares, HoldingsInv
<1>9. ASSUME NEW next \in Comptrollers, HandOver(next) \/ HandOverBypassingFailure(next)
      PROVE  HoldingsInv'
  <2> DEFINE d == DenominationAsset[next]
  <2>1. d \in Assets  BY ComptrollersAssumption, AssetsAssumption
  <2>2. ActivateNext(next)  BY <1>9 DEF HandOver, HandOverBypassingFailure
  <2>3. /\ CanTrack({d}, activeExternalPositions) /\ accessor' = next
        /\ trackedAssets' = trackedAssets \cup {d}
        /\ UNCHANGED <<activeExternalPositions, deployedFor, calls>>
    BY <2>2 DEF ActivateNext
  <2> HIDE DEF d
  <2>4. WithinLimit(trackedAssets', activeExternalPositions)
    <3>1. ASSUME {d} \subseteq trackedAssets
          PROVE  WithinLimit(trackedAssets', activeExternalPositions)
      <4>1. trackedAssets' = trackedAssets  BY <2>3, <3>1
      <4> QED  BY <4>1 DEF HoldingsInv, HoldingsNow, HoldingsOK
    <3> QED  BY <2>3, <3>1 DEF CanTrack
  <2>5. DenominationAsset[accessor'] \in trackedAssets'  BY <2>3 DEF d
  <2>6. HoldingsNow'
    BY <2>1, <2>3, <2>4, <2>5 DEF HoldingsInv, HoldingsNow, HoldingsOK
  <2> QED  BY <2>3, <2>6, <1>2 DEF HoldingsInv
<1>10. ASSUME NEW i \in DOMAIN calls, Revert(i)  PROVE HoldingsInv'
  <2>1. DOMAIN calls = 1..Len(calls) /\ Len(calls) \in Nat
    <3>1. PICK S : calls \in Seq(S)  BY DEF ControlInv, IsStack
    <3> QED  BY <3>1
  <2>2. i - 1 \in Nat /\ i - 1 <= Len(calls) /\ calls' = SubSeq(calls, 1, i - 1)
    BY <1>10, <2>1 DEF Revert
  <2>3. HoldingsSaved(calls')  BY <2>2, HoldingsCut
  <2>4. HoldingsNow'
    BY <1>10, <2>1 DEF Revert, HoldingsInv, HoldingsSaved, HoldingsNow
  <2> QED  BY <2>3, <2>4 DEF HoldingsInv
<1>11. ASSUME UNCHANGED vars  PROVE HoldingsInv'
  BY <1>11, <1>1, <1>2 DEF vars, HoldingsInv
<1>12. ASSUME NEW n \in Amounts, PayOutSharesOutstanding(n)  PROVE HoldingsInv'
  BY <1>12, <1>1, <1>2 DEF PayOutSharesOutstanding, HoldingsInv
<1> QED
  BY <1>3, <1>4, <1>5, <1>6, <1>7, <1>8, <1>9, <1>10, <1>11, <1>12
  DEF Next, OutsideStep

LEMMA HoldingsCorrect == Spec => []HoldingsInv
<1>1. Spec => [](ControlInv /\ HoldingsInv)
  BY ControlInit, ControlStep, HoldingsInit, HoldingsStep, PTL DEF Spec
<1> QED  BY <1>1, PTL

\* Every position that counts as the fund's was deployed for its vault, for all
\* creations, removals, reactivations and failing calls.
THEOREM PositionsAreOwn == Spec => []OnlyOwnPositions
<1>1. HoldingsInv => OnlyOwnPositions
  BY DEF HoldingsInv, HoldingsNow, HoldingsOK, OnlyOwnPositions
<1> QED  BY <1>1, HoldingsCorrect, PTL

\* The denomination asset of the ComptrollerProxy in force is always tracked.
THEOREM DenominationStaysTracked == Spec => []DenominationTracked
<1>1. HoldingsInv => DenominationTracked
  BY DEF HoldingsInv, HoldingsNow, HoldingsOK, DenominationTracked
<1> QED  BY <1>1, HoldingsCorrect, PTL

\* Tracked assets and active positions together never exceed the limit.
THEOREM LimitHolds == Spec => []WithinPositionsLimit
<1>1. HoldingsInv => WithinPositionsLimit
  BY DEF HoldingsInv, HoldingsNow, HoldingsOK, WithinPositionsLimit
<1> QED  BY <1>1, HoldingsCorrect, PTL

-----------------------------------------------------------------------------
\* Lists of amounts.

\* What each entry of a list adds to the total of an asset.
Parts(list, a) ==
  [i \in 1..Len(list) |-> IF list[i].asset = a THEN list[i].amount ELSE 0]

\* The recursive function of TotalOf adds them up.
LEMMA TotalOfIs ==
  ASSUME NEW list \in Seq(AmountOf), NEW a
  PROVE  /\ TotalOf(list, a) = SumOver(Parts(list, a), 1..Len(list))
         /\ Len(list) \in Nat /\ DOMAIN list = 1..Len(list)
         /\ IsFiniteSet(1..Len(list))
         /\ \A i \in 1..Len(list) : list[i] \in AmountOf /\ Parts(list, a)[i] \in Nat
<1> DEFINE N == Len(list)
           part(i) == IF list[i].asset = a THEN list[i].amount ELSE 0
           f == Parts(list, a)
           Adds(g) == g = [i \in 0..Len(list) |-> IF i = 0 THEN 0 ELSE g[i - 1] + part(i)]
           sum == CHOOSE g : Adds(g)
           totals == [i \in 0..Len(list) |-> SumOver(f, 1..i)]
<1>1. N \in Nat /\ DOMAIN list = 1..N /\ \A i \in 1..N : list[i] \in AmountOf
  OBVIOUS
<1>2. \A i \in 1..N : part(i) \in Nat
  BY <1>1 DEF AmountOf
<1>3. \A i \in 1..N : f[i] = part(i)
  BY DEF Parts
<1>4. TotalOf(list, a) = sum[N]
  BY DEF TotalOf
<1> HIDE DEF part, f, N
<1>5. ASSUME NEW i \in 1..N
      PROVE  SumOver(f, 1..i) = SumOver(f, 1..(i - 1)) + part(i)
  <2> DEFINE S == 1..i
  <2>0. i \in Nat /\ i >= 1
    BY <1>1
  <2>1. IsFiniteSet(S) /\ i \in S /\ S \ {i} = 1..(i - 1)
    <3>1. IsFiniteSet(S)
      BY <2>0, FS_Interval
    <3>2. i \in S /\ S \ {i} = 1..(i - 1)
      BY <2>0
    <3> QED
      BY <3>1, <3>2
  <2>2. \A j \in S : f[j] \in Nat
    BY <1>1, <1>2, <1>3
  <2> HIDE DEF S
  <2>3. SumOver(f, S) = f[i] + SumOver(f, S \ {i}) /\ SumOver(f, S \ {i}) \in Nat
    BY <2>1, <2>2, SumWithout
  <2>4. f[i] = part(i) /\ part(i) \in Nat
    BY <1>2, <1>3
  <2> DEFINE all == SumOver(f, 1..i)
             before == SumOver(f, 1..(i - 1))
  <2>5. all = part(i) + before /\ before \in Nat
    BY <2>1, <2>3, <2>4 DEF S
  <2> HIDE DEF all, before
  <2>6. all = before + part(i)
    BY <2>4, <2>5
  <2> QED
    BY <2>6 DEF all, before
<1>6. \E g : Adds(g)
  <2>1. ASSUME NEW i \in 0..N
        PROVE  totals[i] = IF i = 0 THEN 0 ELSE totals[i - 1] + part(i)
    <3>1. CASE i = 0
      <4>1. 1..0 = {}
        BY SMT
      <4> QED
        BY <1>1, <3>1, <4>1, SumEmpty DEF N
    <3>2. CASE i # 0
      <4>1. i \in 1..N /\ i - 1 \in 0..N
        BY <1>1, <3>2
      <4> QED
        BY <1>5, <3>2, <4>1 DEF N
    <3> QED
      BY <3>1, <3>2
  <2>2. Adds(totals)
    BY <2>1 DEF N
  <2> HIDE DEF Adds, totals
  <2> QED
    BY <2>2
<1>7. Adds(sum)
  <2> HIDE DEF Adds
  <2> QED
    BY <1>6
<1> HIDE DEF sum
<1>8. \A i \in 0..N : sum[i] = IF i = 0 THEN 0 ELSE sum[i - 1] + part(i)
  BY <1>7 DEF N
<1> DEFINE P == {i \in Nat : sum[i] = SumOver(f, 1..i)}
<1>9. 0 \in P
  <2>1. 1..0 = {}
    BY SMT
  <2> QED
    BY <1>1, <1>8, <2>1, SumEmpty
<1>10. ASSUME NEW i \in 0..(N - 1), i \in P PROVE i + 1 \in P
  <2>1. i + 1 \in 1..N /\ i + 1 \in 0..N /\ (i + 1) - 1 = i /\ i + 1 # 0
          /\ i + 1 \in Nat
    BY <1>1
  <2>2. sum[i + 1] = sum[i] + part(i + 1)
    BY <1>8, <2>1
  <2>3. SumOver(f, 1..(i + 1)) = SumOver(f, 1..i) + part(i + 1)
    BY <1>5, <2>1
  <2> QED
    BY <1>10, <2>1, <2>2, <2>3
<1> HIDE DEF P
<1>11. \A i \in 0..N : i \in P
  BY <1>1, <1>9, <1>10, InductionUpTo
<1>12. sum[N] = SumOver(f, 1..N)
  BY <1>1, <1>11 DEF P
<1>13. IsFiniteSet(1..N)
  BY <1>1, FS_Interval
<1>14. \A i \in 1..N : f[i] \in Nat
  BY <1>2, <1>3
<1> QED
  BY <1>1, <1>4, <1>12, <1>13, <1>14 DEF N, f

\* The total of an asset: natural; nothing if the list does not name it; the
\* amount of its entry if it has but one.
LEMMA TotalOfFacts ==
  ASSUME NEW list \in Seq(AmountOf), NEW a
  PROVE  /\ TotalOf(list, a) \in Nat
         /\ a \notin AssetsOf(list) => TotalOf(list, a) = 0
         /\ \A i \in DOMAIN list :
              IsUniqueSet(list) /\ list[i].asset = a => TotalOf(list, a) = list[i].amount
<1> DEFINE f == Parts(list, a)
           S == 1..Len(list)
<1>1. /\ TotalOf(list, a) = SumOver(f, S) /\ DOMAIN list = S /\ IsFiniteSet(S)
      /\ \A i \in S : f[i] \in Nat
      /\ \A i \in S : list[i] \in AmountOf
  BY TotalOfIs
<1>2. \A i \in S : f[i] = IF list[i].asset = a THEN list[i].amount ELSE 0
  BY DEF Parts
<1> HIDE DEF f, S
<1>3. TotalOf(list, a) \in Nat
  BY <1>1, SumType
<1>4. ASSUME a \notin AssetsOf(list) PROVE TotalOf(list, a) = 0
  <2>1. \A i \in S : list[i].asset # a
    BY <1>1, <1>4 DEF AssetsOf
  <2>2. \A i \in S \ {} : f[i] = 0
    BY <1>2, <2>1
  <2>3. SumOver(f, S) = SumOver(f, {})
    BY <1>1, <2>2, SumZeros
  <2> QED
    BY <1>1, <2>3, SumEmpty
<1>5. ASSUME NEW i \in DOMAIN list, IsUniqueSet(list), list[i].asset = a
      PROVE  TotalOf(list, a) = list[i].amount
  <2>1. i \in S /\ f[i] = list[i].amount
    BY <1>1, <1>2, <1>5
  <2>2. \A j \in S \ {i} : f[j] = 0
    <3>1. ASSUME NEW j \in S \ {i} PROVE f[j] = 0
      <4>1. list[j].asset # a
        BY <1>1, <1>5 DEF IsUniqueSet
      <4> QED
        BY <1>2, <4>1
    <3> QED
      BY <3>1
  <2> DEFINE R == {i}
  <2>3. R \in SUBSET S /\ \A j \in S \ R : f[j] = 0
    BY <2>1, <2>2
  <2> HIDE DEF R
  <2>4. SumOver(f, S) = SumOver(f, R)
    BY <1>1, <2>3, SumZeros
  <2>5. IsFiniteSet(R) /\ i \in R /\ R \ {i} = {} /\ \A j \in R : f[j] \in Nat
    BY <1>1, <2>1, FS_Singleton DEF R
  <2>6. SumOver(f, R) = f[i] + SumOver(f, R \ {i})
    BY <2>5, SumWithout
  <2>7. f[i] \in Nat /\ SumOver(f, R \ {i}) = 0
    BY <1>1, <2>1, <2>5, SumEmpty
  <2>8. SumOver(f, R) = f[i]
    BY <2>6, <2>7
  <2> QED
    BY <1>1, <2>1, <2>4, <2>8
<1> QED
  BY <1>3, <1>4, <1>5

-----------------------------------------------------------------------------
\* What the vault holds, with n calls open.

VaultOK(acc, bal, alw, trk, cs, n) ==
  /\ bal \in [Assets -> Nat]
  /\ VaultShares \in Assets =>
       /\ VaultShares \notin trk
       /\ \A d \in Adapters : alw[d][VaultShares] = 0
       /\ \A i \in 1..n :
            cs[i].comptroller = acc => bal[VaultShares] >= cs[i].before.balance[VaultShares]

VaultNow == VaultOK(accessor, balance, allowance, trackedAssets, calls, Len(calls))

VaultSaved(cs) ==
  \A k \in 1..Len(cs) :
    VaultOK(cs[k].before.accessor, cs[k].before.balance, cs[k].before.allowance,
            cs[k].before.trackedAssets, cs, k - 1)

\* A call began under the accessor, and measures against what was there then.
Begun(cs) ==
  \A i \in 1..Len(cs) :
    /\ cs[i].before.accessor = cs[i].comptroller
    /\ cs[i].kind = "integration" => cs[i].preCallIncoming = cs[i].before.balance

VaultInv == VaultNow /\ VaultSaved(calls) /\ Begun(calls)

LEMMA VaultPrefix ==
  ASSUME NEW acc, NEW bal, NEW alw, NEW trk, NEW cs, NEW ds, NEW n \in Nat,
         VaultOK(acc, bal, alw, trk, cs, n),
         \A i \in 1..n : ds[i].before = cs[i].before /\ ds[i].comptroller = cs[i].comptroller
  PROVE  VaultOK(acc, bal, alw, trk, ds, n)
BY DEF VaultOK

\* What a withdrawal leaves.
LEMMA WithdrawnIs ==
  ASSUME NEW list \in Seq(AmountOf), balance \in [Assets -> Nat], CanWithdraw(list)
  PROVE  /\ Withdrawn(list) \in [Assets -> Nat]
         /\ \A a \in Assets : Withdrawn(list)[a] + TotalOf(list, a) = balance[a]
         /\ VaultShares \in Assets => Withdrawn(list)[VaultShares] = balance[VaultShares]
<1>1. \A a \in Assets :
        /\ Withdrawn(list)[a] \in Nat
        /\ Withdrawn(list)[a] + TotalOf(list, a) = balance[a]
  <2>1. ASSUME NEW a \in Assets
        PROVE  /\ Withdrawn(list)[a] \in Nat
               /\ Withdrawn(list)[a] + TotalOf(list, a) = balance[a]
    <3>1. TotalOf(list, a) \in Nat /\ (a \notin AssetsOf(list) => TotalOf(list, a) = 0)
      BY TotalOfFacts
    <3>2. a \in AssetsOf(list) => TotalOf(list, a) <= balance[a]
      BY DEF CanWithdraw
    <3>3. Withdrawn(list)[a] = IF a \in AssetsOf(list) THEN balance[a] - TotalOf(list, a)
                               ELSE balance[a]
      BY DEF Withdrawn
    <3>4. balance[a] \in Nat
      OBVIOUS
    <3> QED
      BY <3>1, <3>2, <3>3, <3>4
  <2> QED
    BY <2>1
<1>2. Withdrawn(list) \in [Assets -> Nat]
  BY <1>1 DEF Withdrawn
<1>3. VaultShares \in Assets => Withdrawn(list)[VaultShares] = balance[VaultShares]
  BY DEF Withdrawn, CanWithdraw
<1> QED
  BY <1>1, <1>2, <1>3

\* A new call.
LEMMA VaultEnter ==
  ASSUME ControlInv, VaultInv, NEW e, e.before = State, Enter(e),
         e.comptroller = accessor,
         e.kind = "integration" => e.preCallIncoming = balance,
         balance' \in [Assets -> Nat],
         VaultShares \in Assets =>
           /\ balance'[VaultShares] = balance[VaultShares]
           /\ \A d \in Adapters : allowance'[d][VaultShares] = 0,
         trackedAssets' = trackedAssets, accessor' = accessor
  PROVE  VaultInv'
<1>1. /\ Len(calls') = Len(calls) + 1 /\ Len(calls) \in Nat
      /\ calls'[Len(calls) + 1] = e
      /\ \A i \in 1..Len(calls) : calls'[i] = calls[i]
  BY Pushing DEF ControlInv, Enter
<1>2. /\ e.before.balance = balance /\ e.before.allowance = allowance
      /\ e.before.trackedAssets = trackedAssets /\ e.before.accessor = accessor
  BY DEF State
<1>3. VaultOK(accessor, balance, allowance, trackedAssets, calls', Len(calls))
  BY <1>1, VaultPrefix DEF VaultInv, VaultNow
<1>4. VaultNow'
  <2>1. ASSUME VaultShares \in Assets, NEW i \in 1..Len(calls'),
               calls'[i].comptroller = accessor
        PROVE  balance'[VaultShares] >= calls'[i].before.balance[VaultShares]
    <3>1. CASE i = Len(calls) + 1
      BY <1>1, <1>2, <2>1, <3>1 DEF VaultInv, VaultNow, VaultOK
    <3>2. CASE i # Len(calls) + 1
      <4>1. i \in 1..Len(calls)
        BY <1>1, <3>2
      <4> QED
        BY <1>3, <2>1, <4>1 DEF VaultOK
    <3> QED
      BY <3>1, <3>2
  <2>2. VaultShares \in Assets => VaultShares \notin trackedAssets
    BY DEF VaultInv, VaultNow, VaultOK
  <2> QED
    BY <2>1, <2>2 DEF VaultNow, VaultOK
<1>5. VaultSaved(calls')
  <2> SUFFICES ASSUME NEW k \in 1..Len(calls')
               PROVE  VaultOK(calls'[k].before.accessor, calls'[k].before.balance,
                              calls'[k].before.allowance, calls'[k].before.trackedAssets,
                              calls', k - 1)
    BY DEF VaultSaved
  <2>1. CASE k = Len(calls) + 1
    BY <1>1, <1>2, <1>3, <2>1
  <2>2. CASE k # Len(calls) + 1
    <3>1. k \in 1..Len(calls) /\ k - 1 \in Nat /\ calls'[k] = calls[k]
      BY <1>1, <2>2
    <3>2. \A i \in 1..(k - 1) : calls'[i] = calls[i]
      BY <1>1, <3>1
    <3> QED
      BY <3>1, <3>2, VaultPrefix DEF VaultInv, VaultSaved
  <2> QED
    BY <2>1, <2>2
<1>6. Begun(calls')
  <2>1. ASSUME NEW i \in 1..Len(calls')
        PROVE  /\ calls'[i].before.accessor = calls'[i].comptroller
               /\ calls'[i].kind = "integration" =>
                    calls'[i].preCallIncoming = calls'[i].before.balance
    <3>1. CASE i = Len(calls) + 1
      BY <1>1, <1>2, <3>1
    <3>2. CASE i # Len(calls) + 1
      <4>1. i \in 1..Len(calls) /\ calls'[i] = calls[i]
        BY <1>1, <3>2
      <4> QED
        BY <4>1 DEF VaultInv, Begun
    <3> QED
      BY <3>1, <3>2
  <2> QED
    BY <2>1 DEF Begun
<1> QED
  BY <1>4, <1>5, <1>6 DEF VaultInv

\* Cutting the stack off.
LEMMA VaultCut ==
  ASSUME ControlInv, VaultInv, NEW n \in Nat, n <= Len(calls),
         calls' = SubSeq(calls, 1, n)
  PROVE  /\ VaultSaved(calls') /\ Begun(calls')
         /\ Len(calls') = n /\ Len(calls) \in Nat
         /\ \A i \in 1..n : calls'[i] = calls[i]
<1>0. Len(calls) \in Nat
  <2>1. PICK S : calls \in Seq(S)  BY DEF ControlInv, IsStack
  <2> QED  BY <2>1
<1>1. Len(calls') = n /\ \A i \in 1..n : calls'[i] = calls[i]
  BY Cutting DEF ControlInv
<1>2. VaultSaved(calls')
  <2> SUFFICES ASSUME NEW k \in 1..n
               PROVE  VaultOK(calls'[k].before.accessor, calls'[k].before.balance,
                              calls'[k].before.allowance, calls'[k].before.trackedAssets,
                              calls', k - 1)
    BY <1>1 DEF VaultSaved
  <2>1. k \in 1..Len(calls) /\ k - 1 \in Nat /\ calls'[k] = calls[k]
    BY <1>0, <1>1
  <2>2. \A i \in 1..(k - 1) : calls'[i] = calls[i]
    BY <1>1, <2>1
  <2> QED
    BY <2>1, <2>2, VaultPrefix DEF VaultInv, VaultSaved
<1>3. Begun(calls')
  BY <1>0, <1>1 DEF VaultInv, Begun
<1> QED
  BY <1>0, <1>1, <1>2, <1>3

\* A step that neither opens nor ends a call: the vault's own shares do not
\* get fewer, or no call of the accessor's is open.
LEMMA VaultMoves ==
  ASSUME VaultInv, calls' = calls, Len(calls) \in Nat,
         balance' \in [Assets -> Nat],
         VaultShares \in Assets =>
           /\ \/ /\ accessor' = accessor
                 /\ balance'[VaultShares] >= balance[VaultShares]
              \/ \A i \in 1..Len(calls) : calls[i].comptroller # accessor'
           /\ VaultShares \notin trackedAssets'
           /\ \A d \in Adapters : allowance'[d][VaultShares] = 0
  PROVE  VaultInv'
<1>1. ASSUME VaultShares \in Assets, NEW i \in 1..Len(calls),
             calls[i].comptroller = accessor'
      PROVE  balance'[VaultShares] >= calls[i].before.balance[VaultShares]
  <2>1. /\ calls[i].before.balance[VaultShares] \in Nat
        /\ balance[VaultShares] \in Nat /\ balance'[VaultShares] \in Nat
    BY <1>1 DEF VaultInv, VaultNow, VaultSaved, VaultOK
  <2>2. accessor' = accessor /\ balance'[VaultShares] >= balance[VaultShares]
    BY <1>1
  <2>3. balance[VaultShares] >= calls[i].before.balance[VaultShares]
    BY <1>1, <2>2 DEF VaultInv, VaultNow, VaultOK
  <2> QED
    BY <2>1, <2>2, <2>3
<1>2. VaultNow'
  BY <1>1 DEF VaultNow, VaultOK
<1> QED
  BY <1>2 DEF VaultInv

\* The innermost call ends; assets may be tracked and approvals reset.
LEMMA VaultLeave ==
  ASSUME ControlInv, VaultInv, calls # <<>>, Leave, UNCHANGED <<accessor, balance>>,
         VaultShares \in Assets =>
           /\ VaultShares \notin trackedAssets'
           /\ \A d \in Adapters : allowance'[d][VaultShares] = 0
  PROVE  VaultInv'
<1>0. Len(calls) \in Nat /\ Len(calls) > 0
  <2>1. PICK S : calls \in Seq(S)  BY DEF ControlInv, IsStack
  <2> QED  BY <2>1
<1> DEFINE n == Len(calls) - 1
<1>1. n \in Nat /\ n <= Len(calls) /\ calls' = SubSeq(calls, 1, n)
  BY <1>0 DEF Leave
<1>2. /\ VaultSaved(calls') /\ Begun(calls')
      /\ Len(calls') = n /\ \A i \in 1..n : calls'[i] = calls[i]
  BY <1>1, VaultCut
<1>3. \A i \in 1..n : i \in 1..Len(calls)
  BY <1>0
<1>4. VaultNow'
  BY <1>2, <1>3 DEF VaultNow, VaultOK, VaultInv
<1> QED
  BY <1>2, <1>4 DEF VaultInv

\* A failing call puts back what it saved.
LEMMA VaultRevert ==
  ASSUME ControlInv, VaultInv, NEW i \in DOMAIN calls, Revert(i)
  PROVE  VaultInv'
<1>1. DOMAIN calls = 1..Len(calls) /\ Len(calls) \in Nat
  <2>1. PICK S : calls \in Seq(S)  BY DEF ControlInv, IsStack
  <2> QED  BY <2>1
<1> DEFINE n == i - 1
<1>2. n \in Nat /\ n <= Len(calls) /\ calls' = SubSeq(calls, 1, n)
  BY <1>1 DEF Revert
<1>3. /\ VaultSaved(calls') /\ Begun(calls')
      /\ Len(calls') = n /\ \A j \in 1..n : calls'[j] = calls[j]
  BY <1>2, VaultCut
<1>4. VaultOK(accessor', balance', allowance', trackedAssets', calls, n)
  BY <1>1 DEF Revert, VaultInv, VaultSaved
<1> HIDE DEF n
<1>5. VaultOK(accessor', balance', allowance', trackedAssets', calls', n)
  BY <1>2, <1>3, <1>4, VaultPrefix
<1> QED
  BY <1>3, <1>5 DEF VaultInv, VaultNow

\* Burning MLN: it is not the fund's shares.
LEMMA VaultBurn ==
  ASSUME ControlInv, VaultInv, NEW n \in Amounts, BuyBackProtocolFeeShares(n)
  PROVE  VaultInv'
<1>1. n \in Nat /\ n <= balance[MlnToken] /\ MlnToken \in Assets /\ MlnToken # VaultShares
  BY BoundsAssumption, AssetsAssumption DEF BuyBackProtocolFeeShares
<1>2. /\ Len(calls') = Len(calls) /\ Len(calls) \in Nat
      /\ \A i \in 1..Len(calls) :
           /\ calls'[i].kind = calls[i].kind
           /\ calls'[i].comptroller = calls[i].comptroller
           /\ calls'[i].before = calls[i].before
           /\ calls[i].kind = "integration" =>
                calls'[i].preCallIncoming = calls[i].preCallIncoming
  BY <1>1, Burning DEF BuyBackProtocolFeeShares
<1>3. balance' = [balance EXCEPT ![MlnToken] = @ - n]
        /\ UNCHANGED <<accessor, allowance, trackedAssets>>
  BY DEF BuyBackProtocolFeeShares
<1>4. /\ balance \in [Assets -> Nat]
      /\ VaultOK(accessor, balance, allowance, trackedAssets, calls, Len(calls))
  BY DEF VaultInv, VaultNow, VaultOK
<1>5. balance' \in [Assets -> Nat]
        /\ (VaultShares \in Assets => balance'[VaultShares] = balance[VaultShares])
  BY <1>1, <1>3, <1>4
<1>6. VaultOK(accessor, balance', allowance, trackedAssets, calls, Len(calls))
  BY <1>4, <1>5 DEF VaultOK
<1>7. VaultOK(accessor, balance', allowance, trackedAssets, calls', Len(calls))
  BY <1>2, <1>6, VaultPrefix
<1>8. VaultSaved(calls')
  <2> SUFFICES ASSUME NEW k \in 1..Len(calls)
               PROVE  VaultOK(calls[k].before.accessor, calls[k].before.balance,
                              calls[k].before.allowance, calls[k].before.trackedAssets,
                              calls', k - 1)
    BY <1>2 DEF VaultSaved
  <2>1. k - 1 \in Nat /\ \A i \in 1..(k - 1) : i \in 1..Len(calls)
    BY <1>2
  <2> QED
    BY <1>2, <2>1, VaultPrefix DEF VaultInv, VaultSaved
<1>9. Begun(calls')
  BY <1>2 DEF VaultInv, Begun
<1> QED
  BY <1>2, <1>3, <1>7, <1>8, <1>9 DEF VaultInv, VaultNow

LEMMA VaultInit == Init => VaultInv
<1> SUFFICES ASSUME Init PROVE VaultInv  OBVIOUS
<1>1. Len(calls) = 0 /\ balance \in [Assets -> Nat]
  BY DEF Init
<1>2. VaultShares \in Assets =>
        /\ VaultShares \notin trackedAssets
        /\ \A d \in Adapters : allowance[d][VaultShares] = 0
  BY ComptrollersAssumption DEF Init
<1> QED
  BY <1>1, <1>2 DEF VaultInv, VaultNow, VaultSaved, VaultOK, Begun

LEMMA VaultStep == ControlInv /\ ApprovalsInv /\ VaultInv /\ [Next]_vars => VaultInv'
<1> SUFFICES ASSUME ControlInv, ApprovalsInv, VaultInv, [Next]_vars PROVE VaultInv'
  OBVIOUS
<1> USE DEF mutexVars
<1>0. /\ Len(calls) \in Nat
      /\ balance \in [Assets -> Nat] /\ allowance \in [Adapters -> [Assets -> Nat]]
      /\ VaultShares \in Assets =>
           /\ VaultShares \notin trackedAssets
           /\ \A d \in Adapters : allowance[d][VaultShares] = 0
      /\ Amounts \subseteq Nat
  <2>1. PICK S : calls \in Seq(S)  BY DEF ControlInv, IsStack
  <2> QED
    BY <2>1, BoundsAssumption DEF VaultInv, VaultNow, VaultOK, ApprovalsInv, ApprovalsNow,
                                  ApprovalsOK
<1>1. ASSUME UNCHANGED <<accessor, balance, allowance, trackedAssets, calls>>
      PROVE  VaultInv'
  BY <1>1 DEF VaultInv, VaultNow
<1>2. ASSUME NEW c \in Comptrollers, AssetManagerStep(c)  PROVE VaultInv'
  <2>1. ASSUME NEW d \in Adapters, NEW action \in AdapterActions,
               BeginCallOnIntegration(c, d, action)
        PROVE  VaultInv'
    <3> DEFINE e == [kind |-> "integration", comptroller |-> c, adapter |-> d,
                     action |-> action, before |-> State, burned |-> 0,
                     preCallIncoming |-> PreCallIncomingBalances(action)]
    <3>1. /\ e.before = State /\ e.comptroller = c
          /\ e.preCallIncoming = balance
      BY DEF PreCallIncomingBalances
    <3>2. /\ Enter(e) /\ IsUniqueSet(action.spendAssets) /\ HandSpendAssets(d, action)
          /\ c = accessor /\ UNCHANGED <<accessor, trackedAssets>>
      BY <2>1 DEF BeginCallOnIntegration, ValidAssetsForAction, AcceptsCall, OnlyAccessor
    <3> HIDE DEF e
    <3>3. action.spendAssets \in Seq(AmountOf)
      BY ActionsAssumption DEF AdapterAction
    <3>4. /\ balance' \in [Assets -> Nat]
          /\ VaultShares \in Assets =>
               /\ balance'[VaultShares] = balance[VaultShares]
               /\ \A x \in Adapters : allowance'[x][VaultShares] = 0
      <4>1. CASE Approves(action) /\ VaultShares \notin AssetsOf(action.spendAssets)
                   /\ allowance' = ApprovedFor(d, action) /\ UNCHANGED balance
        <5>1. \A x \in Adapters, a \in Assets :
                allowance'[x][a] # allowance[x][a]
                  => x = d /\ a \in AssetsOf(action.spendAssets)
          BY <1>0, <3>2, <4>1, ApprovedForIs
        <5> QED
          BY <1>0, <4>1, <5>1
      <4>2. CASE CanWithdraw(action.spendAssets) /\ balance' = Withdrawn(action.spendAssets)
                   /\ UNCHANGED allowance
        BY <1>0, <3>3, <4>2, WithdrawnIs
      <4>3. CASE UNCHANGED <<balance, allowance>>
        BY <1>0, <4>3
      <4> QED
        BY <3>2, <4>1, <4>2, <4>3 DEF HandSpendAssets
    <3> QED
      BY <3>1, <3>2, <3>4, VaultEnter
  <2>2. ASSUME NEW p \in Positions, NEW action \in PositionActions,
               BeginCallOnExternalPosition(c, p, action)
                 \/ CreateAndCallExternalPosition(c, p, action)
        PROVE  VaultInv'
    <3> DEFINE e == PositionCall(c, p, action)
    <3>1. e.before = State /\ e.comptroller = c /\ e.kind # "integration"
      BY DEF PositionCall
    <3>2. /\ Enter(e) /\ c = accessor
          /\ CanWithdraw(action.assetsToTransfer)
          /\ balance' = Withdrawn(action.assetsToTransfer)
          /\ UNCHANGED <<accessor, allowance, trackedAssets>>
      BY <2>2 DEF BeginCallOnExternalPosition, CreateAndCallExternalPosition, AcceptsCall,
                  OnlyAccessor
    <3> HIDE DEF e
    <3>3. action.assetsToTransfer \in Seq(AmountOf)
      BY ActionsAssumption DEF PositionAction
    <3>4. /\ balance' \in [Assets -> Nat]
          /\ VaultShares \in Assets =>
               /\ balance'[VaultShares] = balance[VaultShares]
               /\ \A x \in Adapters : allowance'[x][VaultShares] = 0
      BY <1>0, <3>2, <3>3, WithdrawnIs
    <3> QED
      BY <3>1, <3>2, <3>4, VaultEnter
  <2>3. ASSUME NEW assets \in Arrays,
               AddTrackedAssets(c, assets) \/ RemoveTrackedAssets(c, assets)
        PROVE  VaultInv'
    <3>1. /\ UNCHANGED <<accessor, balance, allowance, calls>>
          /\ VaultShares \notin trackedAssets => VaultShares \notin trackedAssets'
      BY <2>3 DEF AddTrackedAssets, RemoveTrackedAssets, CanTrack
    <3>2. VaultShares \in Assets => balance[VaultShares] >= balance[VaultShares]
      BY <1>0
    <3> QED
      BY <1>0, <3>1, <3>2, VaultMoves
  <2>4. ASSUME NEW p \in Positions,
               \/ CreateExternalPosition(c, p)
               \/ RemoveExternalPosition(c, p)
               \/ ReactivateExternalPosition(c, p)
        PROVE  VaultInv'
    BY <2>4, <1>1 DEF CreateExternalPosition, RemoveExternalPosition,
                      ReactivateExternalPosition
  <2> QED  BY <1>2, <2>1, <2>2, <2>3, <2>4 DEF AssetManagerStep
<1>3. ASSUME EndCallOnIntegration  PROVE VaultInv'
  <2>1. /\ calls # <<>> /\ Leave /\ UNCHANGED <<accessor, balance>>
        /\ VaultShares \notin AssetsToTrack(Top)
        /\ trackedAssets' = trackedAssets \cup AssetsToTrack(Top)
        /\ allowance' = [allowance EXCEPT ![Top.adapter] =
                           [a \in Assets |-> IF a \in ApprovalsLeft(Top) THEN 0 ELSE @[a]]]
    BY <1>3 DEF EndCallOnIntegration, IsOpen, CanTrack
  <2>2. VaultShares \in Assets => \A d \in Adapters : allowance'[d][VaultShares] = 0
    BY <1>0, <2>1
  <2> QED
    BY <1>0, <2>1, <2>2, VaultLeave
<1>4. ASSUME EndCallOnExternalPosition  PROVE VaultInv'
  BY <1>0, <1>4, VaultLeave DEF EndCallOnExternalPosition, IsOpen, CanTrack
<1>5. ASSUME NEW d \in Adapters, NEW a \in Assets, NEW n \in Amounts, AdapterTakes(d, a, n)
      PROVE  VaultInv'
  <2>1. /\ n \in Nat /\ 0 < n /\ n <= allowance[d][a] /\ n <= balance[a]
        /\ balance' = [balance EXCEPT ![a] = @ - n]
        /\ allowance' = [allowance EXCEPT ![d][a] = @ - n]
        /\ UNCHANGED <<accessor, trackedAssets, calls>>
    BY <1>0, <1>5 DEF AdapterTakes
  <2>2. VaultShares \in Assets => a # VaultShares
    BY <1>0, <2>1
  <2>3. balance' \in [Assets -> Nat]
    BY <1>0, <2>1
  <2>4. VaultShares \in Assets =>
          /\ balance'[VaultShares] >= balance[VaultShares]
          /\ \A x \in Adapters : allowance'[x][VaultShares] = 0
    BY <1>0, <2>1, <2>2
  <2> QED
    BY <1>0, <2>1, <2>3, <2>4, VaultMoves
<1>6. ASSUME NEW a \in Assets, NEW n \in Amounts, RedeemShares(a, n) \/ ProtocolTakes(a, n)
      PROVE  VaultInv'
  <2>1. /\ n \in Nat /\ n <= balance[a] /\ a # VaultShares
        /\ balance' = [balance EXCEPT ![a] = @ - n]
        /\ UNCHANGED <<accessor, allowance, trackedAssets, calls>>
    BY <1>0, <1>6 DEF RedeemShares, ProtocolTakes
  <2>2. balance' \in [Assets -> Nat]
    BY <1>0, <2>1
  <2>3. VaultShares \in Assets => balance'[VaultShares] >= balance[VaultShares]
    BY <1>0, <2>1
  <2> QED
    BY <1>0, <2>1, <2>2, <2>3, VaultMoves
<1>7. ASSUME NEW a \in Assets, NEW n \in Amounts, VaultReceives(a, n)  PROVE VaultInv'
  <2>1. /\ n \in Nat
        /\ balance' = [balance EXCEPT ![a] = @ + n]
        /\ UNCHANGED <<accessor, allowance, trackedAssets, calls>>
    BY <1>0, <1>7 DEF VaultReceives
  <2>2. balance' \in [Assets -> Nat]
    BY <1>0, <2>1
  <2>3. VaultShares \in Assets => balance'[VaultShares] >= balance[VaultShares]
    BY <1>0, <2>1
  <2> QED
    BY <1>0, <2>1, <2>2, <2>3, VaultMoves
<1>8. ASSUME NEW p \in Positions, DeployForAnotherVault(p)  PROVE VaultInv'
  BY <1>8, <1>1 DEF DeployForAnotherVault
<1>9. ASSUME NEW n \in Amounts, BuyBackProtocolFeeShares(n)  PROVE VaultInv'
  BY <1>9, VaultBurn
<1>10. ASSUME NEW next \in Comptrollers, HandOver(next) \/ HandOverBypassingFailure(next)
       PROVE  VaultInv'
  <2>1. /\ trackedAssets' = trackedAssets \cup {DenominationAsset[next]}
        /\ DenominationAsset[next] # VaultShares
        /\ balance' = [a \in Assets |-> IF a = VaultShares THEN 0 ELSE balance[a]]
        /\ status[next] = "configured" /\ accessor' = next
        /\ UNCHANGED <<allowance, calls>>
    BY <1>10, ComptrollersAssumption DEF HandOver, HandOverBypassingFailure, ActivateNext
  <2>2. balance' \in [Assets -> Nat]
    BY <1>0, <2>1
  <2>3. \A i \in 1..Len(calls) : calls[i].comptroller # accessor'
    BY <2>1 DEF ControlInv, ControlNow, ControlOK
  <2> QED
    BY <1>0, <2>1, <2>2, <2>3, VaultMoves
<1>11. ASSUME NEW i \in DOMAIN calls, Revert(i)  PROVE VaultInv'
  BY <1>11, VaultRevert
<1>12. ASSUME UNCHANGED vars  PROVE VaultInv'
  BY <1>12, <1>1 DEF vars
<1>13. ASSUME NEW n \in Amounts, PayOutSharesOutstanding(n)  PROVE VaultInv'
  <2>1. /\ n \in Nat /\ n <= balance[VaultShares] /\ VaultShares \in Assets
        /\ balance' = [balance EXCEPT ![VaultShares] = @ - n]
        /\ UNCHANGED <<accessor, allowance, trackedAssets, calls>>
        /\ ~reentranceLocked[accessor]
    BY <1>0, <1>13 DEF PayOutSharesOutstanding, MayRedeem
  <2>2. balance' \in [Assets -> Nat]
    BY <1>0, <2>1
  <2>3. \A i \in 1..Len(calls) : calls[i].comptroller # accessor'
    BY <2>1 DEF ControlInv, ControlNow, ControlOK
  <2> QED
    BY <1>0, <2>1, <2>2, <2>3, VaultMoves
<1> QED
  BY <1>2, <1>3, <1>4, <1>5, <1>6, <1>7, <1>8, <1>9, <1>10, <1>11, <1>12, <1>13
  DEF Next, OutsideStep

LEMMA VaultCorrect == Spec => [](ControlInv /\ ApprovalsInv /\ VaultInv)
BY ControlInit, ControlStep, ApprovalsInit, ApprovalsStep, VaultInit, VaultStep, PTL
DEF Spec

\* The fund's own shares that the vault holds are no asset of the fund, no
\* adapter may take them, and a call of the ComptrollerProxy in force never
\* finds fewer of them than it began with, in whatever order calls begin, end,
\* fail and nest, fees are paid out and the vault is handed over.
THEOREM OwnSharesAlwaysStay == Spec => []OwnSharesStay
<1>1. ControlInv /\ ApprovalsInv /\ VaultInv => OwnSharesStay
  <2> SUFFICES ASSUME ControlInv, VaultInv PROVE OwnSharesStay  OBVIOUS
  <2>1. DOMAIN calls = 1..Len(calls)
    <3>1. PICK S : calls \in Seq(S)  BY DEF ControlInv, IsStack
    <3> QED  BY <3>1
  <2> QED
    BY <2>1 DEF VaultInv, VaultNow, VaultOK, OwnSharesStay
<1> QED  BY <1>1, VaultCorrect, PTL

\* The innermost call, while one is open.
LEMMA TopIs ==
  ASSUME ControlInv, calls # <<>>
  PROVE  /\ Len(calls) \in Nat /\ Len(calls) \in 1..Len(calls)
         /\ Top = calls[Len(calls)] /\ IsFrame(Top)
<1>1. PICK S : calls \in Seq(S)  BY DEF ControlInv, IsStack
<1>2. Len(calls) \in Nat /\ Len(calls) \in 1..Len(calls)  BY <1>1
<1> QED  BY <1>2 DEF Top, ControlInv, Frames

\* What GainIsNet and ReceivedIsTracked say of one step.
NetGain ==
  EndCallOnIntegration =>
    \A i \in DOMAIN Top.action.incomingAssets :
      LET in == Top.action.incomingAssets[i] IN
      /\ IncomingAmount(Top, in.asset) = balance[in.asset] - Top.before.balance[in.asset]
      /\ balance[in.asset] - Top.before.balance[in.asset] >= in.amount

Tracking ==
  /\ EndCallOnIntegration => AssetsOf(Top.action.incomingAssets) \subseteq trackedAssets'
  /\ EndCallOnExternalPosition => Top.action.assetsToReceive \subseteq trackedAssets'

\* What a call on an adapter reports as received is the vault's gain over the
\* whole call: incoming amounts are measured against what the vault held before
\* any spend asset moved (__preProcessCoI), however calls nest and fail.
THEOREM GainsAreNet == Spec => GainIsNet
<1>1. ControlInv /\ ApprovalsInv /\ VaultInv => NetGain
  <2> SUFFICES ASSUME ControlInv, VaultInv, EndCallOnIntegration
               PROVE  \A i \in DOMAIN Top.action.incomingAssets :
                        LET in == Top.action.incomingAssets[i] IN
                        /\ IncomingAmount(Top, in.asset)
                             = balance[in.asset] - Top.before.balance[in.asset]
                        /\ balance[in.asset] - Top.before.balance[in.asset] >= in.amount
    BY DEF NetGain
  <2>1. calls # <<>> /\ Top.kind = "integration" /\ ReceivedEnough(Top)
    BY DEF EndCallOnIntegration, IsOpen
  <2>2. Top.preCallIncoming = Top.before.balance
    BY <2>1, TopIs DEF VaultInv, Begun
  <2> QED
    BY <2>1, <2>2 DEF ReceivedEnough, IncomingAmount
<1>2. NetGain <=>
        (EndCallOnIntegration =>
           \A i \in DOMAIN Top.action.incomingAssets :
             LET in == Top.action.incomingAssets[i] IN
             /\ IncomingAmount(Top, in.asset)
                  = balance[in.asset] - Top.before.balance[in.asset]
             /\ balance[in.asset] - Top.before.balance[in.asset] >= in.amount)
  BY DEF NetGain
<1> QED  BY <1>1, <1>2, VaultCorrect, PTL DEF GainIsNet

\* Whatever a call brought in and announced counts in the fund's value
\* afterwards.
THEOREM ReceiptsAreTracked == Spec => ReceivedIsTracked
<1>1. [Next]_vars => Tracking
  <2>1. EndCallOnIntegration => AssetsOf(Top.action.incomingAssets) \subseteq trackedAssets'
    BY DEF EndCallOnIntegration, AssetsToTrack
  <2>2. EndCallOnExternalPosition => Top.action.assetsToReceive \subseteq trackedAssets'
    BY DEF EndCallOnExternalPosition
  <2> QED
    BY <2>1, <2>2 DEF Tracking
<1>2. Tracking <=>
        /\ EndCallOnIntegration =>
             AssetsOf(Top.action.incomingAssets) \subseteq trackedAssets'
        /\ EndCallOnExternalPosition => Top.action.assetsToReceive \subseteq trackedAssets'
  BY DEF Tracking
<1> QED  BY <1>1, <1>2, PTL DEF Spec, ReceivedIsTracked

-----------------------------------------------------------------------------
\* Losses.  Only a call whose ComptrollerProxy is still the accessor is
\* bounded: it is then the only one that is open, for a ComptrollerProxy never
\* comes into force again and takes one call at a time.

\* What a call announced that it would move out.
ListOf(call) ==
  IF call.kind = "integration" THEN call.action.spendAssets ELSE call.action.assetsToTransfer

\* An asset that moves while no approval or transfer limits it is only checked
\* in the end.
CheckedLater(call, a) ==
  /\ call.kind = "integration" /\ call.action.spendAssetsHandleType = "None"
  /\ a \in AssetsOf(call.action.spendAssets)

BurnedIn(call, a) == IF a = MlnToken THEN call.burned ELSE 0

\* What the adapter may still take.
LeftOf(call, alw, a) ==
  IF Grants(call, call.adapter, a) THEN alw[call.adapter][a] ELSE 0

LossBounded(call, bal, alw) ==
  /\ call.kind = "integration" => IsUniqueSet(call.action.spendAssets)
  /\ \A a \in Assets :
       CheckedLater(call, a)
         \/ bal[a] + TotalOf(ListOf(call), a) + BurnedIn(call, a)
              >= call.before.balance[a] + LeftOf(call, alw, a)

LossInv ==
  Len(calls) # 0 /\ accessor = calls[1].comptroller =>
    Len(calls) = 1 /\ LossBounded(calls[1], balance, allowance)

AllInv == ControlInv /\ ApprovalsInv /\ VaultInv /\ LossInv

\* What a frame's list is made of.
LEMMA ListIs ==
  ASSUME NEW e, IsFrame(e)
  PROVE  /\ ListOf(e) \in Seq(AmountOf)
         /\ e.burned \in Nat /\ e.comptroller \in Comptrollers
         /\ e.kind \in {"integration", "position"}
         /\ e.kind = "integration" => e.action \in AdapterActions /\ e.adapter \in Adapters
         /\ e.kind = "position" => e.action \in PositionActions
<1>1. /\ e.burned \in Nat /\ e.comptroller \in Comptrollers
      /\ e.kind \in {"integration", "position"}
      /\ e.kind = "integration" => e.action \in AdapterActions /\ e.adapter \in Adapters
      /\ e.kind = "position" => e.action \in PositionActions
  BY DEF IsFrame
<1>2. ListOf(e) \in Seq(AmountOf)
  BY <1>1, ActionsAssumption DEF ListOf, AdapterAction, PositionAction
<1> QED
  BY <1>1, <1>2

\* The first of the calls.
LEMMA FirstIs ==
  ASSUME ControlInv, ApprovalsInv, VaultInv, Len(calls) # 0
  PROVE  /\ Len(calls) \in Nat /\ 1 \in 1..Len(calls)
         /\ IsFrame(calls[1])
         /\ reentranceLocked[calls[1].comptroller]
         /\ status[calls[1].comptroller] = "activated"
         /\ calls[1].before.balance \in [Assets -> Nat]
         /\ balance \in [Assets -> Nat] /\ allowance \in [Adapters -> [Assets -> Nat]]
         /\ \A a \in Assets :
              /\ TotalOf(ListOf(calls[1]), a) \in Nat
              /\ BurnedIn(calls[1], a) \in Nat
              /\ LeftOf(calls[1], allowance, a) \in Nat
<1>1. Len(calls) \in Nat
  <2>1. PICK S : calls \in Seq(S)  BY DEF ControlInv, IsStack
  <2> QED  BY <2>1
<1>2. 1 \in 1..Len(calls)
  BY <1>1
<1>3. IsFrame(calls[1])
  BY <1>2 DEF ControlInv, Frames
<1>4. calls[1].comptroller \in Comptrollers
  BY <1>3, ListIs
<1>5. reentranceLocked[calls[1].comptroller] /\ status[calls[1].comptroller] = "activated"
  BY <1>2, <1>4 DEF ControlInv, ControlNow, ControlOK
<1>6. /\ calls[1].before.balance \in [Assets -> Nat]
      /\ balance \in [Assets -> Nat] /\ allowance \in [Adapters -> [Assets -> Nat]]
  BY <1>2 DEF VaultInv, VaultNow, VaultSaved, VaultOK, ApprovalsInv, ApprovalsNow, ApprovalsOK
<1>7. ASSUME NEW a \in Assets
      PROVE  /\ TotalOf(ListOf(calls[1]), a) \in Nat
             /\ BurnedIn(calls[1], a) \in Nat
             /\ LeftOf(calls[1], allowance, a) \in Nat
  <2>1. TotalOf(ListOf(calls[1]), a) \in Nat
    BY <1>3, ListIs, TotalOfFacts
  <2>2. BurnedIn(calls[1], a) \in Nat
    BY <1>3, ListIs DEF BurnedIn
  <2>3. LeftOf(calls[1], allowance, a) \in Nat
    <3>1. CASE Grants(calls[1], calls[1].adapter, a)
      <4>1. calls[1].adapter \in Adapters
        BY <1>3, <3>1, ListIs DEF Grants
      <4> QED
        BY <1>6, <3>1, <4>1 DEF LeftOf
    <3>2. CASE ~Grants(calls[1], calls[1].adapter, a)
      BY <3>2 DEF LeftOf
    <3> QED
      BY <3>1, <3>2
  <2> QED
    BY <2>1, <2>2, <2>3
<1> QED
  BY <1>1, <1>2, <1>3, <1>5, <1>6, <1>7

\* A call begins.  If others are open the accessor has none of them.
LEMMA LossEnter ==
  ASSUME AllInv, NEW e, Enter(e), accessor' = accessor, ~reentranceLocked[accessor],
         calls = <<>> => LossBounded(e, balance', allowance')
  PROVE  LossInv'
<1>1. /\ Len(calls') = Len(calls) + 1 /\ Len(calls) \in Nat
      /\ calls'[Len(calls) + 1] = e
      /\ \A i \in 1..Len(calls) : calls'[i] = calls[i]
  BY Pushing DEF AllInv, ControlInv, Enter
<1>2. CASE calls = <<>>
  <2>1. Len(calls) = 0
    BY <1>2
  <2> QED
    BY <1>1, <1>2, <2>1 DEF LossInv
<1>3. CASE calls # <<>>
  <2>1. Len(calls) # 0
    <3>1. PICK S : calls \in Seq(S)  BY DEF AllInv, ControlInv, IsStack
    <3> QED  BY <3>1, <1>3
  <2>2. 1 \in 1..Len(calls) /\ reentranceLocked[calls[1].comptroller]
    BY <2>1, FirstIs DEF AllInv
  <2>3. calls'[1].comptroller # accessor
    BY <1>1, <2>2
  <2> QED
    BY <2>3 DEF LossInv
<1> QED
  BY <1>2, <1>3

\* A call that begins has lost nothing yet but what it handed out.
LEMMA BeganWithin ==
  ASSUME AllInv, calls = <<>>, NEW c \in Comptrollers, NEW d \in Adapters,
         NEW action \in AdapterActions, BeginCallOnIntegration(c, d, action),
         NEW e, e.before.balance = balance, e.kind = "integration", e.adapter = d,
         e.action = action, e.burned = 0
  PROVE  LossBounded(e, balance', allowance')
<1> DEFINE list == action.spendAssets
<1>1. /\ Len(calls) = 0 /\ balance \in [Assets -> Nat]
      /\ allowance \in [Adapters -> [Assets -> Nat]]
  BY DEF AllInv, VaultInv, VaultNow, VaultOK, ApprovalsInv, ApprovalsNow, ApprovalsOK
<1>2. list \in Seq(AmountOf) /\ IsUniqueSet(list) /\ HandSpendAssets(d, action)
  BY ActionsAssumption DEF AdapterAction, BeginCallOnIntegration, ValidAssetsForAction
<1>3. ListOf(e) = list
  BY DEF ListOf
<1>4. ASSUME NEW a \in Assets
      PROVE  balance'[a] + TotalOf(list, a) + BurnedIn(e, a)
               >= e.before.balance[a] + LeftOf(e, allowance', a)
  <2>1. TotalOf(list, a) \in Nat /\ balance[a] \in Nat /\ BurnedIn(e, a) = 0
    BY <1>1, <1>2, TotalOfFacts DEF BurnedIn
  <2>2. Grants(e, d, a) <=> Approves(action) /\ a \in AssetsOf(list)
    BY DEF Grants
  <2>3. LeftOf(e, allowance', a) = IF Grants(e, d, a) THEN allowance'[d][a] ELSE 0
    BY DEF LeftOf
  <2>4. CASE Approves(action) /\ allowance' = ApprovedFor(d, action) /\ UNCHANGED balance
    <3>1. CASE a \in AssetsOf(list)
      <4>1. allowance'[d][a] = LastOf(list, a)
        BY <1>1, <2>4, <3>1 DEF ApprovedFor
      <4>2. PICK i \in DOMAIN list : list[i].asset = a
        BY <3>1 DEF AssetsOf
      <4>3. TotalOf(list, a) = list[i].amount
        BY <1>2, <4>2, TotalOfFacts
      <4>4. LastOf(list, a) = list[i].amount
        <5> HIDE DEF list
        <5>1. DOMAIN list = 1..Len(list) /\ Len(list) \in Nat
          BY <1>2
        <5>2. \A j \in DOMAIN list : list[j].asset = a => j = i
          BY <1>2, <4>2 DEF IsUniqueSet
        <5> DEFINE last == CHOOSE j \in DOMAIN list :
                             /\ list[j].asset = a
                             /\ \A k \in DOMAIN list : list[k].asset = a => k <= j
        <5>3. i <= i
          BY <5>1
        <5>4. \E j \in DOMAIN list : /\ list[j].asset = a
                                     /\ \A k \in DOMAIN list : list[k].asset = a => k <= j
          BY <4>2, <5>2, <5>3
        <5>5. last \in DOMAIN list /\ list[last].asset = a
          BY <5>4
        <5>6. last = i
          BY <5>2, <5>5
        <5> QED
          BY <5>6 DEF LastOf
      <4> QED
        BY <2>1, <2>2, <2>3, <2>4, <3>1, <4>1, <4>3, <4>4
    <3>2. CASE a \notin AssetsOf(list)
      BY <2>1, <2>2, <2>3, <2>4, <3>2
    <3> QED
      BY <3>1, <3>2
  <2>5. CASE ~Approves(action) /\ CanWithdraw(list) /\ balance' = Withdrawn(list)
    <3>1. balance'[a] + TotalOf(list, a) = balance[a] /\ balance'[a] \in Nat
      BY <1>1, <1>2, <2>5, WithdrawnIs
    <3> QED
      BY <2>1, <2>2, <2>3, <2>5, <3>1
  <2>6. CASE ~Approves(action) /\ UNCHANGED balance
    BY <2>1, <2>2, <2>3, <2>6
  <2> QED
    BY <1>2, <2>4, <2>5, <2>6 DEF HandSpendAssets, Approves
<1> QED
  BY <1>2, <1>3, <1>4 DEF LossBounded

LEMMA PositionBeganWithin ==
  ASSUME AllInv, NEW c \in Comptrollers, NEW p \in Positions, NEW action \in PositionActions,
         CanWithdraw(action.assetsToTransfer), balance' = Withdrawn(action.assetsToTransfer)
  PROVE  LossBounded(PositionCall(c, p, action), balance', allowance')
<1> DEFINE e == PositionCall(c, p, action)
           list == action.assetsToTransfer
<1>1. /\ e.kind = "position" /\ e.action = action /\ e.burned = 0
      /\ e.before.balance = balance
  BY DEF PositionCall, State
<1>2. list \in Seq(AmountOf) /\ balance \in [Assets -> Nat]
  BY ActionsAssumption DEF PositionAction, AllInv, VaultInv, VaultNow, VaultOK
<1>3. ListOf(e) = list
  BY <1>1 DEF ListOf
<1> HIDE DEF e
<1>4. ASSUME NEW a \in Assets
      PROVE  balance'[a] + TotalOf(list, a) + BurnedIn(e, a)
               >= e.before.balance[a] + LeftOf(e, allowance', a)
  <2>1. BurnedIn(e, a) = 0 /\ LeftOf(e, allowance', a) = 0
    BY <1>1 DEF BurnedIn, LeftOf, Grants
  <2>2. balance'[a] + TotalOf(list, a) = balance[a] /\ balance[a] \in Nat
    BY <1>2, WithdrawnIs
  <2> QED
    BY <1>1, <2>1, <2>2
<1> QED
  BY <1>1, <1>3, <1>4 DEF LossBounded, e

\* What is gained covers what is left more of, and what is burned is told.
LEMMA Covered ==
  ASSUME NEW b \in Nat, NEW t \in Nat, NEW u \in Nat, NEW x \in Nat, NEW l \in Nat,
         NEW b1 \in Nat, NEW u1 \in Nat, NEW l1 \in Nat,
         b + t + u >= x + l, (b1 + u1) - (b + u) >= l1 - l
  PROVE  b1 + t + u1 >= x + l1
BY SMT

\* A step that neither opens nor ends a call, under the same accessor.
LEMMA LossMoves ==
  ASSUME AllInv, calls' = calls, accessor' = accessor,
         Len(calls) = 1 /\ accessor = calls[1].comptroller =>
           \A a \in Assets :
             CheckedLater(calls[1], a)
               \/ balance'[a] - balance[a]
                    >= LeftOf(calls[1], allowance', a) - LeftOf(calls[1], allowance, a),
         balance' \in [Assets -> Nat], allowance' \in [Adapters -> [Assets -> Nat]]
  PROVE  LossInv'
<1> SUFFICES ASSUME Len(calls) # 0, accessor = calls[1].comptroller
             PROVE  Len(calls) = 1 /\ LossBounded(calls[1], balance', allowance')
  BY DEF LossInv
<1>1. Len(calls) = 1 /\ LossBounded(calls[1], balance, allowance)
  BY DEF AllInv, LossInv
<1>2. ASSUME NEW a \in Assets, ~CheckedLater(calls[1], a)
      PROVE  balance'[a] + TotalOf(ListOf(calls[1]), a) + BurnedIn(calls[1], a)
               >= calls[1].before.balance[a] + LeftOf(calls[1], allowance', a)
  <2>1. balance[a] + TotalOf(ListOf(calls[1]), a) + BurnedIn(calls[1], a)
          >= calls[1].before.balance[a] + LeftOf(calls[1], allowance, a)
    BY <1>1, <1>2 DEF LossBounded
  <2>2. balance'[a] - balance[a]
          >= LeftOf(calls[1], allowance', a) - LeftOf(calls[1], allowance, a)
    BY <1>1, <1>2
  <2>3. /\ TotalOf(ListOf(calls[1]), a) \in Nat /\ BurnedIn(calls[1], a) \in Nat
        /\ LeftOf(calls[1], allowance, a) \in Nat
        /\ calls[1].before.balance[a] \in Nat /\ balance[a] \in Nat
    BY FirstIs DEF AllInv
  <2>4. balance'[a] \in Nat
    OBVIOUS
  <2>5. LeftOf(calls[1], allowance', a) \in Nat
    <3>1. CASE Grants(calls[1], calls[1].adapter, a)
      <4>1. calls[1].adapter \in Adapters
        BY <3>1, FirstIs, ListIs DEF Grants, AllInv
      <4> QED
        BY <3>1, <4>1 DEF LeftOf
    <3>2. CASE ~Grants(calls[1], calls[1].adapter, a)
      BY <3>2 DEF LeftOf
    <3> QED
      BY <3>1, <3>2
  <2>6. (balance'[a] + BurnedIn(calls[1], a)) - (balance[a] + BurnedIn(calls[1], a))
          >= LeftOf(calls[1], allowance', a) - LeftOf(calls[1], allowance, a)
    BY <2>2, <2>3, <2>4, <2>5
  <2> DEFINE b == balance[a]
             t == TotalOf(ListOf(calls[1]), a)
             u == BurnedIn(calls[1], a)
             x == calls[1].before.balance[a]
             l == LeftOf(calls[1], allowance, a)
             b1 == balance'[a]
             l1 == LeftOf(calls[1], allowance', a)
  <2>7. /\ b \in Nat /\ t \in Nat /\ u \in Nat /\ x \in Nat /\ l \in Nat
        /\ b1 \in Nat /\ l1 \in Nat
        /\ b + t + u >= x + l /\ (b1 + u) - (b + u) >= l1 - l
    BY <2>1, <2>3, <2>4, <2>5, <2>6
  <2>8. b1 + t + u >= x + l1
    <3> HIDE DEF b, t, u, x, l, b1, l1
    <3> QED
      BY <2>7, Covered
  <2> QED
    BY <2>8
<1> QED
  BY <1>1, <1>2 DEF LossBounded

\* Calls end from the innermost on.
LEMMA LossLeave ==
  ASSUME AllInv, calls # <<>>, Leave, accessor' = accessor
  PROVE  LossInv'
<1>0. Len(calls) \in Nat /\ Len(calls) > 0
  <2>1. PICK S : calls \in Seq(S)  BY DEF AllInv, ControlInv, IsStack
  <2> QED  BY <2>1
<1> DEFINE n == Len(calls) - 1
<1>1. n \in Nat /\ n <= Len(calls) /\ calls' = SubSeq(calls, 1, n)
  BY <1>0 DEF Leave
<1>2. Len(calls') = n /\ \A i \in 1..n : calls'[i] = calls[i]
  BY <1>1, VaultCut DEF AllInv
<1> QED
  BY <1>0, <1>2 DEF AllInv, LossInv

LEMMA LossRevert ==
  ASSUME AllInv, NEW i \in DOMAIN calls, Revert(i)
  PROVE  LossInv'
<1>1. DOMAIN calls = 1..Len(calls) /\ Len(calls) \in Nat
  <2>1. PICK S : calls \in Seq(S)  BY DEF AllInv, ControlInv, IsStack
  <2> QED  BY <2>1
<1> DEFINE n == i - 1
<1>2. n \in Nat /\ n <= Len(calls) /\ calls' = SubSeq(calls, 1, n)
  BY <1>1 DEF Revert
<1>3. Len(calls') = n /\ \A j \in 1..n : calls'[j] = calls[j]
  BY <1>2, VaultCut DEF AllInv
<1>4. accessor' = calls[i].comptroller
  BY <1>1 DEF Revert, AllInv, VaultInv, Begun
<1>5. ASSUME n # 0 PROVE calls'[1].comptroller # accessor'
  <2>1. 1 \in 1..Len(calls) /\ i \in 1..Len(calls) /\ i # 1 /\ calls'[1] = calls[1]
    BY <1>1, <1>2, <1>3, <1>5
  <2> QED
    BY <1>4, <2>1 DEF AllInv, ControlInv, Distinct
<1> QED
  BY <1>3, <1>5 DEF LossInv

\* Burning MLN is recorded in the call that is open.
LEMMA LossBurn ==
  ASSUME AllInv, NEW n \in Amounts, BuyBackProtocolFeeShares(n)
  PROVE  LossInv'
<1>1. /\ n \in Nat /\ n <= balance[MlnToken] /\ MlnToken \in Assets
      /\ balance \in [Assets -> Nat]
  BY BoundsAssumption, AssetsAssumption
  DEF BuyBackProtocolFeeShares, AllInv, VaultInv, VaultNow, VaultOK
<1>2. /\ balance' = [balance EXCEPT ![MlnToken] = @ - n]
      /\ UNCHANGED <<accessor, allowance>>
  BY DEF BuyBackProtocolFeeShares
<1>3. /\ Len(calls') = Len(calls) /\ Len(calls) \in Nat
      /\ \A i \in 1..Len(calls) :
           /\ calls'[i].kind = calls[i].kind
           /\ calls'[i].comptroller = calls[i].comptroller
           /\ calls'[i].action = calls[i].action
           /\ calls'[i].before = calls[i].before
           /\ calls[i].kind = "integration" => calls'[i].adapter = calls[i].adapter
           /\ calls[i].burned \in Nat
           /\ calls'[i].burned = calls[i].burned + (IF i = Len(calls) THEN n ELSE 0)
  BY <1>1, Burning DEF BuyBackProtocolFeeShares, AllInv
<1> SUFFICES ASSUME Len(calls) # 0, accessor = calls[1].comptroller
             PROVE  Len(calls) = 1 /\ LossBounded(calls'[1], balance', allowance)
  <2>1. Len(calls) # 0 => calls'[1].comptroller = calls[1].comptroller
    BY <1>3
  <2> QED
    BY <1>2, <1>3, <2>1 DEF LossInv
<1>4. Len(calls) = 1 /\ LossBounded(calls[1], balance, allowance)
  BY DEF AllInv, LossInv
<1> DEFINE e == calls[1]
           g == calls'[1]
<1>5. /\ g.kind = e.kind /\ g.action = e.action /\ g.before = e.before
      /\ e.kind = "integration" => g.adapter = e.adapter
      /\ e.burned \in Nat /\ g.burned = e.burned + n
  BY <1>3, <1>4
<1>6. ASSUME NEW a \in Assets
      PROVE  /\ TotalOf(ListOf(e), a) \in Nat /\ BurnedIn(e, a) \in Nat
             /\ LeftOf(e, allowance, a) \in Nat /\ e.before.balance[a] \in Nat
  BY FirstIs DEF AllInv
<1> HIDE DEF e, g
<1>7. ASSUME NEW a \in Assets, ~CheckedLater(g, a)
      PROVE  balance'[a] + TotalOf(ListOf(g), a) + BurnedIn(g, a)
               >= g.before.balance[a] + LeftOf(g, allowance, a)
  <2>1. ListOf(g) = ListOf(e) /\ ~CheckedLater(e, a)
    BY <1>5, <1>7 DEF ListOf, CheckedLater
  <2>2. LeftOf(g, allowance, a) = LeftOf(e, allowance, a)
    BY <1>5 DEF LeftOf, Grants
  <2>3. balance[a] + TotalOf(ListOf(e), a) + BurnedIn(e, a)
          >= e.before.balance[a] + LeftOf(e, allowance, a)
    BY <1>4, <2>1 DEF LossBounded, e
  <2>4. balance'[a] + BurnedIn(g, a) = balance[a] + BurnedIn(e, a)
          /\ balance'[a] \in Nat /\ BurnedIn(g, a) \in Nat /\ balance[a] \in Nat
    BY <1>1, <1>2, <1>5 DEF BurnedIn
  <2>5. /\ TotalOf(ListOf(e), a) \in Nat /\ BurnedIn(e, a) \in Nat
        /\ LeftOf(e, allowance, a) \in Nat /\ e.before.balance[a] \in Nat
    BY <1>6
  <2>6. (balance'[a] + BurnedIn(g, a)) - (balance[a] + BurnedIn(e, a))
          >= LeftOf(e, allowance, a) - LeftOf(e, allowance, a)
    BY <2>4, <2>5
  <2>7. balance'[a] + TotalOf(ListOf(e), a) + BurnedIn(g, a)
          >= e.before.balance[a] + LeftOf(e, allowance, a)
    <3> DEFINE b == balance[a]
               t == TotalOf(ListOf(e), a)
               u == BurnedIn(e, a)
               x == e.before.balance[a]
               l == LeftOf(e, allowance, a)
               b1 == balance'[a]
               u1 == BurnedIn(g, a)
    <3>1. /\ b \in Nat /\ t \in Nat /\ u \in Nat /\ x \in Nat /\ l \in Nat
          /\ b1 \in Nat /\ u1 \in Nat
          /\ b + t + u >= x + l /\ (b1 + u1) - (b + u) >= l - l
      BY <2>3, <2>4, <2>5, <2>6
    <3>2. b1 + t + u1 >= x + l
      <4> HIDE DEF b, t, u, x, l, b1, u1
      <4> QED
        BY <3>1, Covered
    <3> QED
      BY <3>2
  <2> QED
    BY <1>5, <2>1, <2>2, <2>7
<1>8. g.kind = "integration" => IsUniqueSet(g.action.spendAssets)
  BY <1>4, <1>5 DEF LossBounded, e
<1> QED
  BY <1>4, <1>7, <1>8 DEF LossBounded, g

LEMMA LossStep == AllInv /\ [Next]_vars => LossInv'
<1> SUFFICES ASSUME AllInv, [Next]_vars PROVE LossInv'
  OBVIOUS
<1> USE DEF mutexVars
<1>0. /\ Len(calls) \in Nat
      /\ balance \in [Assets -> Nat] /\ allowance \in [Adapters -> [Assets -> Nat]]
      /\ Amounts \subseteq Nat
      /\ accessor \in Comptrollers
  <2>1. PICK S : calls \in Seq(S)  BY DEF AllInv, ControlInv, IsStack
  <2> QED
    BY <2>1, BoundsAssumption DEF AllInv, VaultInv, VaultNow, VaultOK, ApprovalsInv,
                                  ApprovalsNow, ApprovalsOK, ControlInv, ControlNow, ControlOK
<1>1. ASSUME UNCHANGED <<accessor, balance, allowance, calls>>  PROVE LossInv'
  BY <1>1 DEF AllInv, LossInv
<1>2. ASSUME NEW c \in Comptrollers, AssetManagerStep(c)  PROVE LossInv'
  <2>1. ASSUME NEW d \in Adapters, NEW action \in AdapterActions,
               BeginCallOnIntegration(c, d, action)
        PROVE  LossInv'
    <3> DEFINE e == [kind |-> "integration", comptroller |-> c, adapter |-> d,
                     action |-> action, before |-> State, burned |-> 0,
                     preCallIncoming |-> PreCallIncomingBalances(action)]
    <3>1. /\ e.before.balance = balance /\ e.kind = "integration" /\ e.adapter = d
          /\ e.action = action /\ e.burned = 0
      BY DEF State
    <3>2. Enter(e) /\ accessor' = accessor /\ ~reentranceLocked[accessor]
      BY <2>1 DEF BeginCallOnIntegration, AcceptsCall, OnlyAccessor, MayEnter
    <3> HIDE DEF e
    <3>3. ASSUME calls = <<>> PROVE LossBounded(e, balance', allowance')
      BY <2>1, <3>1, <3>3, BeganWithin
    <3> QED
      BY <3>2, <3>3, LossEnter
  <2>2. ASSUME NEW p \in Positions, NEW action \in PositionActions,
               BeginCallOnExternalPosition(c, p, action)
                 \/ CreateAndCallExternalPosition(c, p, action)
        PROVE  LossInv'
    <3>1. /\ Enter(PositionCall(c, p, action))
          /\ accessor' = accessor /\ ~reentranceLocked[accessor]
          /\ CanWithdraw(action.assetsToTransfer)
          /\ balance' = Withdrawn(action.assetsToTransfer)
      BY <2>2 DEF BeginCallOnExternalPosition, CreateAndCallExternalPosition, AcceptsCall,
                  OnlyAccessor, MayEnter
    <3>2. LossBounded(PositionCall(c, p, action), balance', allowance')
      BY <3>1, PositionBeganWithin
    <3> QED
      BY <3>1, <3>2, LossEnter
  <2>3. ASSUME NEW assets \in Arrays,
               AddTrackedAssets(c, assets) \/ RemoveTrackedAssets(c, assets)
        PROVE  LossInv'
    BY <2>3, <1>1 DEF AddTrackedAssets, RemoveTrackedAssets
  <2>4. ASSUME NEW p \in Positions,
               \/ CreateExternalPosition(c, p)
               \/ RemoveExternalPosition(c, p)
               \/ ReactivateExternalPosition(c, p)
        PROVE  LossInv'
    BY <2>4, <1>1 DEF CreateExternalPosition, RemoveExternalPosition,
                      ReactivateExternalPosition
  <2> QED  BY <1>2, <2>1, <2>2, <2>3, <2>4 DEF AssetManagerStep
<1>3. ASSUME EndCallOnIntegration \/ EndCallOnExternalPosition  PROVE LossInv'
  BY <1>3, LossLeave DEF EndCallOnIntegration, EndCallOnExternalPosition, IsOpen
<1>4. ASSUME NEW d \in Adapters, NEW a \in Assets, NEW n \in Amounts, AdapterTakes(d, a, n)
      PROVE  LossInv'
  <2>1. /\ n \in Nat /\ 0 < n /\ n <= allowance[d][a] /\ n <= balance[a]
        /\ balance' = [balance EXCEPT ![a] = @ - n]
        /\ allowance' = [allowance EXCEPT ![d][a] = @ - n]
        /\ UNCHANGED <<accessor, calls>>
    BY <1>0, <1>4 DEF AdapterTakes
  <2>2. balance' \in [Assets -> Nat] /\ allowance' \in [Adapters -> [Assets -> Nat]]
    BY <1>0, <2>1
  <2>3. ASSUME Len(calls) = 1, NEW b \in Assets
        PROVE  balance'[b] - balance[b]
                 >= LeftOf(calls[1], allowance', b) - LeftOf(calls[1], allowance, b)
    <3> DEFINE x == calls[1].adapter
    <3>1. Grants(calls[1], d, a)
      <4>1. \E i \in 1..Len(calls) : Grants(calls[i], d, a)
        BY <1>0, <2>1 DEF AllInv, ApprovalsInv, ApprovalsNow, ApprovalsOK
      <4> QED
        BY <2>3, <4>1
    <3>2. x = d /\ Grants(calls[1], x, a)
      BY <3>1 DEF Grants
    <3>3. CASE b = a
      <4>1. LeftOf(calls[1], allowance', b) = allowance'[d][a]
              /\ LeftOf(calls[1], allowance, b) = allowance[d][a]
        BY <3>2, <3>3 DEF LeftOf
      <4>2. balance'[a] = balance[a] - n /\ allowance'[d][a] = allowance[d][a] - n
              /\ balance[a] \in Nat /\ allowance[d][a] \in Nat
        BY <1>0, <2>1
      <4> QED
        BY <2>1, <3>3, <4>1, <4>2
    <3>4. CASE b # a
      <4>1. balance'[b] = balance[b] /\ allowance'[d][b] = allowance[d][b]
              /\ balance[b] \in Nat /\ allowance[d][b] \in Nat
        BY <1>0, <2>1, <3>4
      <4>2. LeftOf(calls[1], allowance', b) = LeftOf(calls[1], allowance, b)
              /\ LeftOf(calls[1], allowance, b) \in Nat
        BY <3>2, <4>1 DEF LeftOf
      <4> QED
        BY <4>1, <4>2
    <3> QED
      BY <3>3, <3>4
  <2> QED
    BY <2>1, <2>2, <2>3, LossMoves
<1>5. ASSUME NEW b \in Assets, Len(calls) = 1
      PROVE  /\ LeftOf(calls[1], allowance, b) \in Nat /\ balance[b] \in Nat
             /\ LeftOf(calls[1], allowance, b) - LeftOf(calls[1], allowance, b) = 0
  <2>1. LeftOf(calls[1], allowance, b) \in Nat /\ balance[b] \in Nat
    BY <1>0, <1>5, FirstIs DEF AllInv
  <2> QED
    BY <2>1
<1>6. ASSUME NEW a \in Assets, NEW n \in Amounts, ProtocolTakes(a, n)  PROVE LossInv'
  <2>1. /\ n \in Nat /\ n <= balance[a]
        /\ balance' = [balance EXCEPT ![a] = @ - n]
        /\ UNCHANGED <<accessor, allowance, calls>>
        /\ Top.kind = "integration" /\ Top.action.spendAssetsHandleType = "None"
        /\ a \in AssetsOf(Top.action.spendAssets)
    BY <1>0, <1>6 DEF ProtocolTakes, IsOpen
  <2>2. balance' \in [Assets -> Nat]
    BY <1>0, <2>1
  <2>3. ASSUME Len(calls) = 1, NEW b \in Assets, ~CheckedLater(calls[1], b)
        PROVE  balance'[b] - balance[b]
                 >= LeftOf(calls[1], allowance', b) - LeftOf(calls[1], allowance, b)
    <3>1. b # a
      BY <2>1, <2>3 DEF CheckedLater, Top
    <3>2. balance'[b] = balance[b] /\ allowance' = allowance
      BY <1>0, <2>1, <3>1
    <3> QED
      BY <1>5, <2>3, <3>2
  <2> QED
    BY <1>0, <2>1, <2>2, <2>3, LossMoves
<1>7. ASSUME NEW a \in Assets, NEW n \in Amounts, VaultReceives(a, n)  PROVE LossInv'
  <2>1. /\ n \in Nat
        /\ balance' = [balance EXCEPT ![a] = @ + n]
        /\ UNCHANGED <<accessor, allowance, calls>>
    BY <1>0, <1>7 DEF VaultReceives
  <2>2. balance' \in [Assets -> Nat]
    BY <1>0, <2>1
  <2>3. ASSUME Len(calls) = 1, NEW b \in Assets
        PROVE  balance'[b] - balance[b]
                 >= LeftOf(calls[1], allowance', b) - LeftOf(calls[1], allowance, b)
    <3>1. balance'[b] - balance[b] >= 0 /\ allowance' = allowance
      BY <1>0, <2>1
    <3> QED
      BY <1>5, <2>3, <3>1
  <2> QED
    BY <1>0, <2>1, <2>2, <2>3, LossMoves
<1>8. ASSUME NEW a \in Assets, NEW n \in Amounts, RedeemShares(a, n)  PROVE LossInv'
  <2>1. /\ n \in Nat /\ n <= balance[a]
        /\ balance' = [balance EXCEPT ![a] = @ - n]
        /\ UNCHANGED <<accessor, allowance, calls>>
        /\ ~reentranceLocked[accessor]
    BY <1>0, <1>8 DEF RedeemShares, MayRedeem
  <2>2. balance' \in [Assets -> Nat]
    BY <1>0, <2>1
  <2>3. Len(calls) = 1 => calls[1].comptroller # accessor
    BY <2>1, FirstIs DEF AllInv
  <2> QED
    BY <1>0, <2>1, <2>2, <2>3, LossMoves
<1>9. ASSUME NEW p \in Positions, DeployForAnotherVault(p)  PROVE LossInv'
  BY <1>9, <1>1 DEF DeployForAnotherVault
<1>10. ASSUME NEW n \in Amounts, BuyBackProtocolFeeShares(n)  PROVE LossInv'
  BY <1>10, LossBurn
<1>11. ASSUME NEW next \in Comptrollers, HandOver(next) \/ HandOverBypassingFailure(next)
       PROVE  LossInv'
  <2>1. status[next] = "configured" /\ accessor' = next /\ calls' = calls
    BY <1>11 DEF HandOver, HandOverBypassingFailure, ActivateNext
  <2>2. Len(calls) # 0 => calls[1].comptroller # next
    BY <2>1, FirstIs DEF AllInv
  <2> QED
    BY <2>1, <2>2 DEF LossInv
<1>12. ASSUME NEW i \in DOMAIN calls, Revert(i)  PROVE LossInv'
  BY <1>12, LossRevert
<1>13. ASSUME UNCHANGED vars  PROVE LossInv'
  BY <1>13, <1>1 DEF vars
<1>14. ASSUME NEW n \in Amounts, PayOutSharesOutstanding(n)  PROVE LossInv'
  <2>1. /\ n \in Nat /\ n <= balance[VaultShares] /\ VaultShares \in Assets
        /\ balance' = [balance EXCEPT ![VaultShares] = @ - n]
        /\ UNCHANGED <<accessor, allowance, calls>>
        /\ ~reentranceLocked[accessor]
    BY <1>0, <1>14 DEF PayOutSharesOutstanding, MayRedeem
  <2>2. balance' \in [Assets -> Nat]
    BY <1>0, <2>1
  <2>3. Len(calls) = 1 => calls[1].comptroller # accessor
    BY <2>1, FirstIs DEF AllInv
  <2> QED
    BY <1>0, <2>1, <2>2, <2>3, LossMoves
<1> QED
  BY <1>2, <1>3, <1>4, <1>6, <1>7, <1>8, <1>9, <1>10, <1>11, <1>12, <1>13,
     <1>14
  DEF Next, OutsideStep

LEMMA AllCorrect == Spec => []AllInv
<1>1. Init => LossInv
  BY DEF Init, LossInv
<1>2. AllInv /\ [Next]_vars => AllInv'
  BY ControlStep, ApprovalsStep, VaultStep, LossStep DEF AllInv
<1>3. Init => AllInv
  BY <1>1, ControlInit, ApprovalsInit, VaultInit DEF AllInv
<1> QED  BY <1>2, <1>3, PTL DEF Spec

\* What LossWithinAnnounced says of one step.
IntegrationLoss ==
  EndCallOnIntegration /\ Undisturbed =>
    /\ \A i \in DOMAIN Top.action.spendAssets :
         LET out == Top.action.spendAssets[i] IN
         balance[out.asset] + out.amount + Burned(out.asset)
           >= Top.before.balance[out.asset]
    /\ \A a \in Assets \ AssetsOf(Top.action.spendAssets) :
         balance[a] + Burned(a) >= Top.before.balance[a]

PositionLoss ==
  EndCallOnExternalPosition /\ Undisturbed =>
    \A a \in Assets :
      balance[a] + TotalOf(Top.action.assetsToTransfer, a) + Burned(a)
        >= Top.before.balance[a]

\* The call that ends undisturbed is the one whose loss is bounded.
LEMMA UndisturbedIs ==
  ASSUME AllInv, Undisturbed
  PROVE  /\ Len(calls) # 0 /\ Top = calls[1] /\ IsFrame(Top)
         /\ LossBounded(Top, balance, allowance)
         /\ \A a \in Assets :
              /\ Burned(a) = BurnedIn(Top, a)
              /\ Burned(a) \in Nat /\ balance[a] \in Nat /\ Top.before.balance[a] \in Nat
              /\ TotalOf(ListOf(Top), a) \in Nat /\ LeftOf(Top, allowance, a) \in Nat
<1>1. Len(calls) = 1 /\ Top = calls[1] /\ calls[1].before.accessor = accessor
  BY DEF Undisturbed, Top
<1>2. accessor = calls[1].comptroller
  BY <1>1, FirstIs DEF AllInv, VaultInv, Begun
<1>3. LossBounded(calls[1], balance, allowance)
  BY <1>1, <1>2 DEF AllInv, LossInv
<1>4. \A a \in Assets : Burned(a) = BurnedIn(Top, a)
  BY DEF Burned, BurnedIn
<1> QED
  BY <1>1, <1>3, <1>4, FirstIs DEF AllInv

LEMMA IntegrationLossIs == AllInv => IntegrationLoss
<1> SUFFICES ASSUME AllInv, EndCallOnIntegration, Undisturbed
             PROVE  /\ \A i \in DOMAIN Top.action.spendAssets :
                         LET out == Top.action.spendAssets[i] IN
                         balance[out.asset] + out.amount + Burned(out.asset)
                           >= Top.before.balance[out.asset]
                    /\ \A a \in Assets \ AssetsOf(Top.action.spendAssets) :
                         balance[a] + Burned(a) >= Top.before.balance[a]
  BY DEF IntegrationLoss
<1> DEFINE list == Top.action.spendAssets
<1>1. Top.kind = "integration" /\ SpentAtMostMax(Top)
  BY DEF EndCallOnIntegration, IsOpen
<1>2. IsFrame(Top) /\ LossBounded(Top, balance, allowance)
  BY UndisturbedIs
<1>3. ListOf(Top) = list /\ list \in Seq(AmountOf) /\ IsUniqueSet(list)
  BY <1>1, <1>2, ListIs DEF ListOf, LossBounded
<1>4. ASSUME NEW a \in Assets
      PROVE  /\ Burned(a) = BurnedIn(Top, a)
             /\ Burned(a) \in Nat /\ balance[a] \in Nat /\ Top.before.balance[a] \in Nat
             /\ TotalOf(list, a) \in Nat /\ LeftOf(Top, allowance, a) \in Nat
  BY <1>3, UndisturbedIs
<1>5. ASSUME NEW a \in Assets, ~CheckedLater(Top, a)
      PROVE  balance[a] + TotalOf(list, a) + Burned(a) >= Top.before.balance[a]
  <2>1. balance[a] + TotalOf(list, a) + Burned(a)
          >= Top.before.balance[a] + LeftOf(Top, allowance, a)
    BY <1>2, <1>3, <1>4, <1>5 DEF LossBounded
  <2> QED
    BY <1>4, <2>1
<1>6. ASSUME NEW i \in DOMAIN list
      PROVE  balance[list[i].asset] + list[i].amount + Burned(list[i].asset)
               >= Top.before.balance[list[i].asset]
  <2> DEFINE a == list[i].asset
  <2>1. list[i] \in AmountOf
    BY <1>3
  <2>2. a \in Assets /\ list[i].amount \in Nat
    BY <2>1 DEF AmountOf
  <2>3. TotalOf(list, a) = list[i].amount
    BY <1>3, TotalOfFacts
  <2>4. CASE CheckedLater(Top, a)
    <3>1. SpendAmount(Top, a) <= list[i].amount
      BY <1>1, <2>4 DEF CheckedLater, SpentAtMostMax
    <3>2. balance[a] < Top.before.balance[a]
            => Top.before.balance[a] - balance[a] <= list[i].amount
      BY <3>1 DEF SpendAmount
    <3>3. Burned(a) \in Nat /\ balance[a] \in Nat /\ Top.before.balance[a] \in Nat
      BY <1>4, <2>2
    <3> HIDE DEF a
    <3>4. balance[a] + list[i].amount + Burned(a) >= Top.before.balance[a]
      BY <2>2, <3>2, <3>3
    <3> QED
      BY <3>4 DEF a
  <2>5. CASE ~CheckedLater(Top, a)
    BY <1>5, <2>2, <2>3, <2>5
  <2> QED
    BY <2>4, <2>5
<1>7. ASSUME NEW a \in Assets \ AssetsOf(list)
      PROVE  balance[a] + Burned(a) >= Top.before.balance[a]
  <2>1. TotalOf(list, a) = 0
    BY <1>3, TotalOfFacts
  <2>2. balance[a] + TotalOf(list, a) + Burned(a) >= Top.before.balance[a]
    BY <1>5 DEF CheckedLater
  <2> QED
    BY <1>4, <2>1, <2>2
<1> QED
  BY <1>6, <1>7

LEMMA PositionLossIs == AllInv => PositionLoss
<1> SUFFICES ASSUME AllInv, EndCallOnExternalPosition, Undisturbed, NEW a \in Assets
             PROVE  balance[a] + TotalOf(Top.action.assetsToTransfer, a) + Burned(a)
                      >= Top.before.balance[a]
  BY DEF PositionLoss
<1>1. Top.kind = "position"
  BY DEF EndCallOnExternalPosition, IsOpen
<1>2. ListOf(Top) = Top.action.assetsToTransfer /\ ~CheckedLater(Top, a)
  BY <1>1 DEF ListOf, CheckedLater
<1>3. /\ LossBounded(Top, balance, allowance)
      /\ Burned(a) = BurnedIn(Top, a)
      /\ Burned(a) \in Nat /\ balance[a] \in Nat /\ Top.before.balance[a] \in Nat
      /\ TotalOf(ListOf(Top), a) \in Nat /\ LeftOf(Top, allowance, a) \in Nat
  BY UndisturbedIs
<1>4. balance[a] + TotalOf(ListOf(Top), a) + Burned(a)
        >= Top.before.balance[a] + LeftOf(Top, allowance, a)
  BY <1>2, <1>3 DEF LossBounded
<1>5. balance[a] + TotalOf(ListOf(Top), a) + Burned(a) >= Top.before.balance[a]
  BY <1>3, <1>4
<1> QED
  BY <1>2, <1>5

\* A call that has the vault to itself from its begin to its end costs the fund
\* at most what the adapter or the position's parser announced: approvals,
\* withdrawals, what protocols take and the reset of approvals together.
THEOREM LossesAreAnnounced == Spec => LossWithinAnnounced
<1>1. AllInv => IntegrationLoss /\ PositionLoss
  BY IntegrationLossIs, PositionLossIs
<1>2. IntegrationLoss /\ PositionLoss <=>
        /\ EndCallOnIntegration /\ Undisturbed =>
             /\ \A i \in DOMAIN Top.action.spendAssets :
                  LET out == Top.action.spendAssets[i] IN
                  balance[out.asset] + out.amount + Burned(out.asset)
                    >= Top.before.balance[out.asset]
             /\ \A a \in Assets \ AssetsOf(Top.action.spendAssets) :
                  balance[a] + Burned(a) >= Top.before.balance[a]
        /\ EndCallOnExternalPosition /\ Undisturbed =>
             \A a \in Assets :
               balance[a] + TotalOf(Top.action.assetsToTransfer, a) + Burned(a)
                 >= Top.before.balance[a]
  BY DEF IntegrationLoss, PositionLoss
<1> QED  BY <1>1, <1>2, AllCorrect, PTL DEF LossWithinAnnounced
=============================================================================
