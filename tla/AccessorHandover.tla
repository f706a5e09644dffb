--------------------------- MODULE AccessorHandover ---------------------------
(***************************************************************************)
(* What the protocol promises the investors of a vault about who controls  *)
(* it, without saying how.  A VaultProxy obeys one accessor (its           *)
(* ComptrollerProxy).  Control only ever moves to a successor that was     *)
(* announced beforehand, that has stayed announced for at least the notice *)
(* period in force when it was announced, and that has never been in       *)
(* control before.  Investors may leave in the meantime.                   *)
(*                                                                         *)
(* FundLifecycle implements this specification: its pending migration and  *)
(* reconfiguration requests are the announcements.                         *)
(***************************************************************************)
EXTENDS Naturals

CONSTANTS
  Vaults,         \* the vaults
  Accessors,      \* the contracts that may be put in control of a vault
  NoticePeriods,  \* the notice periods the governance may impose, naturals
  NoAccessor      \* not an accessor: the vault does not exist yet

VARIABLES
  now,        \* the time
  holder,     \* holder[v]: the accessor in control of v
  announced,  \* announced[v]: the announcements of v that still stand
  inForce,    \* the notice periods in force, set by the governance
  spent       \* the accessors that have been named, in control or announced

vars == <<now, holder, announced, inForce, spent>>

\* A successor and the time from which it may take control.
Announcement == [next : Accessors, from : Nat]

TypeOK ==
  /\ now \in Nat
  /\ holder \in [Vaults -> Accessors \cup {NoAccessor}]
  /\ announced \in [Vaults -> SUBSET Announcement]
  /\ inForce \subseteq NoticePeriods
  /\ spent \subseteq Accessors

Init ==
  /\ now \in Nat
  /\ holder = [v \in Vaults |-> NoAccessor]
  /\ announced = [v \in Vaults |-> {}]
  /\ inForce \subseteq NoticePeriods
  /\ spent = {}

Tick ==
  /\ now' \in Nat
  /\ now' > now
  /\ UNCHANGED <<holder, announced, inForce, spent>>

\* The governance sets the notice periods of the announcements to come.
Govern ==
  /\ inForce' \subseteq NoticePeriods
  /\ UNCHANGED <<now, holder, announced, spent>>

\* A vault is created under the control of an accessor never named before.
Found(v, c) ==
  /\ holder[v] = NoAccessor
  /\ c \notin spent
  /\ holder' = [holder EXCEPT ![v] = c]
  /\ spent' = spent \cup {c}
  /\ UNCHANGED <<now, announced, inForce>>

\* A successor never named before is announced, with a notice period
\* in force.
Announce(v, c, notice) ==
  /\ holder[v] # NoAccessor
  /\ c \notin spent
  /\ announced' = [announced EXCEPT ![v] =
                     @ \cup {[next |-> c, from |-> now + notice]}]
  /\ spent' = spent \cup {c}
  /\ UNCHANGED <<now, holder, inForce>>

\* An announcement is withdrawn: its successor will never take control.
Withdraw(v, a) ==
  /\ a \in announced[v]
  /\ announced' = [announced EXCEPT ![v] = @ \ {a}]
  /\ UNCHANGED <<now, holder, inForce, spent>>

\* Control passes to an announced successor whose notice has run out.
HandOver(v, a) ==
  /\ a \in announced[v]
  /\ now >= a.from
  /\ holder' = [holder EXCEPT ![v] = a.next]
  /\ announced' = [announced EXCEPT ![v] = @ \ {a}]
  /\ UNCHANGED <<now, inForce, spent>>

Next ==
  \/ Tick
  \/ Govern
  \/ \E v \in Vaults :
       \/ \E c \in Accessors :
            \/ Found(v, c)
            \/ \E notice \in inForce : Announce(v, c, notice)
       \/ \E a \in announced[v] : Withdraw(v, a) \/ HandOver(v, a)

Spec == Init /\ [][Next]_vars
===============================================================================
