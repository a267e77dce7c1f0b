-------------------------- MODULE TaskOutboxProofs --------------------------
(***************************************************************************)
(* The effects of a settlement happen once, for any number of settlements, *)
(* work items, failures and restarts.                                      *)
(*                                                                         *)
(* A row's landing is done (Done) when its result is on a completed item,  *)
(* or when every item was completed without it.  Once done it stays done:  *)
(* nobody writes to a completed item again.  The pass reaches the event    *)
(* and the mark only with the landing done, so that a replay and the       *)
(* subscriber find nothing left to write.                                  *)
(***************************************************************************)
EXTENDS TaskOutbox, FiniteSetTheorems, WellFoundedInduction, TLAPS

Done(r) ==
    \/ Prior(r) # {} /\ Prior(r) \cap Landable = {}
    \/ Prior(r) = {} /\ Landable = {}

\* The pass has a row in hand, and knows where it may land it.
InHandSteps == {"cost", "find", "output", "status", "send", "mark"}
RowInHand ==
    /\ pass.pc \in InHandSteps => pass.row \in Rows /\ outbox[pass.row] # "none"
    /\ pass.pc \in {"output", "status"} => pass.target \in Landable
    /\ pass.pc = "output" => Prior(pass.row) \subseteq {pass.target}
    /\ pass.pc = "status" => Prior(pass.row) = {pass.target}

OneItem == \A r \in Rows : \A i, j \in Prior(r) : i = j

DoneBeforeKnown ==
    /\ pass.pc \in {"send", "mark"} => Done(pass.row)
    /\ \A r \in mesh : Done(r)
    /\ \A r \in Rows : outbox[r] = "delivered" => Done(r)

\* A row's receipt and its cost come together, before its event.
ChargedByReceipt ==
    /\ \A r \in Rows : charges[r] = IF r \in receipts THEN 1 ELSE 0
    /\ pass.pc \in InHandSteps \ {"cost"} /\ pass.row \in Metered =>
            pass.row \in receipts
    /\ \A r \in Metered : outbox[r] = "delivered" => r \in receipts

Landings == RowInHand /\ OneItem /\ DoneBeforeKnown

\* The inductive invariant.
IInv == TypeOK /\ Landings /\ ChargedByReceipt

(***************************************************************************)
(* Choosing the oldest item.                                               *)
(***************************************************************************)

LEMMA FirstIsMember ==
    ASSUME NEW S \in SUBSET Items, S # {}
    PROVE  First(S) \in S
<1>1. S \subseteq Nat
  BY OutboxAssumptions DEF Items
<1> DEFINE R == OpToRel(<, Nat)
<1>2. \A a, b \in Nat : a < b => <<a, b>> \in R
  BY DEF OpToRel
<1>3. IsWellFoundedOn(R, Nat)
  BY NatLessThanWellFounded
<1> HIDE DEF R
<1>4. PICK i \in S : \A j \in S : ~(<<j, i>> \in R)
  BY <1>1, <1>3, WFMin
<1>5. ASSUME NEW j \in S PROVE i <= j
  <2>1. i \in Nat /\ j \in Nat
    BY <1>1
  <2>2. ~(j < i)
    BY <1>2, <1>4, <2>1
  <2> QED BY <2>1, <2>2
<1> QED BY <1>5 DEF First

LEMMA TargetCases ==
    ASSUME OneItem, NEW r \in Rows
    PROVE  /\ Target(r) = None => Done(r)
           /\ Target(r) # None =>
                /\ Target(r) \in Landable
                /\ Prior(r) \subseteq {Target(r)}
<1>1. /\ Prior(r) \subseteq Items /\ Landable \subseteq Items
      /\ None \notin Items
  BY OutboxAssumptions DEF Prior, Landable, Items
<1>2. CASE Prior(r) # {}
  <2>1. First(Prior(r)) \in Prior(r)
    BY <1>1, <1>2, FirstIsMember
  <2>2. Prior(r) = {First(Prior(r))}
    BY <2>1 DEF OneItem
  <2> QED BY <1>1, <1>2, <2>1, <2>2 DEF Target, Done
<1>3. CASE Prior(r) = {}
  <2>1. Landable # {} => First(Landable) \in Landable
    BY <1>1, FirstIsMember
  <2> QED BY <1>1, <1>3, <2>1 DEF Target, Done
<1> QED BY <1>2, <1>3

\* A done landing leaves nothing to write.
LEMMA DoneHasNoTarget ==
    ASSUME NEW r \in Rows, Done(r)
    PROVE  Target(r) = None
<1>1. Prior(r) \subseteq Items
  BY DEF Prior
<1> QED BY <1>1, FirstIsMember DEF Done, Target

(***************************************************************************)
(* The initial states.                                                     *)
(***************************************************************************)

LEMMA InvInit ==
    ASSUME Init
    PROVE  IInv
<1> USE OutboxAssumptions
<1>1. TypeOK
  BY DEF Init, TypeOK, Off
<1>2. pass.pc = "select"
  BY DEF Init, Off
<1>3. \A r \in Rows : Prior(r) = {}
  BY DEF Init, Prior
<1>4. Landings
  BY <1>2, <1>3 DEF Init, Landings, RowInHand, InHandSteps, OneItem, DoneBeforeKnown
<1>5. ChargedByReceipt
  BY <1>2 DEF Init, ChargedByReceipt, InHandSteps
<1> QED BY <1>1, <1>4, <1>5 DEF IInv

(***************************************************************************)
(* The requests: they touch the outbox, never an effect.                   *)
(***************************************************************************)

Steps == {"off", "select", "closing"} \cup InHandSteps
Passes == [pc : Steps, row : Rows \cup {None}, target : Items \cup {None},
           delivered : Nat]

LEMMA PassIsTyped ==
    /\ TypeOK => pass \in Passes
    /\ (TypeOK => pass \in Passes)'
BY DEF TypeOK, Passes, Steps, InHandSteps

\* A pass that is about to begin or to end has no row in hand.
Between == {"off", "select", "closing"}

LEMMA EffectsUntouched ==
    ASSUME IInv, UNCHANGED <<effects, work, mesh>>,
           \/ UNCHANGED pass
           \/ pass'.pc \in Between,
           \A r \in Rows : /\ outbox'[r] = "delivered" => outbox[r] = "delivered"
                           /\ outbox[r] # "none" => outbox'[r] # "none"
    PROVE  Landings' /\ ChargedByReceipt'
<1> USE OutboxAssumptions DEF IInv, Landings, effects, work
<1>1. /\ Landable' = Landable
      /\ \A r : Prior(r)' = Prior(r)
      /\ \A r : Done(r)' <=> Done(r)
  BY DEF Landable, Prior, Done
<1>2. CASE UNCHANGED pass
  <2>1. RowInHand'
    BY <1>1, <1>2 DEF RowInHand
  <2>2. OneItem' /\ DoneBeforeKnown'
    BY <1>1, <1>2 DEF OneItem, DoneBeforeKnown
  <2>3. ChargedByReceipt'
    BY <1>2 DEF ChargedByReceipt
  <2> QED BY <2>1, <2>2, <2>3
<1>3. CASE pass'.pc \in Between
  <2>1. RowInHand'
    BY <1>3 DEF RowInHand, Between, InHandSteps
  <2>2. OneItem' /\ DoneBeforeKnown'
    BY <1>1, <1>3 DEF OneItem, DoneBeforeKnown, Between
  <2>3. ChargedByReceipt'
    BY <1>3 DEF ChargedByReceipt, Between, InHandSteps
  <2> QED BY <2>1, <2>2, <2>3
<1> QED BY <1>2, <1>3

RequestStep ==
    \E r \in Rows :
        SettleBegins(r) \/ SettleCommits(r) \/ SettleDrains(r) \/ SettleRefused(r)

LEMMA RequestSafe ==
    ASSUME IInv, RequestStep
    PROVE  IInv'
<1> USE DEF IInv
<1>1. PICK r \in Rows :
        SettleBegins(r) \/ SettleCommits(r) \/ SettleDrains(r) \/ SettleRefused(r)
  BY DEF RequestStep
<1>2. CASE SettleBegins(r)
  <2>1. TypeOK'
    BY <1>2 DEF SettleBegins, TypeOK, effects, work, bounds
  <2> QED BY <1>2, <2>1, EffectsUntouched DEF SettleBegins
<1>3. CASE SettleCommits(r)
  <2>1. TypeOK'
    BY <1>3 DEF SettleCommits, TypeOK, effects, work, bounds
  <2>2. \A q \in Rows :
            /\ outbox'[q] = "delivered" => outbox[q] = "delivered"
            /\ outbox[q] # "none" => outbox'[q] # "none"
    BY <1>3 DEF SettleCommits, TypeOK
  <2> QED BY <1>3, <2>1, <2>2, EffectsUntouched DEF SettleCommits
<1>4. CASE SettleDrains(r)
  <2>1. /\ pass' \in Passes
        /\ UNCHANGED pass \/ pass'.pc \in Between
    BY <1>4, PassIsTyped DEF SettleDrains, GoTo, Passes, Steps, Between
  <2>2. TypeOK'
    BY <1>4, <2>1 DEF SettleDrains, TypeOK, Passes, Steps, InHandSteps, effects, work, bounds
  <2> QED BY <1>4, <2>1, <2>2, EffectsUntouched DEF SettleDrains
<1>5. CASE SettleRefused(r)
  <2>1. TypeOK'
    BY <1>5 DEF SettleRefused, vars, settlement, TypeOK, effects, work, bounds
  <2> QED BY <1>5, <2>1, EffectsUntouched DEF SettleRefused, vars
<1> QED BY <1>1, <1>2, <1>3, <1>4, <1>5

(***************************************************************************)
(* The pass begins, ends, fails, or dies with its process.                 *)
(***************************************************************************)

BetweenStep == PassFindsNothing \/ PassEnds \/ PassFails \/ ApiRestarts

LEMMA BetweenSafe ==
    ASSUME IInv, BetweenStep
    PROVE  IInv'
<1> USE OutboxAssumptions DEF IInv
<1>1. /\ pass' \in Passes /\ pass'.pc \in Between
      /\ UNCHANGED <<effects, work, outbox>>
  BY PassIsTyped DEF BetweenStep, PassFindsNothing, PassEnds, PassFails, ApiRestarts,
     GoTo, Off, Passes, Steps, Between
<1>2. UNCHANGED mesh
  BY DEF BetweenStep, PassFindsNothing, PassEnds, PassFails, ApiRestarts
<1>3. /\ settling' \in [Rows -> {"none", "open", "committed", "draining",
                                 "answered", "lost"}]
      /\ earlier' \in [Rows -> SUBSET Rows]
      /\ \A r \in Rows : outbox[r] = "none" <=> settling'[r] \in {"none", "open"}
  <2>1. CASE ApiRestarts
    BY <2>1 DEF ApiRestarts, TypeOK
  <2>2. CASE PassEnds \/ PassFails
    BY <2>2 DEF PassEnds, PassFails, Answered, TypeOK
  <2>3. CASE PassFindsNothing
    BY <2>3 DEF PassFindsNothing, settlement, TypeOK
  <2> QED BY <2>1, <2>2, <2>3 DEF BetweenStep
<1>4. /\ journal' \in {"starting", "ready", "failed"}
      /\ failures' \in 0 .. FailureBound
      /\ restarts' \in 0 .. RestartBound
  BY DEF BetweenStep, PassFindsNothing, PassEnds, PassFails, ApiRestarts, TypeOK, bounds
<1>5. TypeOK'
  BY <1>1, <1>2, <1>3, <1>4 DEF TypeOK, Passes, Steps, InHandSteps, effects, work, Between
<1> QED BY <1>1, <1>2, <1>5, EffectsUntouched

(***************************************************************************)
(* The pass works on a row.                                                *)
(***************************************************************************)

LEMMA SelectSafe ==
    ASSUME IInv, NEW r \in Rows, PassSelects(r)
    PROVE  IInv'
<1> USE OutboxAssumptions DEF IInv, Landings, PassSelects, settlement, effects, work, bounds
<1>1. /\ pass' \in Passes /\ pass'.pc \in {"cost", "find"} /\ pass'.row = r
      /\ pass'.pc = "find" => r \notin Metered
      /\ outbox[r] # "none"
  BY PassIsTyped DEF Passes, Steps, InHandSteps, Oldest, Pending
<1>2. TypeOK'
  BY <1>1 DEF TypeOK, Passes, Steps, InHandSteps
<1>3. /\ Landable' = Landable
      /\ \A q : Prior(q)' = Prior(q)
      /\ \A q : Done(q)' <=> Done(q)
  BY DEF Landable, Prior, Done
<1>4. RowInHand' /\ OneItem' /\ DoneBeforeKnown'
  BY <1>1, <1>3 DEF RowInHand, OneItem, DoneBeforeKnown, InHandSteps
<1>5. ChargedByReceipt'
  BY <1>1 DEF ChargedByReceipt
<1> QED BY <1>2, <1>4, <1>5

LEMMA ChargeSafe ==
    ASSUME IInv, PassCharges
    PROVE  IInv'
<1> USE OutboxAssumptions
    DEF IInv, Landings, PassCharges, recordCostOnce, settlement, work, bounds
<1>1. /\ pass' \in Passes /\ pass'.pc = "find" /\ pass'.row = pass.row
      /\ pass.row \in Rows /\ outbox[pass.row] # "none"
  BY PassIsTyped DEF Passes, Steps, InHandSteps, At, GoTo, RowInHand
<1>2. /\ receipts' = receipts \cup {pass.row}
      /\ charges' \in [Rows -> Nat]
      /\ \A q \in Rows : charges'[q] =
            IF q = pass.row /\ q \notin receipts THEN charges[q] + 1 ELSE charges[q]
  BY <1>1 DEF TypeOK
<1>3. TypeOK'
  BY <1>1, <1>2 DEF TypeOK, Passes, Steps, InHandSteps
<1>4. /\ Landable' = Landable
      /\ \A q : Prior(q)' = Prior(q)
      /\ \A q : Done(q)' <=> Done(q)
  BY DEF Landable, Prior, Done
<1>5. RowInHand' /\ OneItem' /\ DoneBeforeKnown'
  BY <1>1, <1>4 DEF RowInHand, OneItem, DoneBeforeKnown, InHandSteps
<1>6. ChargedByReceipt'
  BY <1>1, <1>2 DEF ChargedByReceipt
<1> QED BY <1>3, <1>5, <1>6

\* From here on the row is charged and the step leaves the charges alone.
LEMMA StillCharged ==
    ASSUME IInv, UNCHANGED effects, pass.pc \in InHandSteps \ {"cost"},
           pass'.row = pass.row,
           \A r \in Rows : outbox'[r] = "delivered" => outbox[r] = "delivered" \/ r = pass.row
    PROVE  ChargedByReceipt'
BY OutboxAssumptions DEF IInv, ChargedByReceipt, effects

LEMMA FindSafe ==
    ASSUME IInv, FindItem
    PROVE  IInv'
<1> USE OutboxAssumptions DEF IInv, Landings, FindItem, settlement, effects, work, bounds
<1>1. pass.pc = "find" /\ pass.row \in Rows /\ pass \in Passes
  BY PassIsTyped DEF At, RowInHand, InHandSteps
<1>2. /\ Landable' = Landable
      /\ \A q : Prior(q)' = Prior(q)
      /\ \A q : Done(q)' <=> Done(q)
  BY DEF Landable, Prior, Done
<1>3. Landable \subseteq Items
  BY DEF Landable
<1>4. CASE Target(pass.row) = None
  <2>1. pass' \in Passes /\ pass'.pc = "send" /\ pass'.row = pass.row
    BY <1>1, <1>4 DEF GoTo, Passes, Steps, InHandSteps
  <2>2. Done(pass.row)
    BY <1>1, <1>4, TargetCases
  <2>3. RowInHand' /\ OneItem' /\ DoneBeforeKnown'
    BY <1>1, <1>2, <2>1, <2>2 DEF RowInHand, OneItem, DoneBeforeKnown, InHandSteps
  <2>4. TypeOK'
    BY <2>1 DEF TypeOK, Passes, Steps, InHandSteps
  <2>5. ChargedByReceipt'
    BY <1>1, <2>1, StillCharged DEF InHandSteps
  <2> QED BY <2>3, <2>4, <2>5
<1>5. CASE Target(pass.row) # None
  <2>1. Target(pass.row) \in Landable /\ Prior(pass.row) \subseteq {Target(pass.row)}
    BY <1>1, <1>5, TargetCases
  <2>2. /\ pass' \in Passes /\ pass'.pc = "output" /\ pass'.row = pass.row
        /\ pass'.target = Target(pass.row)
    BY <1>1, <1>3, <1>5, <2>1 DEF Passes, Steps, InHandSteps
  <2>3. RowInHand' /\ OneItem' /\ DoneBeforeKnown'
    BY <1>1, <1>2, <2>1, <2>2 DEF RowInHand, OneItem, DoneBeforeKnown, InHandSteps
  <2>4. TypeOK'
    BY <2>2 DEF TypeOK, Passes, Steps, InHandSteps
  <2>5. ChargedByReceipt'
    BY <1>1, <2>2, StillCharged DEF InHandSteps
  <2> QED BY <2>3, <2>4, <2>5
<1> QED BY <1>4, <1>5

\* Writing to an active item undoes no landing.
LEMMA OutputSafe ==
    ASSUME IInv, StoreOutput
    PROVE  IInv'
<1> USE OutboxAssumptions DEF IInv, Landings, StoreOutput, settlement, effects, bounds
<1>1. /\ pass.pc = "output" /\ pass.row \in Rows /\ pass \in Passes
      /\ pass.target \in Landable /\ Prior(pass.row) \subseteq {pass.target}
  BY PassIsTyped DEF At, RowInHand, InHandSteps
<1>2. /\ pass' \in Passes /\ pass'.pc = "status" /\ pass'.row = pass.row
      /\ pass'.target = pass.target
  BY <1>1 DEF GoTo, Passes, Steps, InHandSteps
<1>3. pass.target \in Items /\ Landable' = Landable
  BY <1>1 DEF Landable
<1>4. /\ output' \in [Items -> Rows \cup {None}]
      /\ output'[pass.target] = pass.row
      /\ \A i \in Items : i # pass.target => output'[i] = output[i]
  BY <1>1, <1>3 DEF TypeOK
<1>5. \A q \in Rows :
        Prior(q)' = IF q = pass.row THEN {pass.target} ELSE Prior(q) \ {pass.target}
  BY <1>1, <1>3, <1>4 DEF Prior
<1>6. ASSUME NEW q \in Rows, Done(q) PROVE Done(q)'
  <2>1. pass.target \notin Prior(q) /\ Prior(q) # {}
    BY <1>1, <1>6 DEF Done
  <2>2. q # pass.row
    BY <1>1, <2>1
  <2>3. Prior(q)' = Prior(q)
    BY <1>5, <2>1, <2>2
  <2> QED BY <1>3, <1>6, <2>3 DEF Done
<1>7. TypeOK'
  BY <1>2, <1>4 DEF TypeOK, Passes, Steps, InHandSteps
<1>8. RowInHand' /\ OneItem'
  BY <1>1, <1>2, <1>3, <1>5 DEF RowInHand, OneItem, InHandSteps
<1>9. DoneBeforeKnown'
  BY <1>2, <1>6 DEF DoneBeforeKnown, TypeOK
<1>10. ChargedByReceipt'
  BY <1>1, <1>2, StillCharged DEF InHandSteps
<1> QED BY <1>7, <1>8, <1>9, <1>10

\* The landing is done.
LEMMA StatusSafe ==
    ASSUME IInv, StoreStatus
    PROVE  IInv'
<1> USE OutboxAssumptions DEF IInv, Landings, StoreStatus, settlement, effects, bounds
<1>1. /\ pass.pc = "status" /\ pass.row \in Rows /\ pass \in Passes
      /\ pass.target \in Landable /\ Prior(pass.row) = {pass.target}
  BY PassIsTyped DEF At, RowInHand, InHandSteps
<1>2. pass' \in Passes /\ pass'.pc = "send" /\ pass'.row = pass.row
  BY <1>1 DEF GoTo, Passes, Steps, InHandSteps
<1>3. /\ item' \in [Items -> {"active", "completed"}]
      /\ Landable' = Landable \ {pass.target}
      /\ \A q : Prior(q)' = Prior(q)
  BY <1>1 DEF Landable, Prior, TypeOK
<1>4. \A q : q = pass.row => Done(q)'
  BY <1>1, <1>3 DEF Done
<1>5. \A q \in Rows : Done(q) => Done(q)'
  BY <1>3 DEF Done
<1>6. TypeOK'
  BY <1>2, <1>3 DEF TypeOK, Passes, Steps, InHandSteps
<1>7. RowInHand' /\ OneItem'
  BY <1>1, <1>2, <1>3 DEF RowInHand, OneItem, InHandSteps
<1>8. DoneBeforeKnown'
  <2>1. pass'.row \in Rows /\ Done(pass.row)'
    BY <1>1, <1>2, <1>4
  <2> QED BY <1>5, <2>1 DEF DoneBeforeKnown, TypeOK
<1>9. ChargedByReceipt'
  BY <1>1, <1>2, StillCharged DEF InHandSteps
<1> QED BY <1>6, <1>7, <1>8, <1>9

PublishStep == PassSends \/ PassMarks

LEMMA PublishSafe ==
    ASSUME IInv, PublishStep
    PROVE  IInv'
<1> USE OutboxAssumptions DEF IInv, Landings, PassSends, PassMarks, settlement, effects,
        work, bounds
<1>1. /\ pass.pc \in {"send", "mark"} /\ pass.row \in Rows /\ pass \in Passes
      /\ Done(pass.row)
  BY PassIsTyped DEF PublishStep, At, RowInHand, InHandSteps, DoneBeforeKnown
<1>2. /\ Landable' = Landable
      /\ \A q : Prior(q)' = Prior(q)
      /\ \A q : Done(q)' <=> Done(q)
  BY DEF PublishStep, Landable, Prior, Done
<1>3. /\ pass' \in Passes /\ pass'.pc \in {"mark", "select"} /\ pass'.row = pass.row
  <2>1. CASE PassSends
    BY <1>1, <2>1 DEF GoTo, Passes, Steps, InHandSteps
  <2>2. CASE PassMarks
    <3>1. pass.delivered + 1 \in Nat
      BY <1>1 DEF Passes
    <3> QED BY <1>1, <2>2, <3>1 DEF Passes, Steps
  <2> QED BY <2>1, <2>2 DEF PublishStep
<1>4. mesh' \subseteq mesh \cup {pass.row}
  BY DEF PublishStep
<1>5. /\ outbox' \in [Rows -> {"none", "pending", "delivered"}]
      /\ \A r \in Rows : outbox'[r] = "delivered" =>
            outbox[r] = "delivered" \/ r = pass.row
      /\ \A r \in Rows : outbox[r] # "none" => outbox'[r] # "none"
      /\ outbox[pass.row] # "none"
  BY <1>1 DEF PublishStep, TypeOK, RowInHand, InHandSteps
<1>6. \A r \in Rows : outbox'[r] = "none" <=> settling'[r] \in {"none", "open"}
  <2>1. CASE PassSends
    BY <2>1 DEF TypeOK
  <2>2. CASE PassMarks
    BY <1>1, <2>2 DEF TypeOK, RowInHand, InHandSteps
  <2> QED BY <2>1, <2>2 DEF PublishStep
<1>7. TypeOK'
  BY <1>1, <1>3, <1>4, <1>5, <1>6 DEF PublishStep, TypeOK, Passes, Steps, InHandSteps
<1>8. RowInHand' /\ OneItem'
  BY <1>1, <1>2, <1>3, <1>5 DEF RowInHand, OneItem, InHandSteps
<1>9. DoneBeforeKnown'
  BY <1>1, <1>2, <1>3, <1>4, <1>5 DEF DoneBeforeKnown
<1>10. ChargedByReceipt'
  BY <1>1, <1>3, <1>5, StillCharged DEF InHandSteps, PublishStep
<1> QED BY <1>7, <1>8, <1>9, <1>10

\* The subscriber finds nothing to write.
LEMMA SubscriberSafe ==
    ASSUME IInv, NEW r \in Rows, MeshDelivers(r)
    PROVE  IInv'
<1> USE OutboxAssumptions DEF IInv, Landings, MeshDelivers, settlement, effects, bounds
<1>1. Target(r) = None /\ None \notin Items
  BY DoneHasNoTarget DEF DoneBeforeKnown, Items
<1>2. output' = output /\ item' = item /\ mesh' \subseteq mesh
  BY <1>1 DEF TypeOK
<1>3. /\ Landable' = Landable
      /\ \A q : Prior(q)' = Prior(q)
      /\ \A q : Done(q)' <=> Done(q)
  BY <1>2 DEF Landable, Prior, Done
<1>4. TypeOK'
  BY <1>2 DEF TypeOK
<1>5. RowInHand' /\ OneItem' /\ DoneBeforeKnown'
  BY <1>2, <1>3 DEF RowInHand, OneItem, DoneBeforeKnown, InHandSteps
<1>6. ChargedByReceipt'
  BY DEF ChargedByReceipt
<1> QED BY <1>4, <1>5, <1>6

LEMMA InvStep ==
    ASSUME IInv, [Next]_vars
    PROVE  IInv'
<1>1. CASE UNCHANGED vars
  <2>1. TypeOK'
    BY <1>1 DEF IInv, TypeOK, vars, settlement, effects, work, bounds
  <2> QED BY <1>1, <2>1, EffectsUntouched DEF vars, IInv
<1>2. CASE RequestStep \/ BetweenStep \/ PublishStep
  BY <1>2, RequestSafe, BetweenSafe, PublishSafe
<1>3. CASE FindItem \/ StoreOutput \/ StoreStatus \/ PassCharges
  BY <1>3, FindSafe, OutputSafe, StatusSafe, ChargeSafe
<1>4. CASE \E r \in Rows : PassSelects(r) \/ MeshDelivers(r)
  BY <1>4, SelectSafe, SubscriberSafe
<1> QED
  BY <1>1, <1>2, <1>3, <1>4 DEF Next, Pass, RequestStep, BetweenStep, PublishStep

LEMMA InvHolds == Spec => []IInv
<1>1. Init => IInv
  BY InvInit
<1>2. IInv /\ [Next]_vars => IInv'
  BY InvStep
<1> QED BY <1>1, <1>2, PTL DEF Spec

(***************************************************************************)
(* The theorems.                                                           *)
(***************************************************************************)

\* Every reachable state is well typed, and every committed settlement has
\* its row of the outbox.
THEOREM TypeCorrect == Spec => []TypeOK
BY InvHolds, PTL DEF IInv

\* A cost is recorded once, however often its row is replayed.
THEOREM CostsChargedOnce == Spec => []ChargedOnce
<1>1. IInv => ChargedOnce
  BY OutboxAssumptions DEF IInv, ChargedByReceipt, ChargedOnce
<1> QED BY <1>1, InvHolds, PTL

\* No result is on two work items.
THEOREM ResultsOnOneItem == Spec => []ResultOnOneItem
<1>1. ASSUME IInv, NEW r \in Rows PROVE Cardinality(Prior(r)) <= 1
  <2>1. CASE Prior(r) = {}
    BY <2>1, FS_EmptySet
  <2>2. CASE Prior(r) # {}
    <3>1. PICK i \in Prior(r) : Prior(r) = {i}
      BY <1>1, <2>2 DEF IInv, Landings, OneItem
    <3> QED BY <3>1, FS_Singleton
  <2> QED BY <2>1, <2>2
<1>2. IInv => ResultOnOneItem
  BY <1>1 DEF ResultOnOneItem
<1> QED BY <1>2, InvHolds, PTL

\* What the subscriber hears of has been landed.
THEOREM SubscriberIsRedundant == Spec => []SubscriberFindsNothing
<1>1. IInv => SubscriberFindsNothing
  BY DoneHasNoTarget DEF IInv, TypeOK, Landings, DoneBeforeKnown, SubscriberFindsNothing
<1> QED BY <1>1, InvHolds, PTL

\* A row marked delivered has its result where it belongs.
THEOREM DeliveredIsLanded == Spec => []DeliveredResultsAreLanded
<1>1. IInv => DeliveredResultsAreLanded
  BY DEF IInv, Landings, DoneBeforeKnown, Done, DeliveredResultsAreLanded
<1> QED BY <1>1, InvHolds, PTL
=============================================================================
