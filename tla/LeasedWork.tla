----------------------------- MODULE LeasedWork -----------------------------
(***************************************************************************)
(* What Central and an Agent promise of the work they share, whatever the  *)
(* work is: items are handed out one at a time under a lease, in the order *)
(* in which they were submitted; only what the holder of the last claim    *)
(* answers settles an item; and no claim, answer or loss touches an item   *)
(* that is settled.                                                        *)
(*                                                                         *)
(* Deployment operations and model tasks both are to implement this; how   *)
(* they map to it is in DeploymentSystem and in ModelTaskSystem.           *)
(***************************************************************************)
EXTENDS Naturals

CONSTANTS
  Items,       \* identities of items: positive numbers, in the order of submission
  MayRequeue   \* whether settled items may be submitted again

VARIABLES
  work,    \* per item, its state ("unused", "queued", "leased", "lapsed", "settled"
           \* or "removed") and the number of its last claim
  held,    \* the claim the worker works under
  answers  \* claims that were worked off and whose answer is on its way

In(states) == {i \in Items : work[i].state \in states}
Item(state, claim) == [state |-> state, claim |-> claim]
Goes(i, state, claim) == work' = [work EXCEPT ![i] = Item(state, claim)]
NoClaim == [item |-> 0, claim |-> 0]
LastClaim(i) == [item |-> i, claim |-> work[i].claim]

Init ==
  /\ work = [i \in Items |-> Item("unused", 0)]
  /\ held = NoClaim
  /\ answers = {}

(***************************************************************************)
(* Whoever submits work                                                    *)
(***************************************************************************)
Submit(i) ==
  /\ i \in In({"unused"})
  /\ \A j \in Items : j < i => j \notin In({"unused"})
  /\ Goes(i, "queued", 0)
  /\ UNCHANGED <<held, answers>>

\* Work that nobody has in hand is given up.
Withdraw(i) ==
  /\ i \in In({"queued", "lapsed"})
  /\ Goes(i, "settled", work[i].claim)
  /\ UNCHANGED <<held, answers>>

\* The claims of an item that is submitted again go on counting.
Requeue(i) ==
  /\ MayRequeue
  /\ i \in In({"settled"})
  /\ Goes(i, "queued", work[i].claim)
  /\ UNCHANGED <<held, answers>>

(***************************************************************************)
(* Leases                                                                  *)
(***************************************************************************)

\* The worker may never learn that it was handed the item.
Claim(i) ==
  /\ In({"leased"}) = {}
  /\ i \in In({"queued", "lapsed"})
  /\ \A j \in In({"queued", "lapsed"}) : i <= j
  /\ Goes(i, "leased", work[i].claim + 1)
  /\ \/ held = NoClaim /\ held' = [item |-> i, claim |-> work[i].claim + 1]
     \/ UNCHANGED held
  /\ UNCHANGED answers

Lapse(i) ==
  /\ i \in In({"leased"})
  /\ Goes(i, "lapsed", work[i].claim)
  /\ UNCHANGED <<held, answers>>

(***************************************************************************)
(* The worker and its answers                                              *)
(***************************************************************************)
WorkOff ==
  /\ held # NoClaim
  /\ held' = NoClaim
  /\ answers' = answers \cup {held}
  /\ UNCHANGED work

Die == held # NoClaim /\ held' = NoClaim /\ UNCHANGED <<work, answers>>

LoseAnswers == UNCHANGED <<work, held>> /\ answers' \subseteq answers

\* An answer counts until the item is handed out again, late or not.
IsAnswered(i) == i \in In({"leased", "lapsed"}) /\ LastClaim(i) \in answers

Settle(i) ==
  /\ IsAnswered(i)
  /\ Goes(i, "settled", work[i].claim)
  /\ answers' \subseteq answers
  /\ UNCHANGED held

\* An item may be removed with its answer, and settled ones with it.
SettleAway(i) ==
  /\ IsAnswered(i)
  /\ \E Gone \in SUBSET In({"settled"}) :
       work' = [j \in Items |-> IF j \in Gone \cup {i} THEN Item("removed", 0) ELSE work[j]]
  /\ answers' \subseteq answers
  /\ UNCHANGED held

Next ==
  \/ LoseAnswers \/ WorkOff \/ Die
  \/ \E i \in Items :
       \/ Submit(i) \/ Withdraw(i) \/ Requeue(i)
       \/ Claim(i) \/ Lapse(i) \/ Settle(i) \/ SettleAway(i)

Spec == Init /\ [][Next]_<<work, held, answers>>
=============================================================================
