---------------------------- MODULE PayPromise ----------------------------
(***************************************************************************)
(* What the money side promises a child, whatever the parents do and in    *)
(* whatever order.  A week's card is open while hours can still change it, *)
(* released once a parent approved it, and settled when it was paid or     *)
(* closed.  Earnings of open cards are held back.  A settled card is never *)
(* touched again, and no payout takes more than what is owed and released. *)
(***************************************************************************)
EXTENDS Integers, FiniteSetsExt

CONSTANT Cards

VARIABLES
    phase,    \* phase[c]: "open", "released" or "settled"
    credit,   \* credit[c]: net hourly credit of the card
    paid,     \* paid[c]: what was paid out for the card
    spent,    \* payouts that name no card
    side      \* everything else: bonuses, adjustments, exchanges

vars == <<phase, credit, paid, spent, side>>

Atop0(n) == IF n > 0 THEN n ELSE 0

Total(f) == MapThenSumSet(LAMBDA c : f[c], Cards)

Owed == Total(credit) + side - Total(paid) - spent

Held == MapThenSumSet(LAMBDA c : Atop0(credit[c]), {c \in Cards : phase[c] = "open"})

\* What a payout may take.
Free == Atop0(IF Held > 0 THEN Owed - Held ELSE Owed)

Init ==
    /\ phase = [c \in Cards |-> "open"]
    /\ credit = [c \in Cards |-> 0]
    /\ paid = [c \in Cards |-> 0]
    /\ spent = 0
    /\ side = 0

Earn(c) ==
    /\ phase[c] = "open"
    /\ credit'[c] \in Int
    /\ credit' = [credit EXCEPT ![c] = credit'[c]]
    /\ UNCHANGED <<phase, paid, spent, side>>

Release(c) ==
    /\ phase[c] = "open"
    /\ phase' = [phase EXCEPT ![c] = "released"]
    /\ UNCHANGED <<credit, paid, spent, side>>

Withhold(c) ==
    /\ phase[c] = "released"
    /\ phase' = [phase EXCEPT ![c] = "open"]
    /\ UNCHANGED <<credit, paid, spent, side>>

\* A week worth nothing is closed.
Settle(c) ==
    /\ phase[c] = "released"
    /\ phase' = [phase EXCEPT ![c] = "settled"]
    /\ paid'[c] \in 0 .. Free
    /\ paid' = [paid EXCEPT ![c] = paid'[c]]
    /\ UNCHANGED <<credit, spent, side>>

Spend ==
    /\ spent' - spent \in 0 .. Free
    /\ UNCHANGED <<phase, credit, paid, side>>

Move ==
    /\ side' \in Int
    /\ UNCHANGED <<phase, credit, paid, spent>>

Next ==
    \/ \E c \in Cards : Earn(c) \/ Release(c) \/ Withhold(c) \/ Settle(c)
    \/ Spend
    \/ Move

Spec == Init /\ [][Next]_vars
=============================================================================
