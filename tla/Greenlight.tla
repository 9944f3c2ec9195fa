----------------------------- MODULE Greenlight -----------------------------
(***************************************************************************)
(* Greenlight bookkeeping (apps/payments/greenlight.py) over the cards and *)
(* the ledger of PayWeek: a parent confirms transfers by hand, retried or  *)
(* not, and uploads bank statements and settles their rows: a row is       *)
(* matched to a payout that is recorded, or recorded as a new one, with or *)
(* without a card.  A request with several rows takes the same steps under *)
(* one lock and commits all or none, so its rows are single requests here. *)
(***************************************************************************)
EXTENDS PayWeek

CONSTANTS
    CsvRows,   \* transfer rows a statement may hold
    Details    \* [key, ref, on] of the manual confirmations

VARIABLE matched   \* the GreenlightStatementTransfer rows

allVars == <<vars, matched>>

GInit == Init /\ matched = {}

-----------------------------------------------------------------------------
(* Confirming a transfer by hand.                                          *)

\* Mutant of Known: repeats are not looked for.
KnownNever(how) == FALSE

\* A confirmation whose key, or whose reference, is known records nothing.
Known(how) == \E i \in DOMAIN payouts :
    \/ payouts[i].key # None /\ payouts[i].key = how.key
    \/ how.ref # None /\ payouts[i].ref = how.ref

\* Mutant of ConfirmTransfer: what waits for approval is paid as well.
ConfirmAnyOwed(w, a, how) ==
    /\ Free
    /\ ~Known(how)
    /\ a \in 1 .. Owed
    /\ \/ w = 0 /\ UNCHANGED card
       \/ /\ w # 0
          /\ card[w].status = "approved"
          /\ ~HasPayout(w)
          /\ a = TotalOf(w)
          /\ SetStatus(w, "paid")
    /\ Record(w, a, how)
    /\ UNCHANGED <<clock, timers, doneIn, trades>>

\* confirm_transfer for an approved card, or, with w = 0, for none.
ConfirmTransfer(w, a, how) ==
    /\ Free
    /\ ~Known(how)
    /\ a \in 1 .. Payable
    /\ \/ w = 0 /\ UNCHANGED card
       \/ /\ w # 0
          /\ card[w].status = "approved"
          /\ ~HasPayout(w)
          /\ a = TotalOf(w)
          /\ SetStatus(w, "paid")
    /\ Record(w, a, how)
    /\ UNCHANGED <<clock, timers, doneIn, trades>>

-----------------------------------------------------------------------------
(* Statements.                                                             *)

\* A reference alone identifies a transfer; without one its date and amount do.
Fingerprint(r) == IF r.ref # None THEN <<r.ref>> ELSE <<r.on, r.amount>>

\* A reference that comes with two dates or amounts poisons each of its rows.
Eligible(csv, r) == \A o \in csv : Fingerprint(o) = Fingerprint(r) => o = r

Matches(i, r) == payouts[i].amount = r.amount /\ payouts[i].on = r.on

IsTransfer(i) == payouts[i].key # None

\* The payout that already carries the row's reference must be the one chosen.
ReferenceAllows(r, choice) == \A i \in DOMAIN payouts :
    r.ref # None /\ payouts[i].ref = r.ref => Matches(i, r) /\ choice = i

StatementKey(r) == <<"statement", Fingerprint(r)>>

\* A key is never empty (the serializers refuse it).
ASSUME GreenlightConstants ==
    /\ \A r \in CsvRows : r.amount \in Nat \ {0} /\ StatementKey(r) # None
    /\ \A how \in Details : how.key # None

Remember(i, r) == matched' = matched \cup {[fp |-> Fingerprint(r), payout |-> i, row |-> r]}

\* Mutant of MatchExisting: a matched payout is matched again.
MatchAgain(i, r) ==
    /\ Free
    /\ payouts[i].amount = r.amount
    /\ IsTransfer(i) => Matches(i, r) /\ payouts[i].ref \in {None, r.ref}
    /\ payouts' = [payouts EXCEPT ![i] =
         IF IsTransfer(i) THEN [@ EXCEPT !.ref = r.ref]
         ELSE [@ EXCEPT !.key = StatementKey(r), !.ref = r.ref, !.on = r.on]]
    /\ UNCHANGED <<clock, timers, card, credit, side, reached, doneIn, trades>>

\* Mutant of MatchExisting: a transfer is rewritten like a payout without one.
MatchRewrites(i, r) ==
    /\ Free
    /\ payouts[i].amount = r.amount
    /\ \A m \in matched : m.payout # i
    /\ payouts' = [payouts EXCEPT ![i] = [@ EXCEPT !.key = StatementKey(r), !.ref = r.ref, !.on = r.on]]
    /\ UNCHANGED <<clock, timers, card, credit, side, reached, doneIn, trades>>

\* The unique constraint of the keys (greenlight_transfer_user_key).
KeyIsFree(k) == \A i \in DOMAIN payouts : payouts[i].key # k

MatchExisting(i, r) ==
    /\ Free
    /\ payouts[i].amount = r.amount
    /\ IF IsTransfer(i)
       THEN /\ Matches(i, r)
            /\ payouts[i].ref \in {None, r.ref}
            /\ \A m \in matched : m.payout # i
       ELSE KeyIsFree(StatementKey(r))
    /\ payouts' = [payouts EXCEPT ![i] =
         IF IsTransfer(i) THEN [@ EXCEPT !.ref = r.ref]
         ELSE [@ EXCEPT !.key = StatementKey(r), !.ref = r.ref, !.on = r.on]]
    /\ UNCHANGED <<clock, timers, card, credit, side, reached, doneIn, trades>>

\* One selected row of an uploaded statement; a row that was reconciled before
\* changes nothing.
Reconcile(csv, r) ==
    /\ r \in csv
    /\ Eligible(csv, r)
    /\ \A m \in matched : m.fp # Fingerprint(r)
    /\ \/ \E i \in DOMAIN payouts :
            ReferenceAllows(r, i) /\ MatchExisting(i, r) /\ Remember(i, r)
       \/ \E w \in {0} \cup Weeks :
            /\ ReferenceAllows(r, 0)
            /\ ConfirmTransfer(w, r.amount, [key |-> StatementKey(r), ref |-> r.ref, on |-> r.on])
            /\ Remember(Len(payouts'), r)

ConfirmByHand == \E how \in Details : \E w \in {0} \cup Weeks :
    \E a \in IF w = 0 THEN Amounts ELSE {TotalOf(w)} :
        ConfirmTransfer(w, a, how) /\ UNCHANGED matched

GNext ==
    \/ Next /\ UNCHANGED matched
    \/ ConfirmByHand
    \/ \E csv \in SUBSET CsvRows : \E r \in csv : Reconcile(csv, r)

GSpec == GInit /\ [][GNext]_allVars

-----------------------------------------------------------------------------
(* Properties.                                                             *)

PayoutRow == [card : {0} \cup Weeks, amount : Int,
              key : {None} \cup {how.key : how \in Details} \cup {StatementKey(r) : r \in CsvRows},
              ref : {None} \cup {how.ref : how \in Details \cup CsvRows},
              on : {None} \cup {how.on : how \in Details \cup CsvRows}]

\* Each week has its card, and each payout is a row; one that is no transfer has
\* no reference.
RowsOK ==
    /\ card = [w \in Weeks |-> [status |-> card[w].status, hourly |-> card[w].hourly, bonus |-> card[w].bonus]]
    /\ payouts \in Seq(PayoutRow)
    /\ \A i \in DOMAIN payouts : ~IsTransfer(i) => payouts[i].ref = None

\* A statement row stands for one payout and a payout for one row, and the two
\* agree on amount, date and reference for good (reconcile_statement).
StatementAgrees ==
    /\ RowsOK
    /\ \A m, n \in matched : m.payout = n.payout \/ m.fp = n.fp => m = n
    /\ \A m \in matched : /\ m.payout \in DOMAIN payouts /\ IsTransfer(m.payout)
                          /\ Matches(m.payout, m.row)
                          /\ m.row.ref # None => payouts[m.payout].ref = m.row.ref

\* One bank reference is one payout, recorded by hand or from a statement, in
\* either order (confirm_transfer, _match_existing).
ReferencePaysOnce == \A i, j \in DOMAIN payouts :
    payouts[i].ref # None /\ payouts[i].ref = payouts[j].ref => i = j

\* One confirmation key records one payout (confirm_transfer).
KeyPaysOnce == \A i, j \in DOMAIN payouts :
    payouts[i].key # None /\ payouts[i].key = payouts[j].key => i = j

\* Repeats and races of the three payment paths pay once: one payout for a key,
\* for a bank reference and for a card, and a card is PAID exactly by its own.
RepeatsPayOnce == ReferencePaysOnce /\ KeyPaysOnce /\ PaidInFullOnce

\* Reconciling explains payouts; it never undoes what one has settled.
MatchKeepsPayment == [][\A i \in DOMAIN payouts :
    /\ i \in DOMAIN payouts'
    /\ payouts'[i].amount = payouts[i].amount
    /\ payouts'[i].card = payouts[i].card
    /\ IsTransfer(i) => payouts'[i].key = payouts[i].key /\ payouts'[i].on = payouts[i].on
    /\ payouts[i].ref # None => payouts'[i].ref = payouts[i].ref]_allVars
=============================================================================
