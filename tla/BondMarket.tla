----------------------------- MODULE BondMarket -----------------------------
(***************************************************************************)
(* What a bond market promises, whatever program runs it: a buyer pays in  *)
(* a currency and holds one bond with fixed terms; once it is due, exactly *)
(* what it promised is paid out, once; and no fee, price or staking change *)
(* touches a bond, the payments received or the total paid out.            *)
(***************************************************************************)
EXTENDS Integers

CONSTANTS Buyers, Currencies,
          Term,             \* how long after its sale a bond is due
          NoBond            \* a buyer without a bond

VARIABLES now,              \* the time
          bond,             \* the bond of each buyer
          received,         \* what has been paid in each currency
          paid_out          \* what has been paid out on all bonds

vars == <<now, bond, received, paid_out>>

Bonds == [currency : Currencies, paid : Nat, promised : Nat, due : Nat, open : BOOLEAN]

Init ==
    /\ now = 0
    /\ bond = [b \in Buyers |-> NoBond]
    /\ received = [c \in Currencies |-> 0]
    /\ paid_out = 0

\* The terms, bond'[b], are any that fit: due a term from now, paid for in full.
Sell(b) ==
    LET terms == bond'[b] IN
    /\ bond[b] = NoBond
    /\ bond' = [bond EXCEPT ![b] = terms]
    /\ terms \in Bonds /\ terms.open /\ terms.due = now + Term
    /\ received' = [received EXCEPT ![terms.currency] = @ + terms.paid]
    /\ UNCHANGED <<now, paid_out>>

Redeem(b) ==
    /\ bond[b] # NoBond
    /\ bond[b].open /\ now >= bond[b].due
    /\ bond' = [bond EXCEPT ![b].open = FALSE]
    /\ paid_out' = paid_out + bond[b].promised
    /\ UNCHANGED <<now, received>>

Pass ==
    /\ now' > now
    /\ UNCHANGED <<bond, received, paid_out>>

Next == Pass \/ \E b \in Buyers : Sell(b) \/ Redeem(b)

Spec == Init /\ [][Next]_vars

\* A bond that is due does not stay unpaid.
FairSpec == Spec /\ \A b \in Buyers : WF_vars(Redeem(b))
=============================================================================
