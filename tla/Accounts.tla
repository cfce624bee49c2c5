------------------------------ MODULE Accounts ------------------------------
(***************************************************************************)
(* What a pool promises the people who use it, without cells, drafts or    *)
(* reads: everybody has a balance of the staked asset and of each share,   *)
(* the pool has one pot, and an order is either fulfilled to the unit, in  *)
(* one step, out of the accounts of the one who placed it, or given up     *)
(* with nothing moved.                                                     *)
(***************************************************************************)
EXTENDS PoolMath

CONSTANTS Holders, Creator

VARIABLES
  bank,      \* who -> staked asset held
  shares,    \* who -> shares of each side
  pot,       \* staked asset under the pool
  round,     \* status, winner, totals and rake, or no round
  order      \* who -> the order placed, or none

vars == <<bank, shares, pot, round, order>>

Players == Holders \union {Creator}
NoRound == [status |-> "NONE"]
NoOrder == [op |-> "none"]
Sum(per) == per["UP"] + per["DOWN"]

Place(w) ==
  /\ order[w] = NoOrder
  /\ order'[w] # NoOrder
  /\ order' = [order EXCEPT ![w] = order'[w]]
  /\ UNCHANGED <<bank, shares, pot, round>>

Clear(w) == order' = [order EXCEPT ![w] = NoOrder]

GiveUp(w) ==
  /\ order[w] # NoOrder
  /\ Clear(w)
  /\ UNCHANGED <<bank, shares, pot, round>>

\* want[s] of each side bought (or, negative, sold back) for paid.
Trade(w, want, paid) ==
  /\ round.status = "OPEN"
  /\ bank[w] >= paid
  /\ \A s \in Side : shares[w][s] + want[s] >= 0
  /\ bank' = [bank EXCEPT ![w] = @ - paid]
  /\ shares' = [shares EXCEPT ![w] = [s \in Side |-> @[s] + want[s]]]
  /\ round' = [round EXCEPT !.total = [s \in Side |-> @[s] + want[s]]]
  /\ pot' = pot + paid

Deposit(w) ==
  /\ order[w].op = "deposit"
  /\ Clear(w)
  /\ Trade(w, order[w].want, Sum(order[w].want))

Withdraw(w) ==
  /\ order[w].op = "withdraw"
  /\ Clear(w)
  /\ Trade(w, [s \in Side |-> 0 - order[w].want[s]], 0 - Sum(order[w].want))

Refunded == round.status = "VOID" \/ (round.status = "FINALIZED" /\ round.winner = "VOID")

\* All of the holder's shares that count are burned: both sides for a refund.
Claim(w) ==
  IF Refunded THEN Sum(shares[w])
  ELSE payout(shares[w][round.winner], round.total[round.winner],
              round.total[Other(round.winner)], round.rake_bps)

Redeem(w) ==
  /\ order[w].op = "redeem"
  /\ Clear(w)
  /\ round.status \in {"FINALIZED", "VOID"}
  /\ bank' = [bank EXCEPT ![w] = @ + Claim(w)]
  /\ pot' = pot - Claim(w)
  /\ shares' = [shares EXCEPT ![w] =
                  [s \in Side |-> IF Refunded \/ s = round.winner THEN 0 ELSE @[s]]]
  /\ UNCHANGED round

\* Of the sides named, what the holder had when the order was read.
Burn(w) ==
  /\ order[w].op = "burn"
  /\ Clear(w)
  /\ shares' = [shares EXCEPT ![w] = shares'[w]]
  /\ \A s \in Side :
       shares'[w][s] \in IF s \in order[w].sides THEN 0 .. shares[w][s] ELSE {shares[w][s]}
  /\ UNCHANGED <<bank, pot, round>>

Create(w) ==
  /\ order[w].op = "create"
  /\ Clear(w)
  /\ round = NoRound
  /\ round' = [status |-> "OPEN", winner |-> "UNDECIDED",
               total |-> [s \in Side |-> 0], rake_bps |-> order[w].round.rake_bps]
  /\ UNCHANGED <<bank, shares, pot>>

\* Whatever nobody redeemed is the creator's.
Close(w) ==
  /\ order[w].op = "close"
  /\ Clear(w)
  /\ w = Creator
  /\ round.status \in {"FINALIZED", "VOID"}
  /\ bank' = [bank EXCEPT ![w] = @ + pot]
  /\ pot' = 0
  /\ round' = NoRound
  /\ UNCHANGED shares

\* A price transition moves no account.
Decide ==
  /\ round.status \in {"OPEN", "LOCKED", "SETTLED"}
  /\ round'.status \in {"LOCKED", "SETTLED", "FINALIZED", "VOID"}
  /\ round' = [round EXCEPT !.status = round'.status, !.winner = round'.winner]
  /\ UNCHANGED <<order, pot, bank, shares>>

\* A deposit of other software, which pays the whole pot anew.
Overpay(w) ==
  /\ round.status = "OPEN" /\ round'.status = "OPEN"
  /\ UNCHANGED order
  /\ LET want == [s \in Side |-> round'.total[s] - round.total[s]]
     IN  /\ \A s \in Side : want[s] >= 0
         /\ Trade(w, want, Sum(round'.total))

Init ==
  /\ bank \in [Players -> Nat]
  /\ shares = [w \in Players |-> [s \in Side |-> 0]]
  /\ pot = 0
  /\ round = NoRound
  /\ order = [w \in Players |-> NoOrder]

Next ==
  \/ \E w \in Players :
       \/ Place(w) \/ GiveUp(w)
       \/ Deposit(w) \/ Withdraw(w) \/ Redeem(w) \/ Burn(w)
       \/ Create(w) \/ Close(w) \/ Overpay(w)
  \/ Decide

Spec == Init /\ [][Next]_vars
=============================================================================
