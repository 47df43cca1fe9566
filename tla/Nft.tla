-------------------------------- MODULE Nft --------------------------------
(* Marketplace, lending and fractions over one registry of tokens.          *)
EXTENDS NftMarketplace, NftLending, NftFractional, TLC

vars == <<nft, listings, offers, loans, collateral, portfolio, paused, frozen, now,
          pools, deposits, queue, bids, shares, vaults, vaultShares>>

Init == StorageInit /\ LendingInit /\ FractionalInit

Next ==
  \/ StorageNext /\ UNCHANGED <<lendVars, vaultShares>>
  \/ MarketNext /\ UNCHANGED <<lendVars, vaultShares>>
  \/ LendingNext /\ UNCHANGED vaultShares
  \/ FractionalNext /\ UNCHANGED lendVars

Spec == Init /\ [][Next]_vars

-----------------------------------------------------------------------------
\* The handlers tell users apart only by comparing them.
UserSymmetry == Permutations(Users)

-----------------------------------------------------------------------------
(* Properties *)

\* Every entry has its type; balances of pools may be negative integers.
TypeOK ==
  /\ nft \in [Tokens -> NFT]
  /\ listings \in Seq(NFTListing) /\ offers \in Seq(NFTOffer) /\ loans \in Seq(NFTLoan)
  /\ collateral \in [Tokens -> Nat]
  /\ portfolio \in [Users -> NFTPortfolio]
  /\ paused \in BOOLEAN /\ frozen \in SUBSET Users /\ now \in Nat
  /\ pools \in [Pools -> LendingPool]
  /\ deposits \in [Pools -> [Users -> Nat]]
  /\ queue \in Seq(Nat)
  /\ bids \in [1..MaxEntries -> Bid]
  /\ shares \in [Tokens -> [Users -> Nat]]
  /\ vaults \in Seq(FractionalVault)
  /\ vaultShares \in [1..MaxEntries -> [Users -> VaultShare]]

\* The counters that handlers of three kinds keep by hand in the portfolios are
\* the numbers of active listings, offers and loans of each user.  Of the loans a
\* user gave, a liquidation by a third party leaves the counter too high.
CountersAgree == \A u \in Users :
  /\ portfolio[u].listings = Cardinality({ i \in Live(listings) : listings[i].seller = u })
  /\ portfolio[u].offers = Cardinality({ i \in Live(offers) : offers[i].buyer = u })
  /\ portfolio[u].taken = Cardinality({ i \in Live(loans) : loans[i].borrower = u })
  /\ portfolio[u].given >= Cardinality({ i \in Live(loans) : loans[i].lender = u })

\* No sequence of deposits, withdrawals, loans, repayments (into whichever pool)
\* and liquidations lets a pool hand out more than it holds.
NeverOverlent == \A p \in Pools : Liquidity(p) >= 0

\* The shares of a vault that its holders have are those it counts as issued,
\* and never more than the token was divided into.
Held(v) == [u \in Users |-> vaultShares[v][u].shares]

VaultSharesIssued == \A v \in 1..Len(vaults) :
  /\ Supply(Held(v)) = vaults[v].supply
  /\ vaults[v].supply <= vaults[v].total

\* A token changes hands in three ways only: its owner sells it by a listing or
\* an accepted offer that the sale closes, a loan on it ends as liquidated, or its
\* vault closes.
Sold(entries, closed, t) == \E i \in Live(entries) :
  entries[i].token = t /\ ~closed[i].active

HandsOver(t) ==
  \/ Sold(listings, listings', t)
  \/ Sold(offers, offers', t)
  \/ \E i \in 1..Len(loans) :
       loans[i].token = t /\ ~loans[i].liquidated /\ loans'[i].liquidated
  \/ \E v \in 1..Len(vaults) :
       vaults[v].token = t /\ vaults[v].active /\ ~vaults'[v].active

HandedOver == [][ \A t \in Tokens : nft'[t].owner # nft[t].owner => HandsOver(t) ]_vars

\* A loan ends once: what was repaid or liquidated stays so, and neither turns
\* into the other although such a loan can be funded again.
OutcomeKept(i) ==
  /\ loans[i].repaid => loans'[i].repaid /\ ~loans'[i].liquidated
  /\ loans[i].liquidated => loans'[i].liquidated /\ ~loans'[i].repaid

LoanOutcomeFinal == [][ \A i \in 1..Len(loans) : OutcomeKept(i) ]_vars

\* What nft_lending_tests.rs expects of a funded loan: the interest of every day
\* is due with the principal (as long as nothing of the debt was forgiven).
InterestCharged == \A i \in Live(loans) :
  LET l == loans[i] IN
  l.repayment >= l.amount + ((l.amount * l.rate) \div Bps) * l.days
=============================================================================
