---------------------------- MODULE NftStorage ----------------------------
(* The registries the NFT handlers share (counter/src/nft_storage.rs): who  *)
(* owns a token, listings, offers, loans, and the portfolio counters.  The  *)
(* marketplace, lending and fraction handlers extend this module and write  *)
(* its variables; module Nft composes them.                                 *)
(*                                                                          *)
(* Tokens are ERC-721 (of ERC-1155 the code records a quantity and moves    *)
(* the whole token).  No handler moves money, so a price matters only where *)
(* it is compared.  The clock counts days.                                  *)
EXTENDS Ledger, Sequences

CONSTANTS
  Users, Tokens,
  Pools,         \* addresses of lending pools, made from their ids
  None,          \* Option::None
  Bps,           \* 10000
  MaxSwitched,   \* bound: users frozen at once, a pause counting as one
  MaxEntries,    \* bound: listings, offers, loans, vaults and divisions
  MaxDay         \* bound: last day explored

ASSUME NftAssumption ==
  /\ IsFiniteSet(Users) /\ IsFiniteSet(Tokens) /\ Users \cap Pools = {}
  /\ None \notin Users \cup Pools
  /\ Bps \in Nat \ {0}
  /\ MaxEntries \in Nat /\ MaxSwitched \in Nat /\ MaxDay \in Nat

VARIABLES
  nft,         \* NFTRegistry.nfts
  listings,    \* ListingRegistry.listings; the id is the position
  offers,      \* OfferRegistry.offers
  loans,       \* LoanRegistry.loans
  vaults,      \* FractionalVaultRegistry.vaults
  shares,      \* FractionalRegistry.shares; 0 where there is no entry
  collateral,  \* LoanRegistry.collateral_loans, 0 where there is no entry
  portfolio,   \* PORTFOLIO_REGISTRY_KEY
  paused,      \* MARKETPLACE_PAUSED_KEY
  frozen,      \* EmergencyKey::FrozenUsers
  now          \* env.ledger().timestamp(), in days

books == <<listings, offers>>
switches == <<paused, frozen>>

Owners == Users \cup Pools

-----------------------------------------------------------------------------
(* Records *)

NFT == [ owner : Owners, fractional : BOOLEAN, total : Nat, circulating : Nat ]

NFTListing ==
  [ token : Tokens, seller : Users, price : Nat, expires : Nat,
    auction : BOOLEAN, bid : Nat, bidder : Users \cup {None}, active : BOOLEAN ]

NFTOffer ==
  [ token : Tokens, buyer : Users, amount : Nat, expires : Nat, active : BOOLEAN ]

NFTLoan ==
  [ token : Tokens, borrower : Users, lender : Owners, amount : Nat, rate : Nat,
    repayment : Nat, days : Nat, due : Nat,
    active : BOOLEAN, repaid : BOOLEAN, liquidated : BOOLEAN ]

NFTPortfolio == [ listings : Nat, offers : Nat, taken : Nat, given : Nat ]

FractionalVault ==
  [ token : Tokens, owner : Users, total : Nat, supply : Nat, active : BOOLEAN ]

Divided == { t \in Tokens : \E u \in Users : shares[t][u] > 0 }

\* The bounds on entries and on freezing.
Room == Len(listings) + Len(offers) + Len(loans) + Len(vaults) + Cardinality(Divided)
          < MaxEntries

Live(entries) == { i \in 1..Len(entries) : entries[i].active }

\* Listings and offers hold until their last day, and while active.
IsValid(entry) == entry.active /\ now <= entry.expires

\* Mutant: the flags of an earlier end are not looked at.
RunningAgain(loan) == loan.active

Running(loan) == loan.active /\ ~loan.repaid /\ ~loan.liquidated

TotalDue(loan) ==
  IF Running(loan) /\ now > loan.due
  THEN loan.repayment + ((loan.amount * loan.rate) \div Bps) * (now - loan.due)
  ELSE loan.repayment

Collateralized(t) == collateral[t] # 0

-----------------------------------------------------------------------------
(* What the registries do to their entries *)

TransferOwnership(t, to) == nft' = [nft EXCEPT ![t].owner = to]

DeactivateListing(i) ==
  /\ listings[i].active
  /\ listings' = [listings EXCEPT ![i].active = FALSE]

DeactivateOffer(i) ==
  /\ offers[i].active
  /\ offers' = [offers EXCEPT ![i].active = FALSE]

CreateLoan(loan) ==
  /\ loans' = Append(loans, loan)
  /\ collateral' = [collateral EXCEPT ![loan.token] = Len(loans) + 1]

MarkRepaid(i) == loans' = [loans EXCEPT ![i].repaid = TRUE, ![i].active = FALSE]

\* Mutant: the loan is closed without a word about how.
MarkClosed(i) == loans' = [loans EXCEPT ![i].active = FALSE]

MarkLiquidated(i) == loans' = [loans EXCEPT ![i].liquidated = TRUE, ![i].active = FALSE]

\* A counter of a portfolio goes up, or down but not below zero.  The
\* portfolio of a pool's address is not followed.
Counted(p, u, field) == IF u \in Users THEN [p EXCEPT ![u][field] = @ + 1] ELSE p

Discounted(p, u, field) ==
  IF u \in Users THEN [p EXCEPT ![u][field] = IF @ = 0 THEN 0 ELSE @ - 1] ELSE p

-----------------------------------------------------------------------------
(* Switches *)

MaySwitch == ~paused /\ Cardinality(frozen) < MaxSwitched

SetMarketplacePaused ==
  /\ paused \/ MaySwitch
  /\ paused' = ~paused
  /\ UNCHANGED <<nft, books, loans, vaults, shares, collateral, portfolio, frozen, now>>

FreezeUser(u) ==
  /\ MaySwitch
  /\ frozen' = frozen \cup {u}
  /\ UNCHANGED <<nft, books, loans, vaults, shares, collateral, portfolio, paused, now>>

UnfreezeUser(u) ==
  /\ frozen' = frozen \ {u}
  /\ UNCHANGED <<nft, books, loans, vaults, shares, collateral, portfolio, paused, now>>

Tick ==
  /\ now < MaxDay
  /\ now' = now + 1
  /\ UNCHANGED <<nft, books, loans, vaults, shares, collateral, portfolio, switches>>

StorageNext ==
  \/ SetMarketplacePaused
  \/ \E u \in Users : FreezeUser(u) \/ UnfreezeUser(u)
  \/ Tick

StorageInit ==
  /\ nft \in [Tokens -> [ owner : Users, fractional : {FALSE}, total : {1},
                          circulating : {1} ]]
  /\ listings = <<>> /\ offers = <<>> /\ loans = <<>> /\ vaults = <<>>
  /\ shares = [t \in Tokens |-> [u \in Users |-> 0]]
  /\ collateral = [t \in Tokens |-> 0]
  /\ portfolio = [u \in Users |-> [listings |-> 0, offers |-> 0, taken |-> 0, given |-> 0]]
  /\ paused = FALSE /\ frozen = {} /\ now = 0
===========================================================================
