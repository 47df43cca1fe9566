----------------------------- MODULE NftProofs -----------------------------
(* Proofs about the registry of tokens, for any finite sets of users and    *)
(* tokens, any pools, amounts, prices and bounds.  One lemma says what each *)
(* group of handlers does to the invariant, to the owners of tokens and to  *)
(* the outcomes of loans.                                                   *)
EXTENDS Nft, SequenceTheorems

\* The provers that a leaf which names none is given, and for how long.
USE SMTT(30), ZenonT(30)

\* A sequence with one element more, and one with an element replaced.
LEMMA Appended ==
  ASSUME NEW S, NEW s \in Seq(S), NEW e \in S
  PROVE  /\ Append(s, e) \in Seq(S) /\ Len(s) \in Nat /\ Len(Append(s, e)) = Len(s) + 1
         /\ Append(s, e)[Len(s) + 1] = e
         /\ \A i \in 1..Len(s) : Append(s, e)[i] = s[i]
OBVIOUS

LEMMA Replaced ==
  ASSUME NEW S, NEW s \in Seq(S), NEW i \in 1..Len(s), NEW e \in S
  PROVE  /\ [s EXCEPT ![i] = e] \in Seq(S) /\ Len([s EXCEPT ![i] = e]) = Len(s)
         /\ [s EXCEPT ![i] = e][i] = e
         /\ \A j \in 1..Len(s) : j # i => [s EXCEPT ![i] = e][j] = s[j]
OBVIOUS

\* A portfolio stays one when a counter goes up or down.
LEMMA CountersTyped ==
  ASSUME NEW p \in [Users -> NFTPortfolio], NEW u,
         NEW field \in {"listings", "offers", "taken", "given"}
  PROVE  /\ Counted(p, u, field) \in [Users -> NFTPortfolio]
         /\ Discounted(p, u, field) \in [Users -> NFTPortfolio]
<1>1. CASE u \notin Users
  BY <1>1 DEF Counted, Discounted
<1>2. CASE u \in Users
  <2>1. /\ [p[u] EXCEPT ![field] = @ + 1] \in NFTPortfolio
        /\ [p[u] EXCEPT ![field] = IF @ = 0 THEN 0 ELSE @ - 1] \in NFTPortfolio
    <3>1. p[u] \in NFTPortfolio
      BY <1>2
    <3>2. CASE field = "listings"
      BY <3>1, <3>2 DEF NFTPortfolio
    <3>3. CASE field = "offers"
      BY <3>1, <3>3 DEF NFTPortfolio
    <3>4. CASE field = "taken"
      BY <3>1, <3>4 DEF NFTPortfolio
    <3>5. CASE field = "given"
      BY <3>1, <3>5 DEF NFTPortfolio
    <3> QED
      BY <3>2, <3>3, <3>4, <3>5
  <2>2. /\ Counted(p, u, field) = [p EXCEPT ![u] = [p[u] EXCEPT ![field] = @ + 1]]
        /\ Discounted(p, u, field)
             = [p EXCEPT ![u] = [p[u] EXCEPT ![field] = IF @ = 0 THEN 0 ELSE @ - 1]]
    BY <1>2 DEF Counted, Discounted
  <2> QED
    BY <2>1, <2>2, ZenonT(60)
<1> QED
  BY <1>1, <1>2

\* What makes the outcome of a loan final: no loan ended in both ways.  There are
\* no more loans than the entries that bids are kept for.
LoansSound ==
  /\ Len(loans) <= MaxEntries
  /\ \A i \in 1..Len(loans) : ~(loans[i].repaid /\ loans[i].liquidated)

\* What makes the shares of a vault add up: those of the vaults to come are none,
\* and so are those of a vault that was closed, which cannot close again.
VaultsSound ==
  /\ VaultSharesIssued
  /\ \A v \in 1..Len(vaults) : vaults[v].active \/ vaults[v].supply = 0
  /\ Len(vaults) <= MaxEntries
  /\ \A v \in 1..MaxEntries : v > Len(vaults) => Held(v) = [u \in Users |-> 0]

IInv == TypeOK /\ NeverOverlent /\ LoansSound /\ VaultsSound

\* What every step does, beside keeping the invariant.
StepSound ==
  /\ IInv'
  /\ \A t \in Tokens : nft'[t].owner # nft[t].owner => HandsOver(t)
  /\ \A i \in 1..Len(loans) : OutcomeKept(i)

LEMMA InitSound == Init => IInv
<1> SUFFICES ASSUME Init PROVE IInv
  OBVIOUS
<1> USE NftAssumption
<1>1. nft \in [Tokens -> NFT]
  <2> DEFINE R == [ owner : Users, fractional : {FALSE}, total : {1}, circulating : {1} ]
  <2>1. nft \in [Tokens -> R]
    BY DEF Init, StorageInit
  <2>2. ASSUME NEW r \in R PROVE r \in NFT
    <3>1. /\ r = [ owner |-> r.owner, fractional |-> r.fractional, total |-> r.total,
                   circulating |-> r.circulating ]
          /\ r.owner \in Users /\ r.total \in {1} /\ r.circulating \in {1}
          /\ r.fractional \in {FALSE}
      OBVIOUS
    <3>2. r.fractional \in BOOLEAN
      BY <3>1, Zenon
    <3>3. r.owner \in Owners /\ r.total \in Nat /\ r.circulating \in Nat
      BY <3>1 DEF Owners
    <3> QED
      BY <3>1, <3>2, <3>3, Zenon DEF NFT
  <2> HIDE DEF R
  <2> QED
    BY <2>1, <2>2
<1>2. /\ listings \in Seq(NFTListing) /\ offers \in Seq(NFTOffer) /\ loans \in Seq(NFTLoan)
      /\ vaults \in Seq(FractionalVault) /\ queue \in Seq(Nat)
  BY DEF Init, StorageInit, LendingInit
<1>3. /\ collateral \in [Tokens -> Nat] /\ shares \in [Tokens -> [Users -> Nat]]
      /\ paused \in BOOLEAN /\ frozen \in SUBSET Users /\ now \in Nat
      /\ deposits \in [Pools -> [Users -> Nat]]
  BY DEF Init, StorageInit, LendingInit
<1>4. portfolio \in [Users -> NFTPortfolio]
  BY DEF Init, StorageInit, NFTPortfolio
<1>5. pools \in [Pools -> LendingPool]
  BY DEF Init, LendingInit, LendingPool
<1>6. bids \in [1..MaxEntries -> Bid]
  BY DEF Init, LendingInit, NoBid, Bid
<1>7. vaultShares \in [1..MaxEntries -> [Users -> VaultShare]]
  BY DEF Init, FractionalInit, VaultShare
<1>8. NeverOverlent /\ LoansSound
  BY DEF Init, StorageInit, LendingInit, NeverOverlent, Liquidity, LoansSound
<1>9. VaultsSound
  <2>1. vaults = <<>> /\ \A v \in 1..MaxEntries : Held(v) = [u \in Users |-> 0]
    BY DEF Init, StorageInit, FractionalInit, Held
  <2> QED
    BY <2>1 DEF VaultsSound, VaultSharesIssued
<1> QED
  BY <1>1, <1>2, <1>3, <1>4, <1>5, <1>6, <1>7, <1>8, <1>9 DEF IInv, TypeOK

\* The shares of vaults are left alone.
LEMMA VaultsKept == VaultsSound /\ UNCHANGED <<vaults, vaultShares>> => VaultsSound'
BY DEF VaultsSound, VaultSharesIssued, Held

\* Handlers of the marketplace have nothing to do with loans.
LEMMA MarketKeeps ==
  ASSUME IInv, NoLoanChange, UNCHANGED <<lendVars, vaultShares>>,
         nft' \in [Tokens -> NFT], listings' \in Seq(NFTListing), offers' \in Seq(NFTOffer),
         portfolio' \in [Users -> NFTPortfolio]
  PROVE  IInv' /\ \A i \in 1..Len(loans) : OutcomeKept(i)
<1>1. TypeOK'
  BY DEF IInv, TypeOK, NoLoanChange, switches, lendVars
<1>2. NeverOverlent' /\ LoansSound' /\ \A i \in 1..Len(loans) : OutcomeKept(i)
  BY DEF IInv, NoLoanChange, lendVars, NeverOverlent, Liquidity, LoansSound, OutcomeKept
<1>3. VaultsSound'
  BY VaultsKept DEF IInv, NoLoanChange
<1> QED
  BY <1>1, <1>2, <1>3 DEF IInv

\* A listing, or an offer, that is closed was open.
LEMMA ListingClosed ==
  ASSUME listings \in Seq(NFTListing), NEW i \in 1..Len(listings), DeactivateListing(i)
  PROVE  listings' \in Seq(NFTListing) /\ i \in Live(listings) /\ ~listings'[i].active
<1> DEFINE new == [listings[i] EXCEPT !.active = FALSE]
<1>1. listings[i] \in NFTListing
  OBVIOUS
<1>2. new \in NFTListing /\ ~new.active
  BY <1>1 DEF NFTListing
<1>3. listings' = [listings EXCEPT ![i] = new] /\ listings[i].active
  BY DEF DeactivateListing
<1> HIDE DEF new
<1> QED
  BY <1>2, <1>3, Replaced DEF Live

LEMMA OfferClosed ==
  ASSUME offers \in Seq(NFTOffer), NEW i \in 1..Len(offers), DeactivateOffer(i)
  PROVE  offers' \in Seq(NFTOffer) /\ i \in Live(offers) /\ ~offers'[i].active
<1> DEFINE new == [offers[i] EXCEPT !.active = FALSE]
<1>1. offers[i] \in NFTOffer
  OBVIOUS
<1>2. new \in NFTOffer /\ ~new.active
  BY <1>1 DEF NFTOffer
<1>3. offers' = [offers EXCEPT ![i] = new] /\ offers[i].active
  BY DEF DeactivateOffer
<1> HIDE DEF new
<1> QED
  BY <1>2, <1>3, Replaced DEF Live

\* A transfer moves one token.
LEMMA Transferred ==
  ASSUME nft \in [Tokens -> NFT], NEW t \in Tokens, NEW to \in Owners, TransferOwnership(t, to)
  PROVE  /\ nft' \in [Tokens -> NFT]
         /\ \A s \in Tokens : nft'[s].owner # nft[s].owner => s = t
<1>1. [nft[t] EXCEPT !.owner = to] \in NFT
  BY DEF NFT
<1>2. nft' = [nft EXCEPT ![t] = [nft[t] EXCEPT !.owner = to]]
  BY DEF TransferOwnership
<1> QED
  BY <1>1, <1>2

LEMMA MarketStep ==
  ASSUME IInv, MarketNext, UNCHANGED <<lendVars, vaultShares>>
  PROVE  StepSound
<1> USE NftAssumption, MarketplaceAssumption
<1>0. /\ nft \in [Tokens -> NFT] /\ listings \in Seq(NFTListing) /\ offers \in Seq(NFTOffer)
      /\ portfolio \in [Users -> NFTPortfolio] /\ now \in Nat
  BY DEF IInv, TypeOK
<1>1. ASSUME NEW u \in Users, NEW t \in Tokens, NEW p \in Prices, NEW d \in ListingDays,
             NEW a \in BOOLEAN, CreateListing(u, t, p, d, a)
      PROVE  StepSound
  <2> DEFINE new == [ token |-> t, seller |-> u, price |-> p, expires |-> now + d,
                      auction |-> a, bid |-> 0, bidder |-> None, active |-> TRUE ]
  <2>1. new \in NFTListing
    BY <1>0 DEF NFTListing
  <2>2. /\ listings' = Append(listings, new) /\ portfolio' = Counted(portfolio, u, "listings")
        /\ UNCHANGED <<nft, offers>> /\ NoLoanChange
    BY <1>1 DEF CreateListing
  <2> HIDE DEF new
  <2>3. listings' \in Seq(NFTListing) /\ portfolio' \in [Users -> NFTPortfolio]
    BY <1>0, <2>1, <2>2, Appended, CountersTyped
  <2> QED
    BY <1>0, <2>2, <2>3, MarketKeeps DEF StepSound
<1>2. ASSUME NEW u \in Users, NEW t \in Tokens, NEW p \in Prices, NEW d \in OfferDays,
             CreateOffer(u, t, p, d)
      PROVE  StepSound
  <2> DEFINE new == [ token |-> t, buyer |-> u, amount |-> p, expires |-> now + d,
                      active |-> TRUE ]
  <2>1. new \in NFTOffer
    BY <1>0 DEF NFTOffer
  <2>2. /\ offers' = Append(offers, new) /\ portfolio' = Counted(portfolio, u, "offers")
        /\ UNCHANGED <<nft, listings>> /\ NoLoanChange
    BY <1>2 DEF CreateOffer
  <2> HIDE DEF new
  <2>3. offers' \in Seq(NFTOffer) /\ portfolio' \in [Users -> NFTPortfolio]
    BY <1>0, <2>1, <2>2, Appended, CountersTyped
  <2> QED
    BY <1>0, <2>2, <2>3, MarketKeeps DEF StepSound
<1>3. ASSUME NEW u \in Users, NEW i \in 1..Len(listings), CancelListing(u, i)
      PROVE  StepSound
  <2>1. /\ DeactivateListing(i) /\ portfolio' = Discounted(portfolio, u, "listings")
        /\ UNCHANGED <<nft, offers>> /\ NoLoanChange
    BY <1>3 DEF CancelListing
  <2>2. listings' \in Seq(NFTListing) /\ portfolio' \in [Users -> NFTPortfolio]
    BY <1>0, <2>1, ListingClosed, CountersTyped
  <2> QED
    BY <1>0, <2>1, <2>2, MarketKeeps DEF StepSound
<1>4. ASSUME NEW u \in Users, NEW i \in 1..Len(listings), NEW p \in Prices, PlaceBid(u, i, p)
      PROVE  StepSound
  <2> DEFINE new == [listings[i] EXCEPT !.bid = p, !.bidder = u]
  <2>0. listings[i] \in NFTListing /\ p \in Nat
    BY <1>0
  <2>1. new \in NFTListing
    BY <2>0 DEF NFTListing
  <2>2. listings' = [listings EXCEPT ![i] = new]
        /\ UNCHANGED <<nft, offers, portfolio>> /\ NoLoanChange
    BY <1>0, <1>4 DEF PlaceBid
  <2> HIDE DEF new
  <2>3. listings' \in Seq(NFTListing)
    BY <1>0, <2>1, <2>2, Replaced
  <2> QED
    BY <1>0, <2>2, <2>3, MarketKeeps DEF StepSound
<1>5. ASSUME NEW u \in Users, NEW i \in 1..Len(listings), BuyNft(u, i)
      PROVE  StepSound
  <2>1. listings[i] \in NFTListing
    BY <1>0
  <2>2. /\ DeactivateListing(i) /\ TransferOwnership(listings[i].token, u)
        /\ portfolio' = Discounted(portfolio, listings[i].seller, "listings")
        /\ UNCHANGED offers /\ NoLoanChange
    BY <1>5 DEF BuyNft, ExecuteTrade
  <2>3. listings' \in Seq(NFTListing) /\ i \in Live(listings) /\ ~listings'[i].active
    BY <1>0, <2>2, ListingClosed
  <2>4. /\ nft' \in [Tokens -> NFT] /\ portfolio' \in [Users -> NFTPortfolio]
        /\ \A s \in Tokens : nft'[s].owner # nft[s].owner => s = listings[i].token
    BY <1>0, <2>1, <2>2, Transferred, CountersTyped DEF NFTListing, Owners
  <2>5. \A t \in Tokens : nft'[t].owner # nft[t].owner => HandsOver(t)
    BY <2>3, <2>4 DEF HandsOver, Sold
  <2> QED
    BY <1>0, <2>2, <2>3, <2>4, <2>5, MarketKeeps DEF StepSound
<1>6. ASSUME NEW i \in 1..Len(listings), FinalizeAuction(i)
      PROVE  StepSound
  <2>1. listings[i] \in NFTListing
    BY <1>0
  <2>2. /\ DeactivateListing(i) /\ TransferOwnership(listings[i].token, listings[i].bidder)
        /\ listings[i].bidder # None
        /\ portfolio' = Discounted(portfolio, listings[i].seller, "listings")
        /\ UNCHANGED offers /\ NoLoanChange
    BY <1>6 DEF FinalizeAuction, ExecuteTrade
  <2>3. listings' \in Seq(NFTListing) /\ i \in Live(listings) /\ ~listings'[i].active
    BY <1>0, <2>2, ListingClosed
  <2>4. /\ nft' \in [Tokens -> NFT] /\ portfolio' \in [Users -> NFTPortfolio]
        /\ \A s \in Tokens : nft'[s].owner # nft[s].owner => s = listings[i].token
    BY <1>0, <2>1, <2>2, Transferred, CountersTyped DEF NFTListing, Owners
  <2>5. \A t \in Tokens : nft'[t].owner # nft[t].owner => HandsOver(t)
    BY <2>3, <2>4 DEF HandsOver, Sold
  <2> QED
    BY <1>0, <2>2, <2>3, <2>4, <2>5, MarketKeeps DEF StepSound
<1>7. ASSUME NEW u \in Users, NEW i \in 1..Len(offers), CancelOffer(u, i)
      PROVE  StepSound
  <2>1. /\ DeactivateOffer(i) /\ portfolio' = Discounted(portfolio, u, "offers")
        /\ UNCHANGED <<nft, listings>> /\ NoLoanChange
    BY <1>7 DEF CancelOffer
  <2>2. offers' \in Seq(NFTOffer) /\ portfolio' \in [Users -> NFTPortfolio]
    BY <1>0, <2>1, OfferClosed, CountersTyped
  <2> QED
    BY <1>0, <2>1, <2>2, MarketKeeps DEF StepSound
<1>8. ASSUME NEW u \in Users, NEW i \in 1..Len(offers), AcceptOffer(u, i)
      PROVE  StepSound
  <2>1. offers[i] \in NFTOffer
    BY <1>0
  <2>2. /\ DeactivateOffer(i) /\ TransferOwnership(offers[i].token, offers[i].buyer)
        /\ portfolio' = Discounted(portfolio, offers[i].buyer, "offers")
        /\ UNCHANGED listings /\ NoLoanChange
    BY <1>8 DEF AcceptOffer, ExecuteTrade
  <2>3. offers' \in Seq(NFTOffer) /\ i \in Live(offers) /\ ~offers'[i].active
    BY <1>0, <2>2, OfferClosed
  <2>4. /\ nft' \in [Tokens -> NFT] /\ portfolio' \in [Users -> NFTPortfolio]
        /\ \A s \in Tokens : nft'[s].owner # nft[s].owner => s = offers[i].token
    BY <1>0, <2>1, <2>2, Transferred, CountersTyped DEF NFTOffer, Owners
  <2>5. \A t \in Tokens : nft'[t].owner # nft[t].owner => HandsOver(t)
    BY <2>3, <2>4 DEF HandsOver, Sold
  <2> QED
    BY <1>0, <2>2, <2>3, <2>4, <2>5, MarketKeeps DEF StepSound
<1> QED
  BY <1>1, <1>2, <1>3, <1>4, <1>5, <1>6, <1>7, <1>8 DEF MarketNext

-----------------------------------------------------------------------------
\* Handlers of loans and pools have nothing to do with listings and fractions.
LEMMA LendingKeeps ==
  ASSUME IInv, NoOtherChange, UNCHANGED vaultShares,
         nft' \in [Tokens -> NFT], loans' \in Seq(NFTLoan), collateral' \in [Tokens -> Nat],
         portfolio' \in [Users -> NFTPortfolio], pools' \in [Pools -> LendingPool],
         deposits' \in [Pools -> [Users -> Nat]], queue' \in Seq(Nat),
         bids' \in [1..MaxEntries -> Bid],
         NeverOverlent', LoansSound'
  PROVE  IInv'
<1>1. TypeOK'
  BY DEF IInv, TypeOK, NoOtherChange, books, switches
<1>2. VaultsSound'
  BY VaultsKept DEF IInv, NoOtherChange
<1> QED
  BY <1>1, <1>2 DEF IInv

\* A new loan has not ended, and no other changes.
LEMMA LoanCreated ==
  ASSUME IInv, NEW loan \in NFTLoan, ~loan.repaid, ~loan.liquidated, Room, CreateLoan(loan)
  PROVE  /\ loans' \in Seq(NFTLoan) /\ collateral' \in [Tokens -> Nat] /\ LoansSound'
         /\ \A i \in 1..Len(loans) : OutcomeKept(i)
<1>1. loans \in Seq(NFTLoan) /\ collateral \in [Tokens -> Nat] /\ loans' = Append(loans, loan)
  BY DEF IInv, TypeOK, CreateLoan
<1>2. /\ loans' \in Seq(NFTLoan) /\ Len(loans) \in Nat /\ Len(loans') = Len(loans) + 1
      /\ loans'[Len(loans) + 1] = loan /\ \A i \in 1..Len(loans) : loans'[i] = loans[i]
  BY <1>1, Appended
<1>3. collateral' \in [Tokens -> Nat]
  <2>1. collateral' = [collateral EXCEPT ![loan.token] = Len(loans) + 1]
    BY DEF CreateLoan
  <2>2. Len(loans) + 1 \in Nat
    BY <1>2
  <2> QED
    BY <1>1, <2>1, <2>2
<1>4. Len(loans) + 1 <= MaxEntries
  <2>1. Cardinality(Divided) \in Nat
    BY NftAssumption, FS_Subset, FS_CardinalityType DEF Divided
  <2>2. Len(listings) \in Nat /\ Len(offers) \in Nat /\ Len(vaults) \in Nat
    BY DEF IInv, TypeOK
  <2> QED
    BY <1>2, <2>1, <2>2, NftAssumption DEF Room
<1>5. LoansSound' /\ \A i \in 1..Len(loans) : OutcomeKept(i)
  BY <1>2, <1>4, SMTT(40) DEF IInv, LoansSound, OutcomeKept
<1> QED
  BY <1>2, <1>3, <1>5

\* A loan that changes and does not take back how it ended.
LEMMA LoanReplaced ==
  ASSUME IInv, NEW i \in 1..Len(loans), NEW new \in NFTLoan, loans' = [loans EXCEPT ![i] = new],
         ~(new.repaid /\ new.liquidated),
         loans[i].repaid => new.repaid, loans[i].liquidated => new.liquidated
  PROVE  /\ loans' \in Seq(NFTLoan) /\ LoansSound'
         /\ \A j \in 1..Len(loans) : OutcomeKept(j)
<1>1. loans \in Seq(NFTLoan)
  BY DEF IInv, TypeOK
<1>2. /\ loans' \in Seq(NFTLoan) /\ Len(loans') = Len(loans) /\ loans'[i] = new
      /\ \A j \in 1..Len(loans) : j # i => loans'[j] = loans[j]
  BY <1>1, Replaced
<1>3. LoansSound'
  BY <1>2 DEF IInv, LoansSound
<1>4. ASSUME NEW j \in 1..Len(loans) PROVE OutcomeKept(j)
  BY <1>2 DEF IInv, LoansSound, OutcomeKept
<1> QED
  BY <1>2, <1>3, <1>4

\* A loan that ends was running before.
LEMMA LoanEnded ==
  ASSUME IInv, NEW i \in 1..Len(loans), Running(loans[i]), MarkRepaid(i) \/ MarkLiquidated(i)
  PROVE  /\ loans' \in Seq(NFTLoan) /\ LoansSound'
         /\ \A j \in 1..Len(loans) : OutcomeKept(j)
<1> DEFINE repaid == [loans[i] EXCEPT !.repaid = TRUE, !.active = FALSE]
           liquidated == [loans[i] EXCEPT !.liquidated = TRUE, !.active = FALSE]
<1>1. loans \in Seq(NFTLoan) /\ loans[i] \in NFTLoan /\ ~loans[i].repaid /\ ~loans[i].liquidated
  BY DEF IInv, TypeOK, Running
<1>2. repaid \in NFTLoan /\ repaid.repaid /\ ~repaid.liquidated
  BY <1>1 DEF NFTLoan
<1>3. liquidated \in NFTLoan /\ liquidated.liquidated /\ ~liquidated.repaid
  BY <1>1 DEF NFTLoan
<1>4. CASE MarkRepaid(i)
  <2>1. loans' = [loans EXCEPT ![i] = repaid]
    BY <1>1, <1>4 DEF MarkRepaid
  <2> HIDE DEF repaid
  <2> QED
    BY <1>1, <1>2, <2>1, LoanReplaced
<1>5. CASE MarkLiquidated(i)
  <2>1. loans' = [loans EXCEPT ![i] = liquidated]
    BY <1>1, <1>5 DEF MarkLiquidated
  <2> HIDE DEF liquidated
  <2> QED
    BY <1>1, <1>3, <2>1, LoanReplaced
<1> QED
  BY <1>4, <1>5

\* A liquidated loan accounts for the token that goes.
LEMMA Foreclosed ==
  ASSUME IInv, NEW i \in 1..Len(loans), Running(loans[i]), MarkLiquidated(i),
         NEW to \in Owners, TransferOwnership(loans[i].token, to)
  PROVE  /\ nft' \in [Tokens -> NFT]
         /\ \A t \in Tokens : nft'[t].owner # nft[t].owner => HandsOver(t)
<1>1. loans \in Seq(NFTLoan) /\ nft \in [Tokens -> NFT] /\ loans[i] \in NFTLoan
  BY DEF IInv, TypeOK
<1>2. /\ nft' \in [Tokens -> NFT]
      /\ \A t \in Tokens : nft'[t].owner # nft[t].owner => t = loans[i].token
  BY <1>1, Transferred DEF NFTLoan
<1>3. ~loans[i].liquidated /\ loans'[i].liquidated
  <2> DEFINE new == [loans[i] EXCEPT !.liquidated = TRUE, !.active = FALSE]
  <2>1. new.liquidated /\ new \in NFTLoan
    BY <1>1 DEF NFTLoan
  <2>2. loans' = [loans EXCEPT ![i] = new]
    BY <1>1 DEF MarkLiquidated
  <2> HIDE DEF new
  <2> QED
    BY <1>1, <2>1, <2>2, Replaced DEF Running
<1> QED
  BY <1>2, <1>3 DEF HandsOver

\* What is due for a loan is a natural number.
LEMMA DueTyped ==
  ASSUME NEW l \in NFTLoan, now \in Nat
  PROVE  TotalDue(l) \in Nat
<1>1. /\ l.repayment \in Nat /\ l.amount \in Nat /\ l.rate \in Nat /\ l.due \in Nat
      /\ Bps \in Nat /\ Bps > 0
  BY NftAssumption DEF NFTLoan
<1>2. l.amount * l.rate \in Nat
  BY <1>1
<1>3. (l.amount * l.rate) \div Bps \in Nat
  BY <1>1, <1>2
<1>4. now > l.due => ((l.amount * l.rate) \div Bps) * (now - l.due) \in Nat
  BY <1>1, <1>3
<1> QED
  BY <1>1, <1>4 DEF TotalDue

\* The rate of a pool is a natural number, below the kink and above it.
LEMMA RateTyped ==
  ASSUME NEW pool \in LendingPool, pool.borrowed >= 0, pool.deposited >= 0
  PROVE  DynamicRate(pool) \in Nat
<1> DEFINE knee == (Bps * 8) \div 10
           u == Utilization(pool)
<1>1. /\ BaseRate \in Nat /\ Bps \in Nat /\ Bps > 1
      /\ pool.borrowed \in Nat /\ pool.deposited \in Nat
  BY NftAssumption, LendingAssumption DEF LendingPool
<1>2. knee \in Nat /\ knee > 0 /\ knee < Bps
  BY <1>1
<1>3. Bps \div 100 \in Nat /\ Bps \div 20 \in Nat
  BY <1>1
<1>4. CASE pool.deposited = 0
  BY <1>1, <1>4 DEF DynamicRate
<1>5. CASE pool.deposited > 0
  <2>1. pool.borrowed * Bps \in Nat
    BY <1>1
  <2>2. u \in Nat
    BY <1>1, <1>5, <2>1 DEF Utilization
  <2> HIDE DEF knee, u
  <2>3. ((Bps \div 100) * u) \div knee \in Nat
    <3>1. (Bps \div 100) * u \in Nat
      BY <1>3, <2>2
    <3> QED
      BY <1>2, <3>1
  <2>4. u > knee => ((Bps \div 20) * (u - knee)) \div (Bps - knee) \in Nat
    <3>1. u > knee => (Bps \div 20) * (u - knee) \in Nat
      BY <1>2, <1>3, <2>2
    <3>2. Bps - knee \in Nat /\ Bps - knee > 0
      BY <1>1, <1>2
    <3> QED
      BY <3>1, <3>2
  <2>5. DynamicRate(pool) = IF u <= knee THEN BaseRate + ((Bps \div 100) * u) \div knee
          ELSE BaseRate + (Bps \div 100) + ((Bps \div 20) * (u - knee)) \div (Bps - knee)
    BY <1>1, <1>5 DEF DynamicRate, u, knee
  <2> QED
    BY <1>1, <1>2, <1>3, <2>2, <2>3, <2>4, <2>5
<1> QED
  BY <1>1, <1>4, <1>5

\* So is the interest of some days, whole or scaled down.
LEMMA InterestTyped ==
  ASSUME NEW a \in Nat, NEW r \in Nat, NEW d \in Nat
  PROVE  ((a * r) \div Bps) * d \in Nat /\ TotalInterest(a, r, d) \in Nat
<1>1. Bps \in Nat /\ Bps > 0 /\ InterestPrecision \in Nat /\ InterestPrecision > 0
  BY NftAssumption, LendingAssumption
<1>2. a * r \in Nat
  OBVIOUS
<1>3. (a * r) \div Bps \in Nat
  BY <1>1, <1>2
<1>4. ((a * r) \div Bps) * d \in Nat
  BY <1>3
<1>5. (((a * r) \div Bps) * d) \div InterestPrecision \in Nat
  BY <1>1, <1>4
<1> QED
  BY <1>4, <1>5 DEF TotalInterest

\* One pool changes and still holds what it lent.
LEMMA PoolChanged ==
  ASSUME IInv, NEW p \in Pools, NEW new \in LendingPool, pools' = [pools EXCEPT ![p] = new],
         new.deposited - new.borrowed >= 0
  PROVE  pools' \in [Pools -> LendingPool] /\ NeverOverlent'
<1>1. pools \in [Pools -> LendingPool] /\ NeverOverlent
  BY DEF IInv, TypeOK
<1>2. /\ pools' \in [Pools -> LendingPool] /\ pools'[p] = new
      /\ \A q \in Pools : q # p => pools'[q] = pools[q]
  BY <1>1
<1> QED
  BY <1>1, <1>2 DEF NeverOverlent, Liquidity

\* The pools are given by two numbers and a flag, of which the first cover the second.
LEMMA PoolCovered ==
  ASSUME IInv, NEW p \in Pools
  PROVE  /\ pools[p] \in LendingPool /\ pools[p].deposited \in Int /\ pools[p].borrowed \in Int
         /\ Liquidity(p) = pools[p].deposited - pools[p].borrowed
         /\ pools[p].deposited - pools[p].borrowed >= 0
<1>1. pools[p] \in LendingPool
  BY DEF IInv, TypeOK
<1> QED
  BY <1>1 DEF IInv, NeverOverlent, Liquidity, LendingPool

\* A pool that gets its loan back with what was due and more, or forgets it,
\* still holds what it lent.
LEMMA PoolRepaid ==
  ASSUME NEW pool \in LendingPool, pool.deposited - pool.borrowed >= 0,
         NEW a \in Nat, NEW due \in Nat, NEW extra \in Nat
  PROVE  LET paid == [pool EXCEPT !.borrowed = @ - a, !.deposited = @ + due + extra - a]
             forgotten == [pool EXCEPT !.borrowed = @ - a]
         IN  /\ paid \in LendingPool /\ paid.deposited - paid.borrowed >= 0
             /\ forgotten \in LendingPool /\ forgotten.deposited - forgotten.borrowed >= 0
<1> DEFINE b == pool.borrowed - a
           d == pool.deposited + due + extra - a
<1>1. pool.deposited \in Int /\ pool.borrowed \in Int
  BY DEF LendingPool
<1>2. b \in Int /\ d \in Int /\ d - b >= 0 /\ pool.deposited - b >= 0
  BY <1>1
<1> HIDE DEF b, d
<1>3. [pool EXCEPT !.borrowed = b, !.deposited = d] \in LendingPool
  BY <1>2 DEF LendingPool
<1>4. [pool EXCEPT !.borrowed = b] \in LendingPool
  BY <1>2 DEF LendingPool
<1>5. /\ [pool EXCEPT !.borrowed = b, !.deposited = d].borrowed = b
      /\ [pool EXCEPT !.borrowed = b, !.deposited = d].deposited = d
      /\ [pool EXCEPT !.borrowed = b].borrowed = b
      /\ [pool EXCEPT !.borrowed = b].deposited = pool.deposited
  BY DEF LendingPool
<1> QED
  BY <1>2, <1>3, <1>4, <1>5 DEF b, d

\* A sequence without one of its elements.
LEMMA Removed ==
  ASSUME NEW S, NEW s \in Seq(S), NEW n \in 1..Len(s)
  PROVE  SubSeq(s, 1, n - 1) \o SubSeq(s, n + 1, Len(s)) \in Seq(S)
<1>1. /\ \A m \in 1..(n - 1) : s[m] \in S
      /\ \A m \in (n + 1)..Len(s) : s[m] \in S
  OBVIOUS
<1>2. n - 1 \in Int /\ n + 1 \in Int /\ Len(s) \in Int
  OBVIOUS
<1>3. SubSeq(s, 1, n - 1) \in Seq(S)
  BY <1>1, <1>2, SubSeqProperties
<1>4. SubSeq(s, n + 1, Len(s)) \in Seq(S)
  BY <1>1, <1>2, SubSeqProperties
<1> QED
  BY <1>3, <1>4

\* Every handler of loans and pools.
LEMMA LendingStep ==
  ASSUME IInv, LendingNext, UNCHANGED vaultShares
  PROVE  StepSound
<1> USE NftAssumption, LendingAssumption
<1>0. /\ nft \in [Tokens -> NFT] /\ loans \in Seq(NFTLoan) /\ collateral \in [Tokens -> Nat]
      /\ portfolio \in [Users -> NFTPortfolio] /\ pools \in [Pools -> LendingPool]
      /\ deposits \in [Pools -> [Users -> Nat]] /\ queue \in Seq(Nat)
      /\ bids \in [1..MaxEntries -> Bid]
      /\ now \in Nat /\ NeverOverlent /\ LoansSound
  BY DEF IInv, TypeOK
<1>z. Len(loans) \in Nat /\ Len(queue) \in Nat
  BY <1>0, SMTT(40)
<1>a. ASSUME UNCHANGED pools PROVE NeverOverlent' /\ pools' \in [Pools -> LendingPool]
  BY <1>0, <1>a DEF NeverOverlent, Liquidity
<1>b. ASSUME UNCHANGED loans
      PROVE  /\ loans' \in Seq(NFTLoan) /\ LoansSound'
             /\ \A i \in 1..Len(loans) : OutcomeKept(i)
  BY <1>0, <1>b DEF LoansSound, OutcomeKept
<1>c. ASSUME UNCHANGED nft
      PROVE  /\ nft' \in [Tokens -> NFT]
             /\ \A t \in Tokens : nft'[t].owner # nft[t].owner => HandsOver(t)
  BY <1>0, <1>c
<1>d. ASSUME NEW i \in 1..Len(loans)
      PROVE  loans[i] \in NFTLoan /\ TotalDue(loans[i]) \in Nat
  <2>1. loans[i] \in NFTLoan
    BY <1>0
  <2> QED
    BY <1>0, <2>1, DueTyped
<1>e. ASSUME NEW i \in 1..Len(loans)
      PROVE  Settled(loans[i]) \in [Users -> NFTPortfolio]
  <2>1. Discounted(portfolio, loans[i].borrower, "taken") \in [Users -> NFTPortfolio]
    BY <1>0, CountersTyped
  <2> QED
    BY <2>1, CountersTyped DEF Settled
<1>1. ASSUME NEW u \in Users, NEW t \in Tokens, NEW a \in Amounts, NEW r \in Rates,
             NEW d \in LoanDays, RequestLoan(u, t, a, r, d)
      PROVE  StepSound
  <2> DEFINE new == [ token |-> t, borrower |-> u, lender |-> u, amount |-> a,
                      rate |-> r, repayment |-> a, days |-> d, due |-> 0,
                      active |-> FALSE, repaid |-> FALSE, liquidated |-> FALSE ]
  <2>1. new \in NFTLoan /\ ~new.repaid /\ ~new.liquidated
    BY DEF NFTLoan, Owners
  <2>2. Room /\ CreateLoan(new) /\ UNCHANGED <<nft, portfolio, lendVars>> /\ NoOtherChange
    BY <1>1 DEF RequestLoan
  <2> HIDE DEF new
  <2>3. /\ loans' \in Seq(NFTLoan) /\ collateral' \in [Tokens -> Nat] /\ LoansSound'
        /\ \A i \in 1..Len(loans) : OutcomeKept(i)
    BY <2>1, <2>2, LoanCreated
  <2>4. /\ UNCHANGED <<pools, deposits, queue, bids>>
    BY <2>2 DEF lendVars
  <2> QED
    BY <1>0, <1>a, <1>c, <2>2, <2>3, <2>4, LendingKeeps DEF StepSound
<1>2. ASSUME NEW u \in Users, NEW i \in 1..Len(loans), FundLoan(u, i)
      PROVE  StepSound
  <2> DEFINE l == loans[i]
             interest == TotalInterest(l.amount, l.rate, l.days)
             new == [ l EXCEPT !.repayment = l.amount + interest,
                               !.lender = u, !.due = now + l.days, !.active = TRUE ]
  <2>1. l \in NFTLoan /\ l.amount \in Nat /\ l.rate \in Nat /\ l.days \in Nat
    BY <1>d DEF NFTLoan
  <2>2. interest \in Nat
    BY <2>1, InterestTyped
  <2>3. /\ loans' = [loans EXCEPT ![i] = new]
        /\ portfolio' = Counted(Counted(portfolio, l.borrower, "taken"), u, "given")
        /\ UNCHANGED <<nft, collateral, pools, deposits, queue, bids>> /\ NoOtherChange
    BY <1>2 DEF FundLoan, lendVars
  <2> HIDE DEF interest, l
  <2>4. new \in NFTLoan /\ new.repaid = l.repaid /\ new.liquidated = l.liquidated
    <3>1. l.amount + interest \in Nat
      BY <2>1, <2>2, SMTT(40)
    <3>2. now + l.days \in Nat
      BY <1>0, <2>1, SMTT(40)
    <3>3. u \in Owners
      BY DEF Owners
    <3> QED
      BY <2>1, <3>1, <3>2, <3>3 DEF NFTLoan
  <2>5. ~(l.repaid /\ l.liquidated)
    BY <1>0 DEF LoansSound, l
  <2>6. /\ loans' \in Seq(NFTLoan) /\ LoansSound'
        /\ \A j \in 1..Len(loans) : OutcomeKept(j)
    <3> HIDE DEF new
    <3> QED
      BY <2>3, <2>4, <2>5, LoanReplaced DEF l
  <2>7. portfolio' \in [Users -> NFTPortfolio]
    <3>1. Counted(portfolio, l.borrower, "taken") \in [Users -> NFTPortfolio]
      BY <1>0, CountersTyped
    <3> QED
      BY <2>3, <3>1, CountersTyped
  <2> QED
    BY <1>0, <1>a, <1>c, <2>3, <2>6, <2>7, LendingKeeps DEF StepSound
<1>3. ASSUME NEW u \in Users, NEW i \in 1..Len(loans), RepayLoan(u, i)
      PROVE  StepSound
  <2>1. /\ Running(loans[i]) /\ MarkRepaid(i) /\ portfolio' = Settled(loans[i])
        /\ UNCHANGED <<nft, collateral, pools, deposits, queue, bids>> /\ NoOtherChange
    BY <1>3 DEF RepayLoan, lendVars
  <2>2. /\ loans' \in Seq(NFTLoan) /\ LoansSound'
        /\ \A j \in 1..Len(loans) : OutcomeKept(j)
    BY <2>1, LoanEnded
  <2> QED
    BY <1>0, <1>a, <1>c, <1>e, <2>1, <2>2, LendingKeeps DEF StepSound
<1>4. ASSUME NEW i \in 1..Len(loans), LiquidateLoan(i)
      PROVE  StepSound
  <2>1. /\ Running(loans[i]) /\ MarkLiquidated(i) /\ portfolio' = Settled(loans[i])
        /\ TransferOwnership(loans[i].token, loans[i].lender)
        /\ UNCHANGED <<collateral, pools, deposits, queue, bids>> /\ NoOtherChange
    BY <1>4 DEF LiquidateLoan, lendVars
  <2>2. loans[i].lender \in Owners
    BY <1>d DEF NFTLoan
  <2>3. /\ loans' \in Seq(NFTLoan) /\ LoansSound'
        /\ \A j \in 1..Len(loans) : OutcomeKept(j)
    BY <2>1, LoanEnded
  <2>4. /\ nft' \in [Tokens -> NFT]
        /\ \A t \in Tokens : nft'[t].owner # nft[t].owner => HandsOver(t)
    BY <2>1, <2>2, Foreclosed
  <2> QED
    BY <1>0, <1>a, <1>e, <2>1, <2>3, <2>4, LendingKeeps DEF StepSound
<1>5. ASSUME NEW p \in Pools, CreateLendingPool(p)
      PROVE  StepSound
  <2>1. /\ pools' = [pools EXCEPT ![p].open = TRUE]
        /\ UNCHANGED <<nft, loans, collateral, portfolio, deposits, queue, bids>>
        /\ NoOtherChange
    BY <1>5 DEF CreateLendingPool
  <2> DEFINE new == [pools[p] EXCEPT !.open = TRUE]
  <2>2. pools' = [pools EXCEPT ![p] = new]
    BY <1>0, <2>1
  <2>3. new \in LendingPool /\ new.deposited - new.borrowed >= 0
    BY PoolCovered DEF LendingPool
  <2> HIDE DEF new
  <2>4. pools' \in [Pools -> LendingPool] /\ NeverOverlent'
    BY <2>2, <2>3, PoolChanged
  <2> QED
    BY <1>0, <1>b, <1>c, <2>1, <2>4, LendingKeeps DEF StepSound
<1>6. ASSUME NEW u \in Users, NEW p \in Pools, NEW a \in Amounts,
             DepositToLendingPool(u, p, a) \/ WithdrawFromLendingPool(u, p, a)
      PROVE  StepSound
  <2>1. /\ UNCHANGED <<nft, loans, collateral, portfolio, queue, bids>> /\ NoOtherChange
    BY <1>6 DEF DepositToLendingPool, WithdrawFromLendingPool
  <2>2. a \in Nat
    OBVIOUS
  <2>3. CASE DepositToLendingPool(u, p, a)
    <3>1. /\ pools' = [pools EXCEPT ![p].deposited = @ + a]
          /\ deposits' = [deposits EXCEPT ![p][u] = @ + a]
      BY <2>3 DEF DepositToLendingPool
    <3> DEFINE new == [pools[p] EXCEPT !.deposited = @ + a]
    <3>4. pools' = [pools EXCEPT ![p] = new]
      BY <1>0, <3>1
    <3>5. new \in LendingPool /\ new.deposited - new.borrowed >= 0
      BY <2>2, <3>1, PoolCovered DEF LendingPool
    <3> HIDE DEF new
    <3>2. pools' \in [Pools -> LendingPool] /\ NeverOverlent'
      BY <3>4, <3>5, PoolChanged
    <3>3. deposits' \in [Pools -> [Users -> Nat]]
      BY <1>0, <2>2, <3>1, SMTT(40)
    <3> QED
      BY <1>0, <1>b, <1>c, <2>1, <3>2, <3>3, LendingKeeps DEF StepSound
  <2>4. CASE WithdrawFromLendingPool(u, p, a)
    <3>1. /\ pools' = [pools EXCEPT ![p].deposited = @ - a]
          /\ deposits' = [deposits EXCEPT ![p][u] = @ - a]
          /\ a <= Liquidity(p) /\ deposits[p][u] >= a
      BY <2>4 DEF WithdrawFromLendingPool
    <3> DEFINE new == [pools[p] EXCEPT !.deposited = @ - a]
    <3>4. pools' = [pools EXCEPT ![p] = new]
      BY <1>0, <3>1
    <3>5. new \in LendingPool /\ new.deposited - new.borrowed >= 0
      BY <2>2, <3>1, PoolCovered DEF LendingPool
    <3> HIDE DEF new
    <3>2. pools' \in [Pools -> LendingPool] /\ NeverOverlent'
      BY <3>4, <3>5, PoolChanged
    <3>6. deposits[p] \in [Users -> Nat] /\ deposits[p][u] - a \in Nat
      BY <1>0, <2>2, <3>1, SMTT(40)
    <3>7. [deposits[p] EXCEPT ![u] = @ - a] \in [Users -> Nat]
      BY <3>6
    <3>3. deposits' \in [Pools -> [Users -> Nat]]
      BY <1>0, <3>1, <3>7
    <3> QED
      BY <1>0, <1>b, <1>c, <2>1, <3>2, <3>3, LendingKeeps DEF StepSound
  <2> QED
    BY <1>6, <2>3, <2>4
<1>7. ASSUME NEW u \in Users, NEW p \in Pools, NEW t \in Tokens, NEW a \in Amounts,
             NEW d \in LoanDays, NEW v \in Values, BorrowFromLendingPool(u, p, t, a, d, v)
      PROVE  StepSound
  <2> DEFINE rate == DynamicRate(pools[p])
             interest == ((a * rate) \div Bps) * d
             new == [ token |-> t, borrower |-> u, lender |-> p, amount |-> a,
                      rate |-> rate, repayment |-> a + interest, days |-> d,
                      due |-> now + d,
                      active |-> TRUE, repaid |-> FALSE, liquidated |-> FALSE ]
  <2>1. /\ a <= Liquidity(p) /\ pools[p].borrowed >= 0
        /\ pools' = [pools EXCEPT ![p].borrowed = @ + a]
        /\ Room /\ CreateLoan(new) /\ portfolio' = Counted(portfolio, u, "taken")
        /\ UNCHANGED <<nft, deposits, queue, bids>> /\ NoOtherChange
    BY <1>7 DEF BorrowFromLendingPool
  <2>2. a \in Nat /\ d \in Nat /\ pools[p] \in LendingPool
    BY <1>0
  <2>3. rate \in Nat
    <3>1. pools[p].deposited >= 0
      BY <2>1, PoolCovered
    <3> QED
      BY <2>1, <2>2, <3>1, RateTyped
  <2> HIDE DEF rate
  <2>4. interest \in Nat
    BY <2>2, <2>3, InterestTyped
  <2> HIDE DEF interest
  <2>5. new \in NFTLoan /\ ~new.repaid /\ ~new.liquidated
    BY <1>0, <2>2, <2>3, <2>4 DEF NFTLoan, Owners
  <2> HIDE DEF new
  <2>6. /\ loans' \in Seq(NFTLoan) /\ collateral' \in [Tokens -> Nat] /\ LoansSound'
        /\ \A i \in 1..Len(loans) : OutcomeKept(i)
    BY <2>1, <2>5, LoanCreated
  <2>7. pools' \in [Pools -> LendingPool] /\ NeverOverlent'
    <3> DEFINE pool == [pools[p] EXCEPT !.borrowed = @ + a]
    <3>1. pools' = [pools EXCEPT ![p] = pool]
      BY <1>0, <2>1
    <3>2. pool \in LendingPool /\ pool.deposited - pool.borrowed >= 0
      BY <2>1, <2>2, PoolCovered DEF LendingPool
    <3> HIDE DEF pool
    <3> QED
      BY <3>1, <3>2, PoolChanged
  <2>8. portfolio' \in [Users -> NFTPortfolio]
    BY <1>0, <2>1, CountersTyped
  <2> QED
    BY <1>0, <1>c, <2>1, <2>6, <2>7, <2>8, LendingKeeps DEF StepSound
<1>8. ASSUME NEW u \in Users, NEW i \in 1..Len(loans), NEW p \in Pools, NEW extra \in Extras,
             RepayLendingPoolLoan(u, p, i, extra)
      PROVE  StepSound
  <2> DEFINE l == loans[i]
  <2>1. /\ Running(l) /\ MarkRepaid(i)
        /\ pools' = [pools EXCEPT ![p].borrowed = @ - l.amount,
                                  ![p].deposited = @ + TotalDue(l) + extra - l.amount]
        /\ portfolio' = Settled(l)
        /\ UNCHANGED <<nft, collateral, deposits, queue, bids>> /\ NoOtherChange
    BY <1>8 DEF RepayLendingPoolLoan
  <2>2. l.amount \in Nat /\ TotalDue(l) \in Nat /\ extra \in Nat
    BY <1>d DEF NFTLoan
  <2>3. /\ loans' \in Seq(NFTLoan) /\ LoansSound'
        /\ \A j \in 1..Len(loans) : OutcomeKept(j)
    BY <2>1, LoanEnded
  <2>4. portfolio' \in [Users -> NFTPortfolio]
    BY <1>e, <2>1
  <2> HIDE DEF l
  <2>5. pools' \in [Pools -> LendingPool] /\ NeverOverlent'
    <3> DEFINE pool == [pools[p] EXCEPT !.borrowed = @ - l.amount,
                                        !.deposited = @ + TotalDue(l) + extra - l.amount]
    <3>1. pools' = [pools EXCEPT ![p] = pool]
      BY <1>0, <2>1
    <3>2. pool \in LendingPool /\ pool.deposited - pool.borrowed >= 0
      BY <2>2, PoolCovered, PoolRepaid
    <3> HIDE DEF pool
    <3> QED
      BY <3>1, <3>2, PoolChanged
  <2> QED
    BY <1>0, <1>c, <2>1, <2>3, <2>4, <2>5, LendingKeeps DEF StepSound
<1>9. ASSUME NEW u \in Users, NEW i \in 1..Len(loans), NEW v \in Values,
             LiquidateUndercollateralizedLoan(u, i, v)
      PROVE  StepSound
  <2> DEFINE l == loans[i]
  <2>1. /\ Running(l) /\ MarkLiquidated(i) /\ TransferOwnership(l.token, u)
        /\ pools' = IF l.lender \in Pools
                    THEN [pools EXCEPT ![l.lender].borrowed = @ - l.amount] ELSE pools
        /\ portfolio' = Discounted(portfolio, l.borrower, "taken")
        /\ UNCHANGED <<collateral, deposits, queue, bids>> /\ NoOtherChange
    BY <1>9 DEF LiquidateUndercollateralizedLoan, CanLiquidateLoan
  <2>2. l.amount \in Nat
    BY <1>d, SMTT(40) DEF NFTLoan
  <2>3. /\ loans' \in Seq(NFTLoan) /\ LoansSound'
        /\ \A j \in 1..Len(loans) : OutcomeKept(j)
    BY <2>1, LoanEnded
  <2>4. /\ nft' \in [Tokens -> NFT]
        /\ \A t \in Tokens : nft'[t].owner # nft[t].owner => HandsOver(t)
    BY <2>1, Foreclosed DEF Owners
  <2>5. portfolio' \in [Users -> NFTPortfolio]
    BY <1>0, <2>1, CountersTyped
  <2> HIDE DEF l
  <2>6. pools' \in [Pools -> LendingPool] /\ NeverOverlent'
    <3>1. CASE l.lender \notin Pools
      BY <1>a, <2>1, <3>1
    <3>2. CASE l.lender \in Pools
      <4> DEFINE pool == [pools[l.lender] EXCEPT !.borrowed = @ - l.amount]
      <4>1. pools' = [pools EXCEPT ![l.lender] = pool]
        BY <1>0, <2>1, <3>2
      <4>2. pool \in LendingPool /\ pool.deposited - pool.borrowed >= 0
        BY <2>2, <3>2, PoolCovered, PoolRepaid
      <4> HIDE DEF pool
      <4> QED
        BY <3>2, <4>1, <4>2, PoolChanged
    <3> QED
      BY <3>1, <3>2
  <2> QED
    BY <1>0, <2>1, <2>3, <2>4, <2>5, <2>6, LendingKeeps DEF StepSound
<1>10. ASSUME NEW u \in Users, NEW i \in 1..Len(loans), NEW b \in Bids, NEW v \in Values,
              PlaceLiquidationBid(u, i, b, v)
       PROVE  StepSound
  <2>1. /\ bids' = [bids EXCEPT ![i] = [ bidder |-> u, amount |-> b ]]
        /\ UNCHANGED <<nft, loans, collateral, portfolio, pools, deposits, queue>>
        /\ NoOtherChange
    BY <1>10 DEF PlaceLiquidationBid
  <2>2. bids' \in [1..MaxEntries -> Bid]
    <3>1. [ bidder |-> u, amount |-> b ] \in Bid
      BY DEF Bid
    <3> QED
      BY <1>0, <2>1, <3>1
  <2> QED
    BY <1>0, <1>a, <1>b, <1>c, <2>1, <2>2, LendingKeeps DEF StepSound
<1>11. ASSUME NEW i \in 1..Len(loans), NEW v \in Values, EnqueueLiquidation(i, v)
       PROVE  StepSound
  <2>1. /\ queue' = queue \/ queue' = Append(queue, i)
        /\ UNCHANGED <<nft, loans, collateral, portfolio, pools, deposits, bids>>
        /\ NoOtherChange
    BY <1>11 DEF EnqueueLiquidation
  <2>2. queue' \in Seq(Nat)
    <3>1. i \in Nat
      BY <1>z
    <3>2. Append(queue, i) \in Seq(Nat)
      BY <1>0, <3>1, Appended
    <3> QED
      BY <1>0, <2>1, <3>2
  <2> QED
    BY <1>0, <1>a, <1>b, <1>c, <2>1, <2>2, LendingKeeps DEF StepSound
<1>12. ASSUME NEW i \in 1..Len(loans), NEW v \in Values, ExecuteLiquidation(i, v),
              queue' \in Seq(Nat)
       PROVE  StepSound
  <2> DEFINE l == loans[i]
  <2>1. Running(l) /\ UNCHANGED <<collateral, pools, deposits>> /\ NoOtherChange
    BY <1>12 DEF ExecuteLiquidation, Undercollateralized
  <2>2. CASE PartialLiquidation(i)
    <3> DEFINE rest == TotalDue(l) - TotalDue(l) \div 2
               new == [l EXCEPT !.repayment = rest]
    <3>1. loans' = [loans EXCEPT ![i] = new] /\ UNCHANGED <<nft, portfolio, bids>>
      BY <1>0, <2>2 DEF PartialLiquidation
    <3>2. rest \in Nat /\ l \in NFTLoan
      BY <1>d, SMTT(40)
    <3> HIDE DEF rest
    <3>3. new \in NFTLoan /\ new.repaid = l.repaid /\ new.liquidated = l.liquidated
      BY <3>2 DEF NFTLoan
    <3> HIDE DEF new
    <3>4. ~(l.repaid /\ l.liquidated)
      BY <2>1 DEF Running
    <3>5. /\ loans' \in Seq(NFTLoan) /\ LoansSound'
          /\ \A j \in 1..Len(loans) : OutcomeKept(j)
      BY <3>1, <3>3, <3>4, LoanReplaced
    <3> QED
      BY <1>0, <1>12, <1>a, <1>c, <2>1, <3>1, <3>5, LendingKeeps DEF StepSound
  <2>3. CASE FullLiquidation(i)
    <3> DEFINE to == IF bids[i] # NoBid THEN bids[i].bidder ELSE l.lender
    <3>1. /\ TransferOwnership(l.token, to) /\ MarkLiquidated(i) /\ portfolio' = Settled(l)
          /\ bids' = [bids EXCEPT ![i] = NoBid]
      BY <2>3 DEF FullLiquidation
    <3>2. bids' \in [1..MaxEntries -> Bid]
      <4>1. NoBid \in Bid
        BY DEF Bid
      <4> QED
        BY <1>0, <3>1, <4>1
    <3>3. to \in Owners
      <4>1. l.lender \in Owners
        BY <1>d DEF NFTLoan
      <4>2. i \in 1..MaxEntries
        BY <1>0, <1>z DEF LoansSound
      <4>3. bids[i] \in Bid
        BY <1>0, <4>2
      <4> QED
        BY <4>1, <4>3 DEF Owners, Bid
    <3> HIDE DEF to
    <3>4. /\ loans' \in Seq(NFTLoan) /\ LoansSound'
          /\ \A j \in 1..Len(loans) : OutcomeKept(j)
      BY <2>1, <3>1, LoanEnded
    <3>5. /\ nft' \in [Tokens -> NFT]
          /\ \A t \in Tokens : nft'[t].owner # nft[t].owner => HandsOver(t)
      BY <2>1, <3>1, <3>3, Foreclosed
    <3> QED
      BY <1>0, <1>12, <1>a, <1>e, <2>1, <3>1, <3>2, <3>4, <3>5, LendingKeeps DEF StepSound
  <2> QED
    BY <1>12, <2>2, <2>3 DEF ExecuteLiquidation
<1>13. ASSUME NEW i \in 1..Len(loans), NEW v \in Values, ExecuteLiquidationNow(i, v)
       PROVE  StepSound
  BY <1>0, <1>12, <1>13 DEF ExecuteLiquidationNow
<1>14. ASSUME NEW v \in [Tokens -> Values], MonitorAndQueueLiquidations(v)
       PROVE  StepSound
  <2>1. PICK S \in SUBSET (1..Len(loans)) : \E added \in Ascending(S) :
          queue' = queue \o SubSeq(added, 1, IF Len(added) < MaxQueue THEN Len(added) ELSE MaxQueue)
    BY <1>14 DEF MonitorAndQueueLiquidations
  <2>2. /\ UNCHANGED <<nft, loans, collateral, portfolio, pools, deposits, bids>>
        /\ NoOtherChange
    BY <1>14 DEF MonitorAndQueueLiquidations
  <2>0. PICK added \in Ascending(S) :
          queue' = queue \o SubSeq(added, 1, IF Len(added) < MaxQueue THEN Len(added) ELSE MaxQueue)
    BY <2>1
  <2>3. Cardinality(S) \in Nat
    <3>1. IsFiniteSet(1..Len(loans))
      BY <1>z, FS_Interval
    <3> QED
      BY <3>1, FS_Subset, FS_CardinalityType
  <2>4. added \in Seq(Nat)
    <3> DEFINE n == Cardinality(S)
    <3>1. added \in [1..n -> S] /\ n \in Nat
      BY <2>0, <2>3 DEF Ascending
    <3>2. S \subseteq Nat
      BY <1>z
    <3> HIDE DEF n
    <3>3. added \in [1..n -> Nat]
      BY <3>1, <3>2
    <3> QED
      BY <3>1, <3>3, SeqDef
  <2>5. SubSeq(added, 1, IF Len(added) < MaxQueue THEN Len(added) ELSE MaxQueue) \in Seq(Nat)
    BY <2>4, SMTT(40)
  <2>6. queue' \in Seq(Nat)
    BY <1>0, <2>0, <2>5, SMTT(40)
  <2> QED
    BY <1>0, <1>a, <1>b, <1>c, <2>2, <2>6, LendingKeeps DEF StepSound
<1>15. ASSUME NEW v \in [Tokens -> Values], NEW n \in 1..Len(queue),
              ProcessLiquidationQueue(n, v)
       PROVE  StepSound
  <2> DEFINE i == queue[n]
  <2>1. /\ i \in 1..Len(loans) /\ ExecuteLiquidation(i, v[loans[i].token])
        /\ queue' = SubSeq(queue, 1, n - 1) \o SubSeq(queue, n + 1, Len(queue))
    BY <1>15 DEF ProcessLiquidationQueue
  <2>2. v[loans[i].token] \in Values
    BY <1>d, <2>1 DEF NFTLoan
  <2>3. queue' \in Seq(Nat)
    BY <1>0, <2>1, Removed
  <2> HIDE DEF i
  <2> QED
    BY <1>12, <2>1, <2>2, <2>3
<1> QED
  BY <1>1, <1>2, <1>3, <1>4, <1>5, <1>6, <1>7, <1>8, <1>9, <1>10, <1>11, <1>13, <1>14, <1>15
  DEF LendingNext

-----------------------------------------------------------------------------
\* Handlers of fractions have nothing to do with listings and loans.
LEMMA FractionalKeeps ==
  ASSUME IInv, NoFractionChange, UNCHANGED lendVars,
         nft' \in [Tokens -> NFT], shares' \in [Tokens -> [Users -> Nat]],
         vaults' \in Seq(FractionalVault),
         vaultShares' \in [1..MaxEntries -> [Users -> VaultShare]], VaultsSound'
  PROVE  IInv' /\ \A i \in 1..Len(loans) : OutcomeKept(i)
<1>1. TypeOK'
  BY DEF IInv, TypeOK, NoFractionChange, books, switches, lendVars
<1>2. NeverOverlent' /\ LoansSound' /\ \A i \in 1..Len(loans) : OutcomeKept(i)
  BY DEF IInv, NoFractionChange, lendVars, NeverOverlent, Liquidity, LoansSound, OutcomeKept
<1> QED
  BY <1>1, <1>2 DEF IInv

\* A token that changes and keeps its owner.
LEMMA TokenChanged ==
  ASSUME IInv, NEW t \in Tokens, NEW new \in NFT, nft' = [nft EXCEPT ![t] = new]
  PROVE  /\ nft' \in [Tokens -> NFT]
         /\ \A s \in Tokens : nft'[s].owner # nft[s].owner => s = t /\ new.owner # nft[t].owner
BY DEF IInv, TypeOK

\* One holding of a vault changes.
LEMMA HoldingChanged ==
  ASSUME IInv, NEW v \in 1..MaxEntries, NEW u \in Users, NEW new \in VaultShare,
         vaultShares' = [vaultShares EXCEPT ![v][u] = new]
  PROVE  /\ vaultShares' \in [1..MaxEntries -> [Users -> VaultShare]]
         /\ vaultShares[v][u].shares \in Nat /\ vaultShares[v][u].shares <= Supply(Held(v))
         /\ Supply(Held(v)') = Supply(Held(v)) + new.shares - vaultShares[v][u].shares
         /\ Supply(Held(v)) \in Nat
         /\ \A w \in 1..MaxEntries : w # v => Held(w)' = Held(w)
<1>1. vaultShares \in [1..MaxEntries -> [Users -> VaultShare]]
  BY DEF IInv, TypeOK
<1>2. vaultShares' \in [1..MaxEntries -> [Users -> VaultShare]]
  BY <1>1
<1>3. Held(v) \in [Users -> Nat] /\ Held(v)[u] = vaultShares[v][u].shares
  BY <1>1 DEF Held, VaultShare
<1>4. \A h \in Users : vaultShares'[v][h] = IF h = u THEN new ELSE vaultShares[v][h]
  BY <1>1
<1>5. Held(v)' = [Held(v) EXCEPT ![u] = new.shares]
  <2> DEFINE g == [Held(v) EXCEPT ![u] = new.shares]
  <2>1. Held(v)' = [h \in Users |-> vaultShares'[v][h].shares]
    BY DEF Held
  <2>2. \A h \in Users : vaultShares'[v][h].shares = g[h]
    BY <1>4 DEF Held
  <2>3. g = [h \in Users |-> g[h]]
    BY DEF Held
  <2> HIDE DEF g
  <2> QED
    BY <2>1, <2>2, <2>3 DEF g
<1>6. \A w \in 1..MaxEntries : w # v => vaultShares'[w] = vaultShares[w]
  BY <1>1
<1>7. \A w \in 1..MaxEntries : w # v => Held(w)' = Held(w)
  BY <1>6 DEF Held
<1>8. /\ Held(v)[u] <= Supply(Held(v)) /\ Supply(Held(v)) \in Nat
      /\ Supply(Held(v)') = Supply(Held(v)) + new.shares - Held(v)[u]
  <2> DEFINE f == Held(v)
             n == new.shares
  <2>1. f \in [Users -> Nat] /\ f[u] \in Nat /\ n \in Nat /\ IsFiniteSet(Users)
    BY <1>3, NftAssumption DEF VaultShare
  <2>2. Supply(Held(v)') = Supply([f EXCEPT ![u] = n])
    BY <1>5
  <2> HIDE DEF f, n
  <2>3. f[u] <= Supply(f) /\ Supply(f) \in Nat
    BY <2>1, BalanceAtMostSupply, SupplyType
  <2>4. Supply([f EXCEPT ![u] = n]) = Supply(f) + n - f[u]
    <3>1. CASE n >= f[u]
      <4> DEFINE k == n - f[u]
      <4>1. k \in Nat /\ n = f[u] + k
        BY <2>1, <3>1
      <4> HIDE DEF k
      <4>2. Supply([f EXCEPT ![u] = f[u] + k]) = Supply(f) + k
        BY <2>1, <4>1, SupplyCredit, ZenonT(60)
      <4> QED
        BY <2>1, <2>3, <4>1, <4>2
    <3>2. CASE n < f[u]
      <4> DEFINE k == f[u] - n
      <4>1. k \in Nat /\ k <= f[u] /\ n = f[u] - k
        BY <2>1, <3>2
      <4> HIDE DEF k
      <4>2. Supply([f EXCEPT ![u] = f[u] - k]) = Supply(f) - k
        BY <2>1, <4>1, SupplyDebit, ZenonT(60)
      <4> QED
        BY <2>1, <2>3, <4>1, <4>2
    <3> QED
      BY <2>1, <3>1, <3>2
  <2> QED
    BY <2>2, <2>3, <2>4 DEF f, n
<1> QED
  BY <1>2, <1>3, <1>7, <1>8

\* A vault and the holdings in it change alike.
LEMMA VaultChanged ==
  ASSUME IInv, NEW v \in 1..Len(vaults), NEW new \in FractionalVault,
         vaults' = [vaults EXCEPT ![v] = new],
         \A w \in 1..MaxEntries : w # v => Held(w)' = Held(w),
         Supply(Held(v)') = new.supply, new.supply <= new.total,
         new.active \/ new.supply = 0
  PROVE  vaults' \in Seq(FractionalVault) /\ VaultsSound'
<1>1. vaults \in Seq(FractionalVault) /\ VaultsSound
  BY DEF IInv, TypeOK
<1>2. /\ vaults' \in Seq(FractionalVault) /\ Len(vaults') = Len(vaults) /\ vaults'[v] = new
      /\ \A w \in 1..Len(vaults) : w # v => vaults'[w] = vaults[w]
  BY <1>1, Replaced
<1>3. \A w \in 1..Len(vaults) : w \in 1..MaxEntries
  BY <1>1, NftAssumption DEF VaultsSound
<1>4. ASSUME NEW w \in 1..Len(vaults)
      PROVE  Supply(Held(w)') = vaults'[w].supply /\ vaults'[w].supply <= vaults'[w].total
  <2>1. CASE w = v
    BY <1>2, <2>1
  <2>2. CASE w # v
    <3>1. Supply(Held(w)) = vaults[w].supply /\ vaults[w].supply <= vaults[w].total
      BY <1>1 DEF VaultsSound, VaultSharesIssued
    <3> QED
      BY <1>2, <1>3, <2>2, <3>1
  <2> QED
    BY <2>1, <2>2
<1>5. VaultSharesIssued'
  BY <1>2, <1>4 DEF VaultSharesIssued, Supply
<1>6. \A w \in 1..MaxEntries : w > Len(vaults) => w # v
  BY <1>1
<1>7. \A w \in 1..Len(vaults) : vaults'[w].active \/ vaults'[w].supply = 0
  BY <1>1, <1>2 DEF VaultsSound
<1> QED
  BY <1>1, <1>2, <1>5, <1>6, <1>7 DEF VaultsSound

\* Shares held outside vaults move freely; the token keeps its owner.
LEMMA SharesStep ==
  ASSUME IInv, NEW t \in Tokens, NEW new \in NFT, nft' = [nft EXCEPT ![t] = new],
         new.owner = nft[t].owner, shares' \in [Tokens -> [Users -> Nat]],
         UNCHANGED <<vaults, vaultShares, lendVars>>, NoFractionChange
  PROVE  StepSound
<1>1. /\ nft' \in [Tokens -> NFT]
      /\ \A s \in Tokens : nft'[s].owner # nft[s].owner => HandsOver(s)
  BY TokenChanged
<1>2. /\ vaults' \in Seq(FractionalVault)
      /\ vaultShares' \in [1..MaxEntries -> [Users -> VaultShare]] /\ VaultsSound'
  BY VaultsKept DEF IInv, TypeOK
<1> QED
  BY <1>1, <1>2, FractionalKeeps DEF StepSound

LEMMA DivisionStep ==
  ASSUME IInv, UNCHANGED lendVars, NEW u \in Users, NEW t \in Tokens, NEW n \in Nat,
         \/ FractionalizeNft(u, t, n) \/ BuyFractionalShares(u, t, n)
         \/ SellFractionalShares(u, t, n)
         \/ \E to \in Users : TransferFractionalShares(u, to, t, n)
         \/ DefractionalizeNft(u, t)
  PROVE  StepSound
<1>0. /\ nft \in [Tokens -> NFT] /\ shares \in [Tokens -> [Users -> Nat]]
      /\ nft[t] \in NFT /\ nft[t].circulating \in Nat /\ nft[t].total \in Nat
      /\ shares[t] \in [Users -> Nat] /\ shares[t][u] \in Nat
  BY SMTT(40) DEF IInv, TypeOK, NFT
<1>1. CASE FractionalizeNft(u, t, n)
  <2> DEFINE new == [nft[t] EXCEPT !.fractional = TRUE, !.total = n, !.circulating = 0]
  <2>1. new \in NFT /\ new.owner = nft[t].owner
    BY <1>0 DEF NFT
  <2>2. /\ nft' = [nft EXCEPT ![t] = new] /\ shares' = [shares EXCEPT ![t][u] = n]
        /\ UNCHANGED <<vaults, vaultShares>> /\ NoFractionChange
    BY <1>0, <1>1 DEF FractionalizeNft
  <2> HIDE DEF new
  <2>3. shares' \in [Tokens -> [Users -> Nat]]
    BY <1>0, <2>2
  <2> QED
    BY <2>1, <2>2, <2>3, SharesStep
<1>2. CASE BuyFractionalShares(u, t, n)
  <2> DEFINE new == [nft[t] EXCEPT !.circulating = nft[t].circulating + n]
  <2>1. new \in NFT /\ new.owner = nft[t].owner
    BY <1>0 DEF NFT
  <2>2. /\ nft' = [nft EXCEPT ![t] = new] /\ shares' = [shares EXCEPT ![t][u] = @ + n]
        /\ UNCHANGED <<vaults, vaultShares>> /\ NoFractionChange
    BY <1>0, <1>2 DEF BuyFractionalShares
  <2> HIDE DEF new
  <2>3. shares' \in [Tokens -> [Users -> Nat]]
    BY <1>0, <2>2
  <2> QED
    BY <2>1, <2>2, <2>3, SharesStep
<1>3. CASE SellFractionalShares(u, t, n)
  <2> DEFINE rest == IF nft[t].circulating < n THEN 0 ELSE nft[t].circulating - n
             new == [nft[t] EXCEPT !.circulating = rest]
  <2>1. new \in NFT /\ new.owner = nft[t].owner
    BY <1>0 DEF NFT
  <2>2. /\ nft' = [nft EXCEPT ![t] = new] /\ shares' = [shares EXCEPT ![t][u] = @ - n]
        /\ shares[t][u] >= n
        /\ UNCHANGED <<vaults, vaultShares>> /\ NoFractionChange
    BY <1>0, <1>3 DEF SellFractionalShares
  <2> HIDE DEF new
  <2>3. shares' \in [Tokens -> [Users -> Nat]]
    BY <1>0, <2>2
  <2> QED
    BY <2>1, <2>2, <2>3, SharesStep
<1>4. ASSUME NEW to \in Users, TransferFractionalShares(u, to, t, n)
      PROVE  StepSound
  <2>1. /\ UNCHANGED <<nft, vaults, vaultShares>> /\ NoFractionChange
        /\ shares[t][u] >= n /\ u # to
        /\ shares' = [shares EXCEPT ![t][u] = @ - n, ![t][to] = @ + n]
    BY <1>4 DEF TransferFractionalShares
  <2>2. nft' = [nft EXCEPT ![t] = nft[t]]
    BY <1>0, <2>1
  <2>3. shares' \in [Tokens -> [Users -> Nat]]
    <3>1. shares[t][to] + n \in Nat /\ shares[t][u] - n \in Nat
      BY <1>0, <2>1
    <3> QED
      BY <1>0, <2>1, <3>1
  <2> QED
    BY <1>0, <2>1, <2>2, <2>3, SharesStep
<1>5. CASE DefractionalizeNft(u, t)
  <2> DEFINE new == [nft[t] EXCEPT !.fractional = FALSE, !.total = 1, !.circulating = 1]
  <2>1. new \in NFT /\ new.owner = nft[t].owner
    BY <1>0 DEF NFT
  <2>2. /\ nft' = [nft EXCEPT ![t] = new]
        /\ shares' = [shares EXCEPT ![t] = [h \in Users |-> 0]]
        /\ UNCHANGED <<vaults, vaultShares>> /\ NoFractionChange
    BY <1>0, <1>5 DEF DefractionalizeNft
  <2> HIDE DEF new
  <2>3. shares' \in [Tokens -> [Users -> Nat]]
    BY <1>0, <2>2
  <2> QED
    BY <2>1, <2>2, <2>3, SharesStep
<1> QED
  BY <1>1, <1>2, <1>3, <1>4, <1>5

\* A vault is opened: its shares are the first that anybody holds in it.
LEMMA VaultCreated ==
  ASSUME IInv, UNCHANGED lendVars, NEW u \in Users, NEW t \in Tokens, NEW n \in Nat,
         CreateFractionalVault(u, t, n)
  PROVE  StepSound
<1>v. PICK v : v = Len(vaults) + 1
  OBVIOUS
<1>s. PICK share : share = [ shares |-> n, since |-> now ]
  OBVIOUS
<1> DEFINE vault == [ token |-> t, owner |-> u, total |-> n, supply |-> n, active |-> TRUE ]
           new == [nft[t] EXCEPT !.fractional = TRUE, !.total = n, !.circulating = n]
<1>0. /\ nft \in [Tokens -> NFT] /\ nft[t] \in NFT /\ vaults \in Seq(FractionalVault)
      /\ now \in Nat /\ VaultsSound /\ IsFiniteSet(Users)
  BY NftAssumption DEF IInv, TypeOK
<1>1. /\ nft' = [nft EXCEPT ![t] = new] /\ vaults' = Append(vaults, vault)
      /\ vaultShares' = [vaultShares EXCEPT ![v][u] = share] /\ Room
      /\ UNCHANGED shares /\ NoFractionChange
  BY <1>0, <1>v, <1>s DEF CreateFractionalVault
<1>2. new \in NFT /\ new.owner = nft[t].owner
  BY <1>0 DEF NFT
<1>3. vault \in FractionalVault /\ vault.supply = n /\ vault.total = n /\ vault.active
  BY DEF FractionalVault
<1>4. share \in VaultShare /\ share.shares = n
  BY <1>0, <1>s DEF VaultShare
<1>5. v \in 1..MaxEntries /\ v > Len(vaults) /\ Len(vaults) \in Nat
  <2>1. Cardinality(Divided) \in Nat
    BY NftAssumption, FS_Subset, FS_CardinalityType DEF Divided
  <2>2. /\ Len(listings) \in Nat /\ Len(offers) \in Nat /\ Len(vaults) \in Nat
        /\ Len(loans) \in Nat
    BY DEF IInv, TypeOK
  <2> QED
    BY <1>1, <1>v, <2>1, <2>2, NftAssumption, SMTT(40) DEF Room
<1> HIDE DEF vault, new
<1>6. /\ vaults' \in Seq(FractionalVault) /\ Len(vaults') = v /\ vaults'[v] = vault
      /\ \A w \in 1..Len(vaults) : vaults'[w] = vaults[w]
  BY <1>0, <1>1, <1>3, <1>v, Appended
<1>7. /\ vaultShares' \in [1..MaxEntries -> [Users -> VaultShare]]
      /\ \A w \in 1..MaxEntries : w # v => Held(w)' = Held(w)
  BY <1>1, <1>4, <1>5, HoldingChanged
<1>8. Supply(Held(v)') = n
  <2>1. Held(v) = [h \in Users |-> 0]
    BY <1>0, <1>5 DEF VaultsSound
  <2>2. Supply(Held(v)) = 0
    BY <2>1, SupplyZero
  <2>3. /\ vaultShares[v][u].shares \in Nat /\ vaultShares[v][u].shares <= Supply(Held(v))
        /\ Supply(Held(v)') = Supply(Held(v)) + n - vaultShares[v][u].shares
    BY <1>1, <1>4, <1>5, HoldingChanged
  <2> QED
    BY <2>2, <2>3
<1>9. VaultsSound'
  <2>1. \A w \in 1..Len(vaults') : w = v \/ w \in 1..Len(vaults)
    BY <1>5, <1>6, <1>v
  <2>2. \A w \in 1..Len(vaults) : w \in 1..MaxEntries /\ w # v
    BY <1>5, <1>v, NftAssumption
  <2>3. ASSUME NEW w \in 1..Len(vaults')
        PROVE  Supply(Held(w)') = vaults'[w].supply /\ vaults'[w].supply <= vaults'[w].total
    <3>1. CASE w = v
      <4>1. Supply(Held(v)') = vaults'[v].supply /\ vaults'[v].supply <= vaults'[v].total
        BY <1>3, <1>6, <1>8
      <4> QED
        BY <3>1, <4>1
    <3>2. CASE w \in 1..Len(vaults)
      <4>1. Supply(Held(w)) = vaults[w].supply /\ vaults[w].supply <= vaults[w].total
        BY <1>0, <3>2 DEF VaultsSound, VaultSharesIssued
      <4> QED
        BY <1>6, <1>7, <2>2, <3>2, <4>1
    <3> QED
      BY <2>1, <3>1, <3>2
  <2>4. VaultSharesIssued'
    BY <2>3 DEF VaultSharesIssued, Supply
  <2>5. \A w \in 1..Len(vaults') : vaults'[w].active \/ vaults'[w].supply = 0
    BY <1>0, <1>3, <1>6, <2>1 DEF VaultsSound
  <2>6. \A w \in 1..MaxEntries : w > Len(vaults') => w # v /\ w > Len(vaults)
    BY <1>5, <1>6, <1>v
  <2>7. \A w \in 1..MaxEntries : w > Len(vaults') => Held(w)' = [h \in Users |-> 0]
    BY <1>0, <1>7, <2>6 DEF VaultsSound
  <2>8. Len(vaults') <= MaxEntries
    BY <1>5, <1>6
  <2> QED
    BY <2>4, <2>5, <2>7, <2>8 DEF VaultsSound
<1>10. /\ nft' \in [Tokens -> NFT]
       /\ \A s \in Tokens : nft'[s].owner # nft[s].owner => HandsOver(s)
  BY <1>1, <1>2, TokenChanged
<1>11. shares' \in [Tokens -> [Users -> Nat]]
  BY <1>1 DEF IInv, TypeOK
<1> QED
  BY <1>1, <1>6, <1>7, <1>9, <1>10, <1>11, FractionalKeeps DEF StepSound

\* A vault is one of those that shares are kept for.
LEMMA VaultTyped ==
  ASSUME IInv, NEW v \in 1..Len(vaults)
  PROVE  /\ vaults[v] \in FractionalVault /\ vaults[v].supply \in Nat
         /\ vaults[v].total \in Nat /\ vaults[v].token \in Tokens /\ v \in 1..MaxEntries
<1>1. vaults \in Seq(FractionalVault) /\ Len(vaults) <= MaxEntries
  BY DEF IInv, TypeOK, VaultsSound
<1>2. Len(vaults) \in Nat /\ MaxEntries \in Nat
  BY <1>1, NftAssumption
<1>3. vaults[v] \in FractionalVault
  BY <1>1
<1>4. v \in 1..MaxEntries
  BY <1>1, <1>2
<1> QED
  BY <1>3, <1>4 DEF FractionalVault

\* A vault that issues another number of shares, and one that closes.
LEMMA VaultSet ==
  ASSUME NEW old \in FractionalVault, NEW n \in Nat
  PROVE  LET open == [old EXCEPT !.supply = n, !.active = TRUE]
             closed == [old EXCEPT !.supply = n, !.active = FALSE]
         IN  /\ open \in FractionalVault /\ open.supply = n /\ open.total = old.total
             /\ closed \in FractionalVault /\ closed.supply = n /\ closed.total = old.total
             /\ open.active /\ ~closed.active
             /\ old.active => [old EXCEPT !.supply = n] = open
<1>1. /\ [old EXCEPT !.supply = n, !.active = TRUE] \in FractionalVault
      /\ [old EXCEPT !.supply = n, !.active = TRUE].supply = n
      /\ [old EXCEPT !.supply = n, !.active = TRUE].total = old.total
      /\ [old EXCEPT !.supply = n, !.active = TRUE].active
  BY DEF FractionalVault
<1>2. /\ [old EXCEPT !.supply = n, !.active = FALSE] \in FractionalVault
      /\ [old EXCEPT !.supply = n, !.active = FALSE].supply = n
      /\ [old EXCEPT !.supply = n, !.active = FALSE].total = old.total
      /\ ~[old EXCEPT !.supply = n, !.active = FALSE].active
  BY DEF FractionalVault
<1>3. old.active => [old EXCEPT !.supply = n] = [old EXCEPT !.supply = n, !.active = TRUE]
  BY DEF FractionalVault
<1> QED
  BY <1>1, <1>2, <1>3

\* What was burned is minted again.
LEMMA SharesMinted ==
  ASSUME IInv, UNCHANGED lendVars, NEW u \in Users, NEW v \in 1..Len(vaults), NEW n \in Nat,
         MintVaultShares(u, v, n)
  PROVE  StepSound
<1> DEFINE t == vaults[v].token
           more == [nft[t] EXCEPT !.circulating = nft[t].circulating + n]
           vault == [vaults[v] EXCEPT !.supply = vaults[v].supply + n]
<1>0. /\ nft \in [Tokens -> NFT] /\ vaults \in Seq(FractionalVault) /\ now \in Nat
      /\ vaultShares \in [1..MaxEntries -> [Users -> VaultShare]] /\ VaultsSound
  BY DEF IInv, TypeOK
<1>1. /\ vaults[v] \in FractionalVault /\ vaults[v].supply \in Nat /\ vaults[v].total \in Nat
      /\ t \in Tokens /\ v \in 1..MaxEntries
  BY VaultTyped
<1>2. nft[t] \in NFT /\ nft[t].circulating \in Nat
  BY <1>0, <1>1 DEF NFT
<1>3. vaultShares[v][u] \in VaultShare /\ vaultShares[v][u].shares \in Nat
  BY <1>0, <1>1 DEF VaultShare
<1>s. PICK share : share = [ shares |-> vaultShares[v][u].shares + n, since |-> now ]
  OBVIOUS
<1>4. /\ vaults[v].active /\ vaults[v].supply + n <= vaults[v].total
      /\ vaults' = [vaults EXCEPT ![v] = vault]
      /\ vaultShares' = [vaultShares EXCEPT ![v][u] = share]
      /\ nft' = [nft EXCEPT ![t] = more]
      /\ UNCHANGED shares /\ NoFractionChange
  BY <1>0, <1>1, <1>s DEF MintVaultShares
<1>5. share \in VaultShare /\ share.shares = vaultShares[v][u].shares + n
  BY <1>0, <1>3, <1>s DEF VaultShare
<1>6. more \in NFT /\ more.owner = nft[t].owner
  BY <1>2, SMTT(40) DEF NFT
<1>7. /\ vault \in FractionalVault /\ vault.supply = vaults[v].supply + n
      /\ vault.total = vaults[v].total /\ vault.active
  <2>1. vaults[v].supply + n \in Nat
    BY <1>1
  <2> DEFINE supply == vaults[v].supply + n
  <2>2. vault = [vaults[v] EXCEPT !.supply = supply, !.active = TRUE]
    BY <1>1, <1>4 DEF FractionalVault
  <2> HIDE DEF vault, supply
  <2> QED
    BY <1>1, <2>1, <2>2, VaultSet, ZenonT(60) DEF supply
<1> HIDE DEF t, more, vault
<1>8. /\ vaultShares' \in [1..MaxEntries -> [Users -> VaultShare]]
      /\ Supply(Held(v)') = vault.supply
      /\ \A w \in 1..MaxEntries : w # v => Held(w)' = Held(w)
  <2>1. /\ vaultShares' \in [1..MaxEntries -> [Users -> VaultShare]]
        /\ Supply(Held(v)') = Supply(Held(v)) + share.shares - vaultShares[v][u].shares
        /\ Supply(Held(v)) \in Nat
        /\ \A w \in 1..MaxEntries : w # v => Held(w)' = Held(w)
    BY <1>1, <1>4, <1>5, HoldingChanged
  <2>2. Supply(Held(v)) = vaults[v].supply
    BY <1>0 DEF VaultsSound, VaultSharesIssued
  <2> QED
    BY <1>3, <1>5, <1>7, <2>1, <2>2, SMTT(40)
<1>9. vaults' \in Seq(FractionalVault) /\ VaultsSound'
  BY <1>4, <1>7, <1>8, VaultChanged
<1>10. /\ nft' \in [Tokens -> NFT]
       /\ \A s \in Tokens : nft'[s].owner # nft[s].owner => HandsOver(s)
  BY <1>1, <1>4, <1>6, TokenChanged
<1>11. shares' \in [Tokens -> [Users -> Nat]]
  BY <1>4 DEF IInv, TypeOK
<1> QED
  BY <1>4, <1>8, <1>9, <1>10, <1>11, FractionalKeeps DEF StepSound

\* Shares are burned.  The last share closes the vault, if its creator has it, and
\* then the vault was open until now.
LEMMA SharesBurned ==
  ASSUME IInv, UNCHANGED lendVars, NEW u \in Users, NEW v \in 1..Len(vaults),
         NEW n \in Nat \ {0}, WithdrawVaultShares(u, v, n)
  PROVE  StepSound
<1> DEFINE t == vaults[v].token
           closing == ClosedVault(u, v, n)
           net == n - (n * WithdrawalFee) \div Bps
           circulating == IF closing THEN 1 ELSE nft[t].circulating
           rest == [ owner |-> IF closing THEN u ELSE nft[t].owner,
                     fractional |-> nft[t].fractional /\ ~closing,
                     total |-> IF closing THEN 1 ELSE nft[t].total,
                     circulating |-> circulating - net ]
           vault == [vaults[v] EXCEPT !.supply = vaults[v].supply - n,
                                      !.active = vaults[v].active /\ ~closing]
<1>0. /\ nft \in [Tokens -> NFT] /\ vaults \in Seq(FractionalVault) /\ now \in Nat
      /\ vaultShares \in [1..MaxEntries -> [Users -> VaultShare]] /\ VaultsSound
  BY DEF IInv, TypeOK
<1>1. /\ vaults[v] \in FractionalVault /\ vaults[v].supply \in Nat /\ vaults[v].total \in Nat
      /\ t \in Tokens /\ v \in 1..MaxEntries
  BY VaultTyped
<1>2. /\ nft[t] \in NFT /\ nft[t].circulating \in Nat /\ nft[t].total \in Nat
      /\ nft[t].owner \in Owners
  BY <1>0, <1>1 DEF NFT
<1>3. vaultShares[v][u] \in VaultShare /\ vaultShares[v][u].shares \in Nat
  BY <1>0, <1>1 DEF VaultShare
<1>s. PICK share : share = [vaultShares[v][u] EXCEPT !.shares = vaultShares[v][u].shares - n]
  OBVIOUS
<1>4. /\ vaultShares[v][u].shares >= n /\ net <= circulating
      /\ vaults' = [vaults EXCEPT ![v] = vault]
      /\ vaultShares' = [vaultShares EXCEPT ![v][u] = share]
      /\ nft' = [nft EXCEPT ![t] = rest]
      /\ UNCHANGED shares /\ NoFractionChange
  BY <1>0, <1>1, <1>s DEF WithdrawVaultShares
<1>5. share \in VaultShare /\ share.shares = vaultShares[v][u].shares - n
  BY <1>3, <1>4, <1>s, SMTT(40) DEF VaultShare
<1>6. /\ vaultShares' \in [1..MaxEntries -> [Users -> VaultShare]]
      /\ Supply(Held(v)') = vaults[v].supply - n /\ n <= vaults[v].supply
      /\ \A w \in 1..MaxEntries : w # v => Held(w)' = Held(w)
  <2>1. /\ vaultShares' \in [1..MaxEntries -> [Users -> VaultShare]]
        /\ vaultShares[v][u].shares <= Supply(Held(v))
        /\ Supply(Held(v)') = Supply(Held(v)) + share.shares - vaultShares[v][u].shares
        /\ Supply(Held(v)) \in Nat
        /\ \A w \in 1..MaxEntries : w # v => Held(w)' = Held(w)
    BY <1>1, <1>4, <1>5, HoldingChanged
  <2>2. Supply(Held(v)) = vaults[v].supply
    BY <1>0 DEF VaultsSound, VaultSharesIssued
  <2> QED
    BY <1>3, <1>4, <1>5, <2>1, <2>2
<1>7. vaults[v].active /\ vaults[v].supply <= vaults[v].total
  BY <1>0, <1>1, <1>6 DEF VaultsSound, VaultSharesIssued
<1>8. closing => vaults[v].supply = n
  BY DEF ClosedVault
<1> HIDE DEF closing
<1>9. /\ vault \in FractionalVault /\ vault.supply = vaults[v].supply - n
      /\ vault.total = vaults[v].total /\ (closing => ~vault.active)
      /\ (~closing => vault.active)
  <2> DEFINE supply == vaults[v].supply - n
  <2>1. supply \in Nat
    BY <1>1, <1>6, SMTT(40)
  <2>2. CASE closing
    <3>1. vault = [vaults[v] EXCEPT !.supply = supply, !.active = FALSE]
      BY <2>2
    <3> HIDE DEF vault, supply
    <3> QED
      BY <1>1, <2>1, <2>2, <3>1, VaultSet, ZenonT(60) DEF supply
  <2>3. CASE ~closing
    <3>1. vault = [vaults[v] EXCEPT !.supply = supply, !.active = TRUE]
      BY <1>7, <2>3
    <3> HIDE DEF vault, supply
    <3> QED
      BY <1>1, <2>1, <2>3, <3>1, VaultSet, ZenonT(60) DEF supply
  <2> QED
    BY <2>2, <2>3
<1>10. rest \in NFT /\ (~closing => rest.owner = nft[t].owner)
  <2>1. net \in Int
    <3>1. Bps \in Nat /\ Bps > 0 /\ WithdrawalFee \in Nat
      BY NftAssumption, FractionalAssumption
    <3>2. n * WithdrawalFee \in Nat
      BY <3>1
    <3>3. (n * WithdrawalFee) \div Bps \in Nat
      BY <3>1, <3>2
    <3> QED
      BY <3>3
  <2> HIDE DEF net
  <2>2. circulating - net \in Nat
    BY <1>2, <1>4, <2>1, SMTT(40)
  <2> HIDE DEF circulating
  <2>3. CASE closing
    <3>1. rest = [ owner |-> u, fractional |-> FALSE, total |-> 1,
                   circulating |-> circulating - net ]
      BY <2>3
    <3> QED
      BY <2>2, <2>3, <3>1 DEF NFT, Owners
  <2>4. CASE ~closing
    <3>1. rest = [ owner |-> nft[t].owner, fractional |-> nft[t].fractional,
                   total |-> nft[t].total, circulating |-> circulating - net ]
      BY <1>2, <2>4 DEF NFT
    <3>2. nft[t].fractional \in BOOLEAN
      BY <1>2, Zenon DEF NFT
    <3>3. rest \in NFT
      BY <1>2, <2>2, <3>1, <3>2, Zenon DEF NFT
    <3>4. rest.owner = nft[t].owner
      BY <3>1
    <3> QED
      BY <3>3, <3>4
  <2> QED
    BY <2>3, <2>4
<1> HIDE DEF t, rest, vault, net, circulating
<1>11. vaults' \in Seq(FractionalVault) /\ VaultsSound'
  <2>1. vault.active \/ vault.supply = 0
    <3>1. CASE closing
      BY <1>1, <1>8, <1>9, <3>1
    <3>2. CASE ~closing
      BY <1>9, <3>2
    <3> QED
      BY <3>1, <3>2
  <2>2. Supply(Held(v)') = vault.supply /\ vault.supply <= vault.total
    BY <1>1, <1>6, <1>7, <1>9
  <2> QED
    BY <1>4, <1>6, <1>9, <2>1, <2>2, VaultChanged
<1>12. /\ nft' \in [Tokens -> NFT]
       /\ \A s \in Tokens : nft'[s].owner # nft[s].owner => s = t /\ closing
  BY <1>1, <1>4, <1>10, TokenChanged
<1>13. vaults'[v] = vault
  BY <1>0, <1>4, <1>9, Replaced
<1>14. ASSUME NEW s \in Tokens, nft'[s].owner # nft[s].owner PROVE HandsOver(s)
  BY <1>7, <1>9, <1>12, <1>13, <1>14 DEF HandsOver, t
<1>15. shares' \in [Tokens -> [Users -> Nat]]
  BY <1>4 DEF IInv, TypeOK
<1> QED
  BY <1>4, <1>6, <1>11, <1>12, <1>14, <1>15, FractionalKeeps DEF StepSound

LEMMA FractionalStep ==
  ASSUME IInv, FractionalNext, UNCHANGED lendVars
  PROVE  StepSound
<1>1. ShareCounts \subseteq Nat /\ ShareAmounts \subseteq Nat \ {0}
  BY FractionalAssumption DEF ShareAmounts
<1> QED
  BY <1>1, DivisionStep, VaultCreated, SharesMinted, SharesBurned DEF FractionalNext

\* The switches and the clock.
LEMMA StorageStep ==
  ASSUME IInv, StorageNext, UNCHANGED <<lendVars, vaultShares>>
  PROVE  StepSound
<1>1. /\ UNCHANGED <<nft, books, loans, vaults, shares, collateral, portfolio>>
      /\ paused' \in BOOLEAN /\ frozen' \in SUBSET Users /\ now' \in Nat
  <2>1. paused \in BOOLEAN /\ frozen \in SUBSET Users /\ now \in Nat
    BY DEF IInv, TypeOK
  <2>2. CASE SetMarketplacePaused
    BY <2>1, <2>2 DEF SetMarketplacePaused
  <2>3. ASSUME NEW u \in Users, FreezeUser(u) \/ UnfreezeUser(u)
        PROVE  /\ UNCHANGED <<nft, books, loans, vaults, shares, collateral, portfolio>>
               /\ paused' \in BOOLEAN /\ frozen' \in SUBSET Users /\ now' \in Nat
    BY <2>1, <2>3 DEF FreezeUser, UnfreezeUser
  <2>4. CASE Tick
    BY <2>1, <2>4 DEF Tick, switches
  <2> QED
    BY <2>2, <2>3, <2>4 DEF StorageNext
<1>2. TypeOK'
  BY <1>1 DEF IInv, TypeOK, books, lendVars
<1>3. NeverOverlent' /\ LoansSound' /\ VaultsSound'
  BY <1>1, VaultsKept DEF IInv, NeverOverlent, Liquidity, LoansSound, lendVars
<1>4. \A i \in 1..Len(loans) : OutcomeKept(i)
  BY <1>1 DEF IInv, LoansSound, OutcomeKept
<1> QED
  BY <1>1, <1>2, <1>3, <1>4 DEF IInv, StepSound

\* Every step, and every stutter, is sound.
LEMMA StepsSound == IInv /\ [Next]_vars => StepSound
<1> SUFFICES ASSUME IInv, [Next]_vars PROVE StepSound
  OBVIOUS
<1>1. CASE UNCHANGED vars
  <2>1. TypeOK' /\ NeverOverlent' /\ LoansSound' /\ VaultsSound'
    BY <1>1, VaultsKept
    DEF IInv, TypeOK, NeverOverlent, Liquidity, LoansSound, vars, lendVars
  <2>2. \A i \in 1..Len(loans) : OutcomeKept(i)
    BY <1>1 DEF vars, IInv, LoansSound, OutcomeKept
  <2> QED
    BY <1>1, <2>1, <2>2 DEF vars, IInv, StepSound
<1> QED
  BY <1>1, StorageStep, MarketStep, LendingStep, FractionalStep DEF Next

LEMMA Inductive == Spec => []IInv
<1>1. IInv /\ [Next]_vars => IInv'
  BY StepsSound DEF StepSound
<1> QED
  BY InitSound, <1>1, PTL DEF Spec

\* Whatever the loans, prices and shares are, every entry keeps its type: balances
\* and counters never go below zero where the code has unsigned numbers.
THEOREM TypeCorrect == Spec => []TypeOK
BY Inductive, PTL DEF IInv

\* No pool ever hands out more than it holds, however many pools there are and into
\* whichever of them loans are repaid.
THEOREM PoolsNotOverlent == Spec => []NeverOverlent
BY Inductive, PTL DEF IInv

\* The shares of every vault add up to those it counts as issued.
THEOREM VaultsAddUp == Spec => []VaultSharesIssued
BY Inductive, PTL DEF IInv, VaultsSound

\* A token changes hands by a sale, a liquidation or a vault that closes, and by
\* nothing else: a vault closes once.
THEOREM TokensAreHandedOver == Spec => HandedOver
<1>1. IInv /\ [Next]_vars =>
        [\A t \in Tokens : nft'[t].owner # nft[t].owner => HandsOver(t)]_vars
  BY StepsSound DEF StepSound
<1> QED
  BY Inductive, <1>1, PTL DEF Spec, HandedOver

\* A loan that was repaid or liquidated stays so, whoever funds it again.
THEOREM LoansEndOnce == Spec => LoanOutcomeFinal
<1>1. IInv /\ [Next]_vars => [\A i \in 1..Len(loans) : OutcomeKept(i)]_vars
  BY StepsSound DEF StepSound
<1> QED
  BY Inductive, <1>1, PTL DEF Spec, LoanOutcomeFinal

-----------------------------------------------------------------------------
(* The counters of the portfolios *)

\* The live entries that name a user in a field, and how many they are.
Naming(entries, field, u) == { i \in Live(entries) : entries[i][field] = u }
Number(entries, field, u) == Cardinality(Naming(entries, field, u))

\* What one entry adds to that.
One(e, field, u) == IF e.active /\ e[field] = u THEN 1 ELSE 0

LEMMA NumberTyped ==
  ASSUME NEW S, NEW s \in Seq(S), NEW field, NEW u
  PROVE  IsFiniteSet(Naming(s, field, u)) /\ Number(s, field, u) \in Nat
<1>1. Len(s) \in Nat
  OBVIOUS
<1>2. PICK T : T = 1..Len(s)
  OBVIOUS
<1>3. IsFiniteSet(T)
  BY <1>1, <1>2, FS_Interval
<1>4. Naming(s, field, u) \in SUBSET T
  BY <1>2 DEF Naming, Live
<1> QED
  BY <1>3, <1>4, FS_Subset, FS_CardinalityType DEF Number

\* A new entry counts if it is live and names the user.
LEMMA NumberAppended ==
  ASSUME NEW S, NEW s \in Seq(S), NEW e \in S, NEW field, NEW u
  PROVE  Number(Append(s, e), field, u) = Number(s, field, u) + One(e, field, u)
<1> DEFINE A == Naming(s, field, u)
           B == Naming(Append(s, e), field, u)
           n == Len(s) + 1
<1>1. /\ Len(s) \in Nat /\ Len(Append(s, e)) = n /\ Append(s, e)[n] = e
      /\ \A i \in 1..Len(s) : Append(s, e)[i] = s[i]
  BY Appended
<1>2. n \notin A
  BY <1>1 DEF Naming, Live
<1>3. \A i : i \in B <=> \/ i \in A
                         \/ i = n /\ e.active /\ e[field] = u
  BY <1>1 DEF Naming, Live
<1>4. IsFiniteSet(A) /\ Cardinality(A) \in Nat
  BY NumberTyped DEF Number
<1> HIDE DEF A, B, n
<1>5. CASE e.active /\ e[field] = u
  <2>1. B = A \cup {n}
    BY <1>3, <1>5
  <2>2. Cardinality(B) = Cardinality(A) + 1
    BY <1>2, <1>4, <2>1, FS_AddElement
  <2> QED
    BY <1>4, <1>5, <2>2 DEF Number, One, A, B
<1>6. CASE ~(e.active /\ e[field] = u)
  <2>1. B = A
    BY <1>3, <1>6
  <2> QED
    BY <1>4, <1>6, <2>1 DEF Number, One, A, B
<1> QED
  BY <1>5, <1>6

\* An entry that is replaced counts as what it becomes and no more as what it was.
LEMMA NumberReplaced ==
  ASSUME NEW S, NEW s \in Seq(S), NEW i \in 1..Len(s), NEW e \in S, NEW field, NEW u
  PROVE  Number([s EXCEPT ![i] = e], field, u) + One(s[i], field, u)
           = Number(s, field, u) + One(e, field, u)
<1> DEFINE new == [s EXCEPT ![i] = e]
           A == Naming(s, field, u)
           B == Naming(new, field, u)
           C == A \ {i}
<1>1. /\ new \in Seq(S) /\ Len(new) = Len(s) /\ new[i] = e
      /\ \A j \in 1..Len(s) : j # i => new[j] = s[j]
  BY Replaced
<1>2. IsFiniteSet(A) /\ IsFiniteSet(B) /\ IsFiniteSet(C)
  <2>1. IsFiniteSet(A) /\ IsFiniteSet(B)
    BY <1>1, NumberTyped
  <2>2. C \in SUBSET A
    OBVIOUS
  <2> HIDE DEF A, B, C
  <2> QED
    BY <2>1, <2>2, FS_Subset
<1>3. /\ i \in A <=> s[i].active /\ s[i][field] = u
      /\ i \in B <=> e.active /\ e[field] = u
      /\ \A j : j # i => (j \in A <=> j \in B)
  <2> HIDE DEF new
  <2> QED
    BY <1>1 DEF Naming, Live
<1>4. i \notin C /\ (i \in A => A = C \cup {i}) /\ (i \notin A => A = C)
      /\ (i \in B => B = C \cup {i}) /\ (i \notin B => B = C)
  <2> HIDE DEF A, B
  <2> QED
    BY <1>3
<1> HIDE DEF A, B, C, new
<1>5. Cardinality(C) \in Nat /\ Cardinality(C \cup {i}) = Cardinality(C) + 1
  BY <1>2, <1>4, FS_AddElement, FS_CardinalityType
<1>6. /\ Cardinality(A) = Cardinality(C) + One(s[i], field, u)
      /\ Cardinality(B) = Cardinality(C) + One(e, field, u)
      /\ One(s[i], field, u) \in Nat /\ One(e, field, u) \in Nat
  <2>1. /\ One(s[i], field, u) = IF i \in A THEN 1 ELSE 0
        /\ One(e, field, u) = IF i \in B THEN 1 ELSE 0
    BY <1>3, Zenon DEF One
  <2>2. Cardinality(A) = Cardinality(C) + IF i \in A THEN 1 ELSE 0
    <3>1. CASE i \in A
      BY <1>4, <1>5, <3>1
    <3>2. CASE i \notin A
      BY <1>4, <1>5, <3>2
    <3> QED
      BY <3>1, <3>2
  <2>3. Cardinality(B) = Cardinality(C) + IF i \in B THEN 1 ELSE 0
    <3>1. CASE i \in B
      BY <1>4, <1>5, <3>1
    <3>2. CASE i \notin B
      BY <1>4, <1>5, <3>2
    <3> QED
      BY <3>1, <3>2
  <2> QED
    BY <2>1, <2>2, <2>3
<1> QED
  BY <1>5, <1>6 DEF Number, A, B, new

\* A counter moves for one user and in one field.
LEMMA CounterMoves ==
  ASSUME NEW p \in [Users -> NFTPortfolio], NEW u,
         NEW field \in {"listings", "offers", "taken", "given"},
         NEW w \in Users, NEW g \in {"listings", "offers", "taken", "given"}
  PROVE  /\ p[w][g] \in Nat
         /\ Counted(p, u, field)[w][g] = IF w = u /\ g = field THEN p[w][g] + 1 ELSE p[w][g]
         /\ Discounted(p, u, field)[w][g] =
              IF w = u /\ g = field /\ p[w][g] # 0 THEN p[w][g] - 1 ELSE p[w][g]
<1>1. p[w][g] \in Nat
  BY DEF NFTPortfolio
<1>2. CASE u \notin Users
  BY <1>1, <1>2 DEF Counted, Discounted
<1>3. CASE u \in Users /\ w # u
  BY <1>1, <1>3 DEF Counted, Discounted
<1>4. CASE u \in Users /\ w = u
  <2>1. p[u] \in NFTPortfolio /\ field \in DOMAIN p[u] /\ g \in DOMAIN p[u]
    BY <1>4 DEF NFTPortfolio
  <2>2. /\ Counted(p, u, field)[u] = [p[u] EXCEPT ![field] = @ + 1]
        /\ Discounted(p, u, field)[u] = [p[u] EXCEPT ![field] = IF @ = 0 THEN 0 ELSE @ - 1]
    BY <1>4 DEF Counted, Discounted
  <2>3. [p[u] EXCEPT ![field] = @ + 1][g] = IF g = field THEN p[u][g] + 1 ELSE p[u][g]
    BY <2>1
  <2>4. [p[u] EXCEPT ![field] = IF @ = 0 THEN 0 ELSE @ - 1][g]
          = IF g = field THEN IF p[u][g] = 0 THEN 0 ELSE p[u][g] - 1 ELSE p[u][g]
    BY <2>1
  <2> QED
    BY <1>1, <1>4, <2>2, <2>3, <2>4
<1> QED
  BY <1>1, <1>2, <1>3, <1>4

\* What the counters are to agree with.
LEMMA CountersAre ==
  CountersAgree <=>
    \A w \in Users :
      /\ portfolio[w].listings = Number(listings, "seller", w)
      /\ portfolio[w].offers = Number(offers, "buyer", w)
      /\ portfolio[w].taken = Number(loans, "borrower", w)
      /\ portfolio[w].given >= Number(loans, "lender", w)
BY DEF CountersAgree, Number, Naming

\* What a handler does to one of the three lists, and the counters with it.
LEMMA ListingsMoved ==
  ASSUME IInv, CountersAgree, UNCHANGED <<offers, loans>>,
         \A w \in Users :
           /\ portfolio'[w].listings = Number(listings', "seller", w)
           /\ portfolio'[w].offers = portfolio[w].offers
           /\ portfolio'[w].taken = portfolio[w].taken
           /\ portfolio'[w].given = portfolio[w].given
  PROVE  CountersAgree'
<1>1. CountersAgree' <=>
        \A w \in Users :
          /\ portfolio'[w].listings = Number(listings', "seller", w)
          /\ portfolio'[w].offers = Number(offers', "buyer", w)
          /\ portfolio'[w].taken = Number(loans', "borrower", w)
          /\ portfolio'[w].given >= Number(loans', "lender", w)
  BY DEF CountersAgree, Number, Naming
<1> QED
  BY <1>1, CountersAre

LEMMA OffersMoved ==
  ASSUME IInv, CountersAgree, UNCHANGED <<listings, loans>>,
         \A w \in Users :
           /\ portfolio'[w].listings = portfolio[w].listings
           /\ portfolio'[w].offers = Number(offers', "buyer", w)
           /\ portfolio'[w].taken = portfolio[w].taken
           /\ portfolio'[w].given = portfolio[w].given
  PROVE  CountersAgree'
<1>1. CountersAgree' <=>
        \A w \in Users :
          /\ portfolio'[w].listings = Number(listings', "seller", w)
          /\ portfolio'[w].offers = Number(offers', "buyer", w)
          /\ portfolio'[w].taken = Number(loans', "borrower", w)
          /\ portfolio'[w].given >= Number(loans', "lender", w)
  BY DEF CountersAgree, Number, Naming
<1> QED
  BY <1>1, CountersAre

LEMMA LoansMoved ==
  ASSUME IInv, CountersAgree, UNCHANGED <<listings, offers>>,
         \A w \in Users :
           /\ portfolio'[w].listings = portfolio[w].listings
           /\ portfolio'[w].offers = portfolio[w].offers
           /\ portfolio'[w].taken = Number(loans', "borrower", w)
           /\ portfolio'[w].given >= Number(loans', "lender", w)
  PROVE  CountersAgree'
<1>1. CountersAgree' <=>
        \A w \in Users :
          /\ portfolio'[w].listings = Number(listings', "seller", w)
          /\ portfolio'[w].offers = Number(offers', "buyer", w)
          /\ portfolio'[w].taken = Number(loans', "borrower", w)
          /\ portfolio'[w].given >= Number(loans', "lender", w)
  BY DEF CountersAgree, Number, Naming
<1> QED
  BY <1>1, CountersAre

\* A new listing is counted for its seller.
LEMMA ListingCounted ==
  ASSUME IInv, CountersAgree, NEW new \in NFTListing, new.active,
         listings' = Append(listings, new), portfolio' = Counted(portfolio, new.seller, "listings"),
         UNCHANGED <<offers, loans>>
  PROVE  CountersAgree'
<1> SUFFICES ASSUME NEW w \in Users
             PROVE  /\ portfolio'[w].listings = Number(listings', "seller", w)
                    /\ portfolio'[w].offers = portfolio[w].offers
                    /\ portfolio'[w].taken = portfolio[w].taken
                    /\ portfolio'[w].given = portfolio[w].given
  BY ListingsMoved
<1>1. portfolio \in [Users -> NFTPortfolio] /\ listings \in Seq(NFTListing)
  BY DEF IInv, TypeOK
<1>2. \A g \in {"listings", "offers", "taken", "given"} :
        /\ portfolio[w][g] \in Nat
        /\ portfolio'[w][g] = IF w = new.seller /\ g = "listings"
                              THEN portfolio[w][g] + 1 ELSE portfolio[w][g]
  BY <1>1, CounterMoves
<1>3. Number(listings', "seller", w)
        = Number(listings, "seller", w) + IF new.seller = w THEN 1 ELSE 0
  <2>1. One(new, "seller", w) = IF new.seller = w THEN 1 ELSE 0
    BY DEF One
  <2> QED
    BY <1>1, <2>1, NumberAppended
<1>4. portfolio[w].listings = Number(listings, "seller", w)
  BY CountersAre
<1> QED
  BY <1>2, <1>3, <1>4

\* One that is closed no more.
LEMMA ListingDiscounted ==
  ASSUME IInv, CountersAgree, NEW i \in 1..Len(listings), DeactivateListing(i),
         portfolio' = Discounted(portfolio, listings[i].seller, "listings"),
         UNCHANGED <<offers, loans>>
  PROVE  CountersAgree'
<1> SUFFICES ASSUME NEW w \in Users
             PROVE  /\ portfolio'[w].listings = Number(listings', "seller", w)
                    /\ portfolio'[w].offers = portfolio[w].offers
                    /\ portfolio'[w].taken = portfolio[w].taken
                    /\ portfolio'[w].given = portfolio[w].given
  BY ListingsMoved
<1> DEFINE old == listings[i]
           new == [old EXCEPT !.active = FALSE]
<1>1. portfolio \in [Users -> NFTPortfolio] /\ listings \in Seq(NFTListing)
  BY DEF IInv, TypeOK
<1>2. \A g \in {"listings", "offers", "taken", "given"} :
        /\ portfolio[w][g] \in Nat
        /\ portfolio'[w][g] = IF w = old.seller /\ g = "listings" /\ portfolio[w][g] # 0
                              THEN portfolio[w][g] - 1 ELSE portfolio[w][g]
  BY <1>1, CounterMoves
<1>3. old \in NFTListing /\ old.active /\ new \in NFTListing /\ ~new.active
      /\ listings' = [listings EXCEPT ![i] = new]
  <2>1. old \in NFTListing
    BY <1>1
  <2>2. new \in NFTListing /\ ~new.active
    BY <2>1 DEF NFTListing
  <2> QED
    BY <2>1, <2>2 DEF DeactivateListing
<1>4. One(old, "seller", w) = (IF old.seller = w THEN 1 ELSE 0) /\ One(new, "seller", w) = 0
  BY <1>3 DEF One
<1> HIDE DEF new
<1>5. Number(listings', "seller", w) + One(old, "seller", w)
        = Number(listings, "seller", w) + One(new, "seller", w)
  <2>1. PICK e \in NFTListing : e = new
    BY <1>3
  <2>2. Number([listings EXCEPT ![i] = e], "seller", w) + One(listings[i], "seller", w)
          = Number(listings, "seller", w) + One(e, "seller", w)
    <3> HIDE DEF old
    <3> QED
      BY <1>1, NumberReplaced
  <2> QED
    BY <1>3, <2>1, <2>2
<1>6. Number(listings', "seller", w) \in Nat /\ Number(listings, "seller", w) \in Nat
  <2>1. listings' \in Seq(NFTListing)
    BY <1>1, <1>3, Replaced
  <2> QED
    BY <1>1, <2>1, NumberTyped
<1>7. portfolio[w].listings = Number(listings, "seller", w)
  BY CountersAre
<1> HIDE DEF old
<1> QED
  BY <1>2, <1>4, <1>5, <1>6, <1>7, SMTT(40)

LEMMA OfferCounted ==
  ASSUME IInv, CountersAgree, NEW new \in NFTOffer, new.active,
         offers' = Append(offers, new), portfolio' = Counted(portfolio, new.buyer, "offers"),
         UNCHANGED <<listings, loans>>
  PROVE  CountersAgree'
<1> SUFFICES ASSUME NEW w \in Users
             PROVE  /\ portfolio'[w].listings = portfolio[w].listings
                    /\ portfolio'[w].offers = Number(offers', "buyer", w)
                    /\ portfolio'[w].taken = portfolio[w].taken
                    /\ portfolio'[w].given = portfolio[w].given
  BY OffersMoved
<1>1. portfolio \in [Users -> NFTPortfolio] /\ offers \in Seq(NFTOffer)
  BY DEF IInv, TypeOK
<1>2. \A g \in {"listings", "offers", "taken", "given"} :
        /\ portfolio[w][g] \in Nat
        /\ portfolio'[w][g] = IF w = new.buyer /\ g = "offers"
                              THEN portfolio[w][g] + 1 ELSE portfolio[w][g]
  BY <1>1, CounterMoves
<1>3. Number(offers', "buyer", w)
        = Number(offers, "buyer", w) + IF new.buyer = w THEN 1 ELSE 0
  <2>1. One(new, "buyer", w) = IF new.buyer = w THEN 1 ELSE 0
    BY DEF One
  <2> QED
    BY <1>1, <2>1, NumberAppended
<1>4. portfolio[w].offers = Number(offers, "buyer", w)
  BY CountersAre
<1> QED
  BY <1>2, <1>3, <1>4

LEMMA OfferDiscounted ==
  ASSUME IInv, CountersAgree, NEW i \in 1..Len(offers), DeactivateOffer(i),
         portfolio' = Discounted(portfolio, offers[i].buyer, "offers"),
         UNCHANGED <<listings, loans>>
  PROVE  CountersAgree'
<1> SUFFICES ASSUME NEW w \in Users
             PROVE  /\ portfolio'[w].listings = portfolio[w].listings
                    /\ portfolio'[w].offers = Number(offers', "buyer", w)
                    /\ portfolio'[w].taken = portfolio[w].taken
                    /\ portfolio'[w].given = portfolio[w].given
  BY OffersMoved
<1> DEFINE old == offers[i]
           new == [old EXCEPT !.active = FALSE]
<1>1. portfolio \in [Users -> NFTPortfolio] /\ offers \in Seq(NFTOffer)
  BY DEF IInv, TypeOK
<1>2. \A g \in {"listings", "offers", "taken", "given"} :
        /\ portfolio[w][g] \in Nat
        /\ portfolio'[w][g] = IF w = old.buyer /\ g = "offers" /\ portfolio[w][g] # 0
                              THEN portfolio[w][g] - 1 ELSE portfolio[w][g]
  BY <1>1, CounterMoves
<1>3. old \in NFTOffer /\ old.active /\ new \in NFTOffer /\ ~new.active
      /\ offers' = [offers EXCEPT ![i] = new]
  <2>1. old \in NFTOffer
    BY <1>1
  <2>2. new \in NFTOffer /\ ~new.active
    BY <2>1 DEF NFTOffer
  <2> QED
    BY <2>1, <2>2 DEF DeactivateOffer
<1>4. One(old, "buyer", w) = (IF old.buyer = w THEN 1 ELSE 0) /\ One(new, "buyer", w) = 0
  BY <1>3 DEF One
<1> HIDE DEF new
<1>5. Number(offers', "buyer", w) + One(old, "buyer", w)
        = Number(offers, "buyer", w) + One(new, "buyer", w)
  <2>1. PICK e \in NFTOffer : e = new
    BY <1>3
  <2>2. Number([offers EXCEPT ![i] = e], "buyer", w) + One(offers[i], "buyer", w)
          = Number(offers, "buyer", w) + One(e, "buyer", w)
    <3> HIDE DEF old
    <3> QED
      BY <1>1, NumberReplaced
  <2> QED
    BY <1>3, <2>1, <2>2
<1>6. Number(offers', "buyer", w) \in Nat /\ Number(offers, "buyer", w) \in Nat
  <2>1. offers' \in Seq(NFTOffer)
    BY <1>1, <1>3, Replaced
  <2> QED
    BY <1>1, <2>1, NumberTyped
<1>7. portfolio[w].offers = Number(offers, "buyer", w)
  BY CountersAre
<1> HIDE DEF old
<1> QED
  BY <1>2, <1>4, <1>5, <1>6, <1>7, SMTT(40)

\* A loan that is replaced, as it counts for its borrower and its lender.
LEMMA LoanNumbers ==
  ASSUME IInv, NEW i \in 1..Len(loans), NEW new \in NFTLoan,
         loans' = [loans EXCEPT ![i] = new], NEW w, NEW field
  PROVE  /\ Number(loans', field, w) + One(loans[i], field, w)
              = Number(loans, field, w) + One(new, field, w)
         /\ Number(loans', field, w) \in Nat /\ Number(loans, field, w) \in Nat
<1>1. loans \in Seq(NFTLoan)
  BY DEF IInv, TypeOK
<1>2. loans' \in Seq(NFTLoan)
  BY <1>1, Replaced
<1>3. \A s \in Seq(NFTLoan) : \A j \in 1..Len(s), e \in NFTLoan :
        Number([s EXCEPT ![j] = e], field, w) + One(s[j], field, w)
          = Number(s, field, w) + One(e, field, w)
  BY NumberReplaced
<1>4. Number([loans EXCEPT ![i] = new], field, w) + One(loans[i], field, w)
        = Number(loans, field, w) + One(new, field, w)
  BY <1>1, <1>3
<1>5. Number(loans', field, w) \in Nat /\ Number(loans, field, w) \in Nat
  BY <1>1, <1>2, NumberTyped
<1> QED
  BY <1>4, <1>5

\* A request counts for nobody yet.
LEMMA RequestUncounted ==
  ASSUME IInv, CountersAgree, NEW new \in NFTLoan, ~new.active,
         loans' = Append(loans, new), UNCHANGED <<listings, offers, portfolio>>
  PROVE  CountersAgree'
<1>1. loans \in Seq(NFTLoan)
  BY DEF IInv, TypeOK
<1>2. \A w \in Users, field \in {"borrower", "lender"} :
        Number(loans', field, w) = Number(loans, field, w)
  <2> TAKE w \in Users, field \in {"borrower", "lender"}
  <2>1. One(new, field, w) = 0
    BY DEF One
  <2> QED
    BY <1>1, <2>1, NumberAppended, NumberTyped
<1> QED
  BY <1>2, CountersAre, LoansMoved

\* A loan of a pool counts for its borrower.
LEMMA PoolLoanCounted ==
  ASSUME IInv, CountersAgree, NEW new \in NFTLoan, new.active, new.lender \in Pools,
         loans' = Append(loans, new), portfolio' = Counted(portfolio, new.borrower, "taken"),
         UNCHANGED <<listings, offers>>
  PROVE  CountersAgree'
<1> SUFFICES ASSUME NEW w \in Users
             PROVE  /\ portfolio'[w].listings = portfolio[w].listings
                    /\ portfolio'[w].offers = portfolio[w].offers
                    /\ portfolio'[w].taken = Number(loans', "borrower", w)
                    /\ portfolio'[w].given >= Number(loans', "lender", w)
  BY LoansMoved
<1>1. portfolio \in [Users -> NFTPortfolio] /\ loans \in Seq(NFTLoan)
  BY DEF IInv, TypeOK
<1>2. \A g \in {"listings", "offers", "taken", "given"} :
        /\ portfolio[w][g] \in Nat
        /\ portfolio'[w][g] = IF w = new.borrower /\ g = "taken"
                              THEN portfolio[w][g] + 1 ELSE portfolio[w][g]
  BY <1>1, CounterMoves, SMTT(40)
<1>3. /\ One(new, "borrower", w) = IF new.borrower = w THEN 1 ELSE 0
      /\ One(new, "lender", w) = 0
  BY NftAssumption DEF One
<1>4. /\ Number(loans', "borrower", w)
           = Number(loans, "borrower", w) + IF new.borrower = w THEN 1 ELSE 0
      /\ Number(loans', "lender", w) = Number(loans, "lender", w)
  BY <1>1, <1>3, NumberAppended, NumberTyped
<1>5. /\ portfolio[w].taken = Number(loans, "borrower", w)
      /\ portfolio[w].given >= Number(loans, "lender", w)
  BY CountersAre
<1> QED
  BY <1>2, <1>4, <1>5

\* A loan that is funded counts for both sides.
LEMMA FundedCounted ==
  ASSUME IInv, CountersAgree, NEW i \in 1..Len(loans), ~loans[i].active,
         NEW new \in NFTLoan, new.active, new.borrower = loans[i].borrower,
         loans' = [loans EXCEPT ![i] = new],
         portfolio' = Counted(Counted(portfolio, new.borrower, "taken"), new.lender, "given"),
         UNCHANGED <<listings, offers>>
  PROVE  CountersAgree'
<1> SUFFICES ASSUME NEW w \in Users
             PROVE  /\ portfolio'[w].listings = portfolio[w].listings
                    /\ portfolio'[w].offers = portfolio[w].offers
                    /\ portfolio'[w].taken = Number(loans', "borrower", w)
                    /\ portfolio'[w].given >= Number(loans', "lender", w)
  BY LoansMoved
<1>1. PICK p \in [Users -> NFTPortfolio] : p = Counted(portfolio, new.borrower, "taken")
  <2>1. portfolio \in [Users -> NFTPortfolio]
    BY DEF IInv, TypeOK
  <2> QED
    BY <2>1, CountersTyped
<1>2. \A g \in {"listings", "offers", "taken", "given"} :
        /\ portfolio[w][g] \in Nat
        /\ p[w][g] = IF w = new.borrower /\ g = "taken"
                     THEN portfolio[w][g] + 1 ELSE portfolio[w][g]
  <2>1. portfolio \in [Users -> NFTPortfolio]
    BY DEF IInv, TypeOK
  <2> QED
    BY <1>1, <2>1, CounterMoves, SMTT(40)
<1>3. \A g \in {"listings", "offers", "taken", "given"} :
        portfolio'[w][g] = IF w = new.lender /\ g = "given" THEN p[w][g] + 1 ELSE p[w][g]
  BY <1>1, CounterMoves
<1>4. \A field \in {"borrower", "lender"} :
        /\ One(loans[i], field, w) = 0
        /\ One(new, field, w) = IF new[field] = w THEN 1 ELSE 0
  BY DEF One
<1>5. \A field \in {"borrower", "lender"} :
        /\ Number(loans', field, w) + One(loans[i], field, w)
             = Number(loans, field, w) + One(new, field, w)
        /\ Number(loans', field, w) \in Nat /\ Number(loans, field, w) \in Nat
  BY LoanNumbers
<1>6. /\ Number(loans', "borrower", w)
           = Number(loans, "borrower", w) + IF new.borrower = w THEN 1 ELSE 0
      /\ Number(loans', "lender", w)
           = Number(loans, "lender", w) + IF new.lender = w THEN 1 ELSE 0
      /\ Number(loans, "lender", w) \in Nat
  BY <1>4, <1>5
<1>7. /\ portfolio[w].taken = Number(loans, "borrower", w)
      /\ portfolio[w].given >= Number(loans, "lender", w)
  BY CountersAre
<1> QED
  BY <1>2, <1>3, <1>6, <1>7, SMTT(40)

\* A loan that ends counts no more for its borrower, and for its lender if he is told.
LEMMA EndedDiscounted ==
  ASSUME IInv, CountersAgree, NEW i \in 1..Len(loans), loans[i].active,
         NEW new \in NFTLoan, ~new.active, loans' = [loans EXCEPT ![i] = new],
         \/ portfolio' = Settled(loans[i])
         \/ portfolio' = Discounted(portfolio, loans[i].borrower, "taken"),
         UNCHANGED <<listings, offers>>
  PROVE  CountersAgree'
<1> SUFFICES ASSUME NEW w \in Users
             PROVE  /\ portfolio'[w].listings = portfolio[w].listings
                    /\ portfolio'[w].offers = portfolio[w].offers
                    /\ portfolio'[w].taken = Number(loans', "borrower", w)
                    /\ portfolio'[w].given >= Number(loans', "lender", w)
  BY LoansMoved
<1>1. PICK l : l = loans[i]
  OBVIOUS
<1>2. portfolio \in [Users -> NFTPortfolio]
  BY DEF IInv, TypeOK
<1>3. PICK p \in [Users -> NFTPortfolio] : p = Discounted(portfolio, l.borrower, "taken")
  BY <1>2, CountersTyped
<1>4. \A g \in {"listings", "offers", "taken", "given"} :
        /\ portfolio[w][g] \in Nat /\ p[w][g] \in Nat
        /\ p[w][g] = IF w = l.borrower /\ g = "taken" /\ portfolio[w][g] # 0
                     THEN portfolio[w][g] - 1 ELSE portfolio[w][g]
  BY <1>2, <1>3, CounterMoves, SMTT(40)
<1>5. \A g \in {"listings", "offers", "taken", "given"} :
        \/ portfolio'[w][g] = p[w][g]
        \/ w = l.lender /\ g = "given" /\ p[w][g] # 0 /\ portfolio'[w][g] = p[w][g] - 1
  <2>1. CASE portfolio' = p
    BY <2>1
  <2>2. CASE portfolio' = Discounted(p, l.lender, "given")
    BY <1>3, <2>2, CounterMoves, SMTT(40)
  <2> QED
    BY <1>1, <1>3, <2>1, <2>2 DEF Settled
<1>6. \A field \in {"borrower", "lender"} :
        /\ One(l, field, w) = IF l[field] = w THEN 1 ELSE 0
        /\ One(new, field, w) = 0
  BY <1>1 DEF One
<1>7. \A field \in {"borrower", "lender"} :
        /\ Number(loans', field, w) + One(l, field, w)
             = Number(loans, field, w) + One(new, field, w)
        /\ Number(loans', field, w) \in Nat /\ Number(loans, field, w) \in Nat
  BY <1>1, LoanNumbers
<1>8. /\ Number(loans', "borrower", w) + (IF l.borrower = w THEN 1 ELSE 0)
           = Number(loans, "borrower", w)
      /\ Number(loans', "lender", w) + (IF l.lender = w THEN 1 ELSE 0)
           = Number(loans, "lender", w)
      /\ Number(loans', "borrower", w) \in Nat /\ Number(loans', "lender", w) \in Nat
      /\ Number(loans, "borrower", w) \in Nat /\ Number(loans, "lender", w) \in Nat
  BY <1>6, <1>7
<1>9. /\ portfolio[w].taken = Number(loans, "borrower", w)
      /\ portfolio[w].given >= Number(loans, "lender", w)
  BY CountersAre
<1>10. portfolio'[w].taken = Number(loans', "borrower", w)
  <2>1. portfolio'[w].taken = p[w].taken
    BY <1>5
  <2>2. p[w].taken = IF w = l.borrower /\ portfolio[w].taken # 0
                     THEN portfolio[w].taken - 1 ELSE portfolio[w].taken
    BY <1>4
  <2> QED
    BY <1>8, <1>9, <2>1, <2>2
<1>11. portfolio'[w].given >= Number(loans', "lender", w)
  <2>1. p[w].given = portfolio[w].given /\ portfolio[w].given \in Nat
    BY <1>4
  <2>2. \/ portfolio'[w].given = p[w].given
        \/ w = l.lender /\ portfolio'[w].given = p[w].given - 1
    BY <1>5
  <2> QED
    BY <1>8, <1>9, <2>1, <2>2, SMTT(40)
<1>12. portfolio'[w].listings = portfolio[w].listings /\ portfolio'[w].offers = portfolio[w].offers
  <2>1. p[w].listings = portfolio[w].listings /\ p[w].offers = portfolio[w].offers
    BY <1>4
  <2> QED
    BY <1>5, <2>1
<1> QED
  BY <1>10, <1>11, <1>12

\* A loan that goes on counts as before.
LEMMA GoesOnCounted ==
  ASSUME IInv, CountersAgree, NEW i \in 1..Len(loans),
         NEW new \in NFTLoan, new.active = loans[i].active,
         new.borrower = loans[i].borrower, new.lender = loans[i].lender,
         loans' = [loans EXCEPT ![i] = new], UNCHANGED <<listings, offers, portfolio>>
  PROVE  CountersAgree'
<1>1. \A w \in Users, field \in {"borrower", "lender"} :
        Number(loans', field, w) = Number(loans, field, w)
  <2> TAKE w \in Users, field \in {"borrower", "lender"}
  <2>1. One(new, field, w) = One(loans[i], field, w) /\ One(new, field, w) \in Nat
    BY DEF One
  <2>2. /\ Number(loans', field, w) + One(loans[i], field, w)
             = Number(loans, field, w) + One(new, field, w)
        /\ Number(loans', field, w) \in Nat /\ Number(loans, field, w) \in Nat
    BY LoanNumbers
  <2> QED
    BY <2>1, <2>2
<1> QED
  BY <1>1, CountersAre, LoansMoved

\* A handler that touches no list and no counter.
LEMMA NothingCounted ==
  ASSUME CountersAgree, UNCHANGED <<listings, offers, loans, portfolio>>
  PROVE  CountersAgree'
<1>1. listings' = listings /\ offers' = offers /\ loans' = loans /\ portfolio' = portfolio
  OBVIOUS
<1>2. CountersAgree' <=>
        \A w \in Users :
          /\ portfolio'[w].listings = Number(listings', "seller", w)
          /\ portfolio'[w].offers = Number(offers', "buyer", w)
          /\ portfolio'[w].taken = Number(loans', "borrower", w)
          /\ portfolio'[w].given >= Number(loans', "lender", w)
  BY DEF CountersAgree, Number, Naming
<1> QED
  BY <1>1, <1>2, CountersAre

\* Every handler of the market.
LEMMA MarketCounts ==
  ASSUME IInv, CountersAgree, MarketNext
  PROVE  CountersAgree'
<1> USE NftAssumption, MarketplaceAssumption
<1>0. listings \in Seq(NFTListing) /\ offers \in Seq(NFTOffer) /\ now \in Nat
  BY DEF IInv, TypeOK
<1>1. ASSUME NEW u \in Users, NEW t \in Tokens, NEW p \in Prices, NEW d \in ListingDays,
             NEW a \in BOOLEAN, CreateListing(u, t, p, d, a)
      PROVE  CountersAgree'
  <2> DEFINE e == [ token |-> t, seller |-> u, price |-> p, expires |-> now + d,
                    auction |-> a, bid |-> 0, bidder |-> None, active |-> TRUE ]
  <2>1. e \in NFTListing /\ e.active /\ e.seller = u
    BY <1>0 DEF NFTListing
  <2>2. /\ listings' = Append(listings, e) /\ portfolio' = Counted(portfolio, u, "listings")
        /\ UNCHANGED <<offers, loans>>
    BY <1>1 DEF CreateListing, NoLoanChange
  <2> HIDE DEF e
  <2>3. PICK new \in NFTListing : new = e
    BY <2>1
  <2> QED
    BY <2>1, <2>2, <2>3, ListingCounted
<1>2. ASSUME NEW u \in Users, NEW t \in Tokens, NEW p \in Prices, NEW d \in OfferDays,
             CreateOffer(u, t, p, d)
      PROVE  CountersAgree'
  <2> DEFINE e == [ token |-> t, buyer |-> u, amount |-> p, expires |-> now + d,
                    active |-> TRUE ]
  <2>1. e \in NFTOffer /\ e.active /\ e.buyer = u
    BY <1>0 DEF NFTOffer
  <2>2. /\ offers' = Append(offers, e) /\ portfolio' = Counted(portfolio, u, "offers")
        /\ UNCHANGED <<listings, loans>>
    BY <1>2 DEF CreateOffer, NoLoanChange
  <2> HIDE DEF e
  <2>3. PICK new \in NFTOffer : new = e
    BY <2>1
  <2> QED
    BY <2>1, <2>2, <2>3, OfferCounted
<1>3. ASSUME NEW u \in Users, NEW i \in 1..Len(listings),
             CancelListing(u, i) \/ BuyNft(u, i)
      PROVE  CountersAgree'
  <2>1. /\ DeactivateListing(i)
        /\ portfolio' = Discounted(portfolio, listings[i].seller, "listings")
        /\ UNCHANGED <<offers, loans>>
    BY <1>3 DEF CancelListing, BuyNft, NoLoanChange
  <2> QED
    BY <2>1, ListingDiscounted
<1>4. ASSUME NEW u \in Users, NEW i \in 1..Len(listings), NEW p \in Prices, PlaceBid(u, i, p)
      PROVE  CountersAgree'
  <2> DEFINE e == [listings[i] EXCEPT !.bid = p, !.bidder = u]
  <2>0. listings[i] \in NFTListing /\ p \in Nat
    BY <1>0
  <2>1. e \in NFTListing /\ e.active = listings[i].active /\ e.seller = listings[i].seller
    BY <2>0 DEF NFTListing
  <2>2. listings' = [listings EXCEPT ![i] = e] /\ UNCHANGED <<offers, loans, portfolio>>
    BY <1>0, <1>4 DEF PlaceBid, NoLoanChange
  <2> HIDE DEF e
  <2>3. PICK new \in NFTListing : new = e
    BY <2>1
  <2>4. ASSUME NEW w \in Users
        PROVE  Number(listings', "seller", w) = Number(listings, "seller", w)
    <3>1. One(new, "seller", w) = One(listings[i], "seller", w) /\ One(new, "seller", w) \in Nat
      BY <2>1, <2>3 DEF One
    <3>2. Number([listings EXCEPT ![i] = new], "seller", w) + One(listings[i], "seller", w)
            = Number(listings, "seller", w) + One(new, "seller", w)
      BY <1>0, NumberReplaced
    <3>3. listings' \in Seq(NFTListing)
      BY <1>0, <2>2, <2>3, Replaced
    <3>4. Number(listings', "seller", w) \in Nat /\ Number(listings, "seller", w) \in Nat
      BY <1>0, <3>3, NumberTyped
    <3> QED
      BY <2>2, <2>3, <3>1, <3>2, <3>4
  <2> QED
    BY <2>2, <2>4, CountersAre, ListingsMoved
<1>5. ASSUME NEW u \in Users, NEW i \in 1..Len(offers), CancelOffer(u, i) \/ AcceptOffer(u, i)
      PROVE  CountersAgree'
  <2>1. /\ DeactivateOffer(i)
        /\ portfolio' = Discounted(portfolio, offers[i].buyer, "offers")
        /\ UNCHANGED <<listings, loans>>
    BY <1>5 DEF CancelOffer, AcceptOffer, NoLoanChange
  <2> QED
    BY <2>1, OfferDiscounted
<1>6. ASSUME NEW i \in 1..Len(listings), FinalizeAuction(i)
      PROVE  CountersAgree'
  <2>1. /\ DeactivateListing(i)
        /\ portfolio' = Discounted(portfolio, listings[i].seller, "listings")
        /\ UNCHANGED <<offers, loans>>
    BY <1>6 DEF FinalizeAuction, NoLoanChange
  <2> QED
    BY <2>1, ListingDiscounted
<1> QED
  BY <1>1, <1>2, <1>3, <1>4, <1>5, <1>6 DEF MarketNext

\* A loan that is marked as ended was running and is live no more.
LEMMA EndCounted ==
  ASSUME IInv, CountersAgree, NEW i \in 1..Len(loans), Running(loans[i]),
         MarkRepaid(i) \/ MarkLiquidated(i),
         \/ portfolio' = Settled(loans[i])
         \/ portfolio' = Discounted(portfolio, loans[i].borrower, "taken"),
         NoOtherChange
  PROVE  CountersAgree'
<1> DEFINE repaid == [loans[i] EXCEPT !.repaid = TRUE, !.active = FALSE]
           liquidated == [loans[i] EXCEPT !.liquidated = TRUE, !.active = FALSE]
<1>1. /\ loans \in Seq(NFTLoan) /\ loans[i] \in NFTLoan /\ loans[i].active
      /\ UNCHANGED <<listings, offers>>
  BY DEF IInv, TypeOK, Running, NoOtherChange, books
<1>2. repaid \in NFTLoan /\ ~repaid.active /\ liquidated \in NFTLoan /\ ~liquidated.active
  BY <1>1 DEF NFTLoan
<1>3. loans' = [loans EXCEPT ![i] = repaid] \/ loans' = [loans EXCEPT ![i] = liquidated]
  BY <1>1 DEF MarkRepaid, MarkLiquidated
<1> HIDE DEF repaid, liquidated
<1>4. PICK new \in NFTLoan : ~new.active /\ loans' = [loans EXCEPT ![i] = new]
  BY <1>2, <1>3
<1> QED
  BY <1>1, <1>4, EndedDiscounted

\* Every handler of loans and pools.
LEMMA LendingCounts ==
  ASSUME IInv, CountersAgree, LendingNext
  PROVE  CountersAgree'
<1> USE NftAssumption, LendingAssumption
<1>0. /\ loans \in Seq(NFTLoan) /\ now \in Nat /\ pools \in [Pools -> LendingPool]
      /\ NoOtherChange => UNCHANGED <<listings, offers>>
  BY DEF IInv, TypeOK, NoOtherChange, books
<1>1. ASSUME NEW u \in Users, NEW t \in Tokens, NEW a \in Amounts, NEW r \in Rates,
             NEW d \in LoanDays, RequestLoan(u, t, a, r, d)
      PROVE  CountersAgree'
  <2> DEFINE e == [ token |-> t, borrower |-> u, lender |-> u, amount |-> a,
                    rate |-> r, repayment |-> a, days |-> d, due |-> 0,
                    active |-> FALSE, repaid |-> FALSE, liquidated |-> FALSE ]
  <2>1. e \in NFTLoan /\ ~e.active
    BY DEF NFTLoan, Owners
  <2>2. loans' = Append(loans, e) /\ UNCHANGED <<listings, offers, portfolio>>
    BY <1>0, <1>1 DEF RequestLoan, CreateLoan
  <2> HIDE DEF e
  <2>3. PICK new \in NFTLoan : new = e
    BY <2>1
  <2> QED
    BY <2>1, <2>2, <2>3, RequestUncounted
<1>2. ASSUME NEW u \in Users, NEW i \in 1..Len(loans), FundLoan(u, i)
      PROVE  CountersAgree'
  <2>0. PICK l : l = loans[i]
    OBVIOUS
  <2> DEFINE interest == TotalInterest(l.amount, l.rate, l.days)
             e == [ l EXCEPT !.repayment = l.amount + interest,
                             !.lender = u, !.due = now + l.days, !.active = TRUE ]
  <2>1. l \in NFTLoan /\ l.amount \in Nat /\ l.rate \in Nat /\ l.days \in Nat
    <3>1. l \in NFTLoan
      BY <1>0, <2>0
    <3> QED
      BY <3>1 DEF NFTLoan
  <2>2. interest \in Nat
    BY <2>1, InterestTyped
  <2>3. /\ loans' = [loans EXCEPT ![i] = e] /\ ~l.active
        /\ portfolio' = Counted(Counted(portfolio, l.borrower, "taken"), u, "given")
        /\ UNCHANGED <<listings, offers>>
    BY <1>0, <1>2, <2>0 DEF FundLoan
  <2> HIDE DEF interest
  <2>4. e \in NFTLoan /\ e.active /\ e.borrower = l.borrower /\ e.lender = u
    <3>1. l.amount + interest \in Nat
      BY <2>1, <2>2, SMTT(40)
    <3>2. now + l.days \in Nat
      BY <1>0, <2>1, SMTT(40)
    <3>3. u \in Owners
      BY DEF Owners
    <3> QED
      BY <2>1, <3>1, <3>2, <3>3 DEF NFTLoan
  <2> HIDE DEF e
  <2>5. PICK new \in NFTLoan : new = e
    BY <2>4
  <2> QED
    BY <2>0, <2>3, <2>4, <2>5, FundedCounted
<1>3. ASSUME NEW u \in Users, NEW i \in 1..Len(loans), RepayLoan(u, i)
      PROVE  CountersAgree'
  BY <1>3, EndCounted DEF RepayLoan
<1>4. ASSUME NEW i \in 1..Len(loans), LiquidateLoan(i)
      PROVE  CountersAgree'
  BY <1>4, EndCounted DEF LiquidateLoan
<1>5. ASSUME NEW u \in Users, NEW p \in Pools, NEW t \in Tokens, NEW a \in Amounts,
             NEW d \in LoanDays, NEW v \in Values, BorrowFromLendingPool(u, p, t, a, d, v)
      PROVE  CountersAgree'
  <2> DEFINE rate == DynamicRate(pools[p])
             interest == ((a * rate) \div Bps) * d
             e == [ token |-> t, borrower |-> u, lender |-> p, amount |-> a,
                    rate |-> rate, repayment |-> a + interest, days |-> d,
                    due |-> now + d,
                    active |-> TRUE, repaid |-> FALSE, liquidated |-> FALSE ]
  <2>1. /\ pools[p].borrowed >= 0 /\ CreateLoan(e)
        /\ portfolio' = Counted(portfolio, u, "taken") /\ UNCHANGED <<listings, offers>>
    BY <1>0, <1>5 DEF BorrowFromLendingPool
  <2>2. a \in Nat /\ d \in Nat /\ pools[p] \in LendingPool
    BY <1>0
  <2>3. rate \in Nat
    <3>1. pools[p].deposited >= 0
      BY <2>1, PoolCovered
    <3> QED
      BY <2>1, <2>2, <3>1, RateTyped
  <2> HIDE DEF rate
  <2>4. interest \in Nat
    BY <2>2, <2>3, InterestTyped
  <2> HIDE DEF interest
  <2>5. e \in NFTLoan /\ e.active /\ e.lender \in Pools /\ e.borrower = u
    BY <1>0, <2>2, <2>3, <2>4 DEF NFTLoan, Owners
  <2> HIDE DEF e
  <2>6. PICK new \in NFTLoan : new = e
    BY <2>5
  <2>7. loans' = Append(loans, new)
    BY <2>1, <2>6 DEF CreateLoan
  <2> QED
    BY <2>1, <2>5, <2>6, <2>7, PoolLoanCounted
<1>6. ASSUME NEW u \in Users, NEW i \in 1..Len(loans), NEW p \in Pools, NEW extra \in Extras,
             RepayLendingPoolLoan(u, p, i, extra)
      PROVE  CountersAgree'
  BY <1>6, EndCounted DEF RepayLendingPoolLoan
<1>7. ASSUME NEW u \in Users, NEW i \in 1..Len(loans), NEW v \in Values,
             LiquidateUndercollateralizedLoan(u, i, v)
      PROVE  CountersAgree'
  BY <1>7, EndCounted DEF LiquidateUndercollateralizedLoan, CanLiquidateLoan
<1>8. ASSUME NEW i \in 1..Len(loans), NEW v, ExecuteLiquidation(i, v)
      PROVE  CountersAgree'
  <2>1. CASE PartialLiquidation(i)
    <3>0. PICK l : l = loans[i]
      OBVIOUS
    <3> DEFINE rest == TotalDue(l) - TotalDue(l) \div 2
               e == [l EXCEPT !.repayment = rest]
    <3>1. loans' = [loans EXCEPT ![i] = e] /\ UNCHANGED <<listings, offers, portfolio>>
      BY <1>0, <1>8, <2>1, <3>0 DEF PartialLiquidation, ExecuteLiquidation
    <3>2. rest \in Nat /\ l \in NFTLoan
      BY <1>0, <3>0, DueTyped, SMTT(40)
    <3> HIDE DEF rest
    <3>3. /\ e \in NFTLoan /\ e.active = l.active
          /\ e.borrower = l.borrower /\ e.lender = l.lender
      BY <3>2 DEF NFTLoan
    <3> HIDE DEF e
    <3>4. PICK new \in NFTLoan : new = e
      BY <3>3
    <3> QED
      BY <3>0, <3>1, <3>3, <3>4, GoesOnCounted
  <2>2. CASE FullLiquidation(i)
    <3>1. Running(loans[i]) /\ NoOtherChange
      BY <1>8 DEF ExecuteLiquidation, Undercollateralized
    <3>2. MarkLiquidated(i) /\ portfolio' = Settled(loans[i])
      BY <2>2 DEF FullLiquidation
    <3> QED
      BY <3>1, <3>2, EndCounted
  <2> QED
    BY <1>8, <2>1, <2>2 DEF ExecuteLiquidation
<1>9. ASSUME UNCHANGED <<loans, portfolio>>, NoOtherChange
      PROVE  CountersAgree'
  BY <1>0, <1>9, NothingCounted
<1>10. ASSUME NEW p \in Pools,
              \/ CreateLendingPool(p)
              \/ \E u \in Users, a \in Amounts :
                   DepositToLendingPool(u, p, a) \/ WithdrawFromLendingPool(u, p, a)
       PROVE  CountersAgree'
  BY <1>9, <1>10 DEF CreateLendingPool, DepositToLendingPool, WithdrawFromLendingPool
<1>11. ASSUME NEW i \in 1..Len(loans), NEW v \in Values,
              \/ EnqueueLiquidation(i, v)
              \/ \E u \in Users, b \in Bids : PlaceLiquidationBid(u, i, b, v)
       PROVE  CountersAgree'
  BY <1>9, <1>11 DEF EnqueueLiquidation, PlaceLiquidationBid
<1>12. ASSUME NEW i \in 1..Len(loans), NEW v \in Values, ExecuteLiquidationNow(i, v)
       PROVE  CountersAgree'
  BY <1>8, <1>12 DEF ExecuteLiquidationNow
<1>13. ASSUME NEW v \in [Tokens -> Values], MonitorAndQueueLiquidations(v)
       PROVE  CountersAgree'
  BY <1>9, <1>13 DEF MonitorAndQueueLiquidations
<1>14. ASSUME NEW v \in [Tokens -> Values], NEW n \in 1..Len(queue),
              ProcessLiquidationQueue(n, v)
       PROVE  CountersAgree'
  BY <1>8, <1>14 DEF ProcessLiquidationQueue
<1> QED
  BY <1>1, <1>2, <1>3, <1>4, <1>5, <1>6, <1>7, <1>10, <1>11, <1>12, <1>13, <1>14
  DEF LendingNext

\* For any users, tokens and pools, and whatever is listed, offered, lent, repaid and
\* liquidated: the counters of the portfolios agree with the entries that are live.
THEOREM CountersRight == Spec => []CountersAgree
<1>1. Init => CountersAgree
  <2> SUFFICES ASSUME Init, NEW u \in Users
               PROVE  /\ portfolio[u].listings = 0 /\ Live(listings) = {}
                      /\ portfolio[u].offers = 0 /\ Live(offers) = {}
                      /\ portfolio[u].taken = 0 /\ Live(loans) = {}
                      /\ portfolio[u].given = 0
    <3>1. \A field, w : /\ Live(listings) = {} => Number(listings, field, w) = 0
                        /\ Live(offers) = {} => Number(offers, field, w) = 0
                        /\ Live(loans) = {} => Number(loans, field, w) = 0
      BY FS_EmptySet DEF Number, Naming
    <3> QED
      BY <3>1, CountersAre
  <2> QED
    BY DEF Init, StorageInit, Live
<1>2. IInv /\ CountersAgree /\ [Next]_vars => CountersAgree'
  <2> SUFFICES ASSUME IInv, CountersAgree, [Next]_vars
               PROVE  CountersAgree'
    OBVIOUS
  <2>1. CASE StorageNext
    <3>1. UNCHANGED <<listings, offers, loans, portfolio>>
      BY <2>1 DEF StorageNext, SetMarketplacePaused, FreezeUser, UnfreezeUser, Tick, books
    <3> QED
      BY <3>1, NothingCounted
  <2>2. CASE MarketNext
    BY <2>2, MarketCounts
  <2>3. CASE LendingNext
    BY <2>3, LendingCounts
  <2>4. CASE FractionalNext
    <3>1. ASSUME NEW u, NEW t, NEW n,
                 \/ FractionalizeNft(u, t, n) \/ BuyFractionalShares(u, t, n)
                 \/ SellFractionalShares(u, t, n) \/ DefractionalizeNft(u, t)
                 \/ CreateFractionalVault(u, t, n) \/ MintVaultShares(u, t, n)
                 \/ \E to : TransferFractionalShares(u, to, t, n)
          PROVE  NoFractionChange
      BY <3>1 DEF FractionalizeNft, BuyFractionalShares, SellFractionalShares, MintVaultShares,
                  TransferFractionalShares, DefractionalizeNft, CreateFractionalVault
    <3>2. ASSUME NEW u, NEW v, NEW n, WithdrawVaultShares(u, v, n)
          PROVE  NoFractionChange
      BY <3>2 DEF WithdrawVaultShares
    <3>3. NoFractionChange
      BY <2>4, <3>1, <3>2 DEF FractionalNext
    <3> QED
      BY <3>3, NothingCounted, SMTT(40) DEF NoFractionChange, books
  <2>5. CASE UNCHANGED vars
    BY <2>5, NothingCounted DEF vars
  <2> QED
    BY <2>1, <2>2, <2>3, <2>4, <2>5 DEF Next
<1> QED
  BY <1>1, <1>2, Inductive, PTL DEF Spec
=============================================================================
