-------------------------- MODULE NftMarketplace --------------------------
(* Listings, auctions, offers and sales of tokens                           *)
(* (counter/src/nft_marketplace.rs).                                        *)
EXTENDS NftStorage

CONSTANTS
  Prices,        \* prices, bids and offers
  ListingDays, OfferDays   \* durations accepted

ASSUME MarketplaceAssumption ==
  /\ Prices \subseteq Nat \ {0}
  /\ ListingDays \subseteq Nat /\ OfferDays \subseteq Nat

NoLoanChange == UNCHANGED <<loans, vaults, shares, collateral, switches, now>>

\* min_bid is the price of an auction.  Nothing looks at fractions or at
\* listings that the token has already.
CreateListing(u, t, price, days, auction) ==
  /\ ~paused /\ u \notin frozen
  /\ nft[t].owner = u
  /\ ~Collateralized(t)
  /\ Room
  /\ listings' = Append(listings,
       [ token |-> t, seller |-> u, price |-> price, expires |-> now + days,
         auction |-> auction, bid |-> 0, bidder |-> None, active |-> TRUE ])
  /\ portfolio' = Counted(portfolio, u, "listings")
  /\ UNCHANGED <<nft, offers>> /\ NoLoanChange

CancelListing(u, i) ==
  /\ listings[i].seller = u
  /\ DeactivateListing(i)
  /\ portfolio' = Discounted(portfolio, u, "listings")
  /\ UNCHANGED <<nft, offers>> /\ NoLoanChange

PlaceBid(u, i, amount) ==
  LET l == listings[i] IN
  /\ ~paused /\ u \notin frozen
  /\ l.auction /\ IsValid(l)
  /\ l.seller # u
  /\ amount >= l.price /\ amount > l.bid
  /\ listings' = [listings EXCEPT ![i].bid = amount, ![i].bidder = u]
  /\ UNCHANGED <<nft, offers, portfolio>> /\ NoLoanChange

CreateOffer(u, t, amount, days) ==
  /\ ~paused /\ u \notin frozen
  /\ nft[t].owner # u
  /\ Room
  /\ offers' = Append(offers,
       [ token |-> t, buyer |-> u, amount |-> amount, expires |-> now + days,
         active |-> TRUE ])
  /\ portfolio' = Counted(portfolio, u, "offers")
  /\ UNCHANGED <<nft, listings>> /\ NoLoanChange

CancelOffer(u, i) ==
  /\ offers[i].buyer = u
  /\ DeactivateOffer(i)
  /\ portfolio' = Discounted(portfolio, u, "offers")
  /\ UNCHANGED <<nft, listings>> /\ NoLoanChange

\* The one check of a sale is that the seller still owns the token.
ExecuteTrade(t, seller, buyer) ==
  /\ nft[t].owner = seller
  /\ TransferOwnership(t, buyer)

AcceptOffer(u, i) ==
  LET o == offers[i] IN
  /\ ~paused
  /\ IsValid(o)
  /\ ExecuteTrade(o.token, u, o.buyer)
  /\ DeactivateOffer(i)
  /\ portfolio' = Discounted(portfolio, o.buyer, "offers")
  /\ UNCHANGED listings /\ NoLoanChange

\* Mutant: the counter of listings is left as it was.
BuyNftUncounted(u, i) ==
  LET l == listings[i] IN
  /\ ~paused /\ u \notin frozen
  /\ ~l.auction /\ IsValid(l)
  /\ l.seller # u
  /\ ExecuteTrade(l.token, l.seller, u)
  /\ DeactivateListing(i)
  /\ UNCHANGED <<offers, portfolio>> /\ NoLoanChange

BuyNft(u, i) ==
  LET l == listings[i] IN
  /\ ~paused /\ u \notin frozen
  /\ ~l.auction /\ IsValid(l)
  /\ l.seller # u
  /\ ExecuteTrade(l.token, l.seller, u)
  /\ DeactivateListing(i)
  /\ portfolio' = Discounted(portfolio, l.seller, "listings")
  /\ UNCHANGED offers /\ NoLoanChange

\* An auction is closed by anyone after its end, paused or not.
FinalizeAuction(i) ==
  LET l == listings[i] IN
  /\ l.auction
  /\ now > l.expires
  /\ l.bidder # None
  /\ ExecuteTrade(l.token, l.seller, l.bidder)
  /\ DeactivateListing(i)
  /\ portfolio' = Discounted(portfolio, l.seller, "listings")
  /\ UNCHANGED offers /\ NoLoanChange

MarketNext ==
  \/ \E u \in Users, t \in Tokens, p \in Prices, d \in ListingDays, a \in BOOLEAN :
       CreateListing(u, t, p, d, a)
  \/ \E u \in Users, t \in Tokens, p \in Prices, d \in OfferDays : CreateOffer(u, t, p, d)
  \/ \E u \in Users, i \in 1..Len(listings) :
       \/ CancelListing(u, i)
       \/ BuyNft(u, i)
       \/ \E p \in Prices : PlaceBid(u, i, p)
  \/ \E u \in Users, i \in 1..Len(offers) : CancelOffer(u, i) \/ AcceptOffer(u, i)
  \/ \E i \in 1..Len(listings) : FinalizeAuction(i)
===========================================================================
