------------------------------ MODULE Referral ------------------------------
\* Referrals (counter/src/referral_system.rs): a user names one referrer, once;
\* a fee the user pays earns a commission for the referrer and for the referrer's
\* referrer, at the rates of the user's own tier. The event log and the time of
\* registration are left out; indirect_referrals is never counted by any call.
EXTENDS Ledger

CONSTANTS
    Members,      \* accounts
    Nobody,       \* no referrer
    SwapFees,     \* fees a swap charges
    RateScale,    \* 10000, the denominator of the rates
    SilverAt,     \* 10000, the volume from which the second tier applies
    GoldAt,       \* 50000, the volume from which the third does
    MaxVolume     \* exploration bound on the fees paid by all accounts

ASSUME ReferralAssumption == /\ IsFiniteSet(Members) /\ Nobody \notin Members
                             /\ SwapFees \subseteq Nat \ {0}
                             /\ RateScale \in Nat \ {0}
                             /\ SilverAt \in Nat /\ GoldAt \in Nat

VARIABLES
    referrer,     \* Referrer of every account
    stats,        \* ReferralStats
    volume,       \* TradingVolume: the fees an account has paid
    commission,   \* CommissionBalance
    withdrawn     \* what withdraw_commission has returned

referralVars == <<referrer, stats, volume, commission, withdrawn>>

Tier(v) ==
    IF v >= GoldAt THEN [direct |-> 100, indirect |-> 40]
    ELSE IF v >= SilverAt THEN [direct |-> 75, indirect |-> 30]
    ELSE [direct |-> 50, indirect |-> 20]

Referrer(u) == IF u = Nobody THEN Nobody ELSE referrer[u]

\* Variant with a fault: only the referrer's own referrer is looked at.
CircularDirect(by, u) == Referrer(by) = u

\* The loop looks two referrers up.
Circular(by, u) == u \in {Referrer(by), Referrer(Referrer(by))}

ReferralInit ==
    /\ referrer = [u \in Members |-> Nobody]
    /\ stats = [u \in Members |-> [direct |-> 0, earned |-> 0, volume |-> 0]]
    /\ volume = [u \in Members |-> 0]
    /\ commission = [u \in Members |-> 0]
    /\ withdrawn = [u \in Members |-> 0]

RegisterReferral(by, u) ==
    /\ by # u /\ referrer[u] = Nobody /\ ~Circular(by, u)
    /\ referrer' = [referrer EXCEPT ![u] = by]
    /\ stats' = [stats EXCEPT ![by].direct = @ + 1]
    /\ UNCHANGED <<volume, commission, withdrawn>>

\* What a fee of the trader brings to an account.
Share(trader, fee, u) ==
    LET tier == Tier(volume[trader])
        direct == Referrer(trader)
    IN  CASE u = direct -> (fee * tier.direct) \div RateScale
          [] u = Referrer(direct) -> (fee * tier.indirect) \div RateScale
          [] OTHER -> 0

Shares(trader, fee) == [u \in Members |-> Share(trader, fee, u)]

\* The record of an account that a fee brings an amount.
Paid(s, due, fee) ==
    IF due = 0 THEN s ELSE [s EXCEPT !.earned = @ + due, !.volume = @ + fee]

\* Called by the swap entry point with the fee it collected.
DistributeCommission(trader, fee) ==
    LET due == Shares(trader, fee) IN
    /\ Supply(volume) + fee <= MaxVolume
    /\ volume' = [volume EXCEPT ![trader] = @ + fee]
    /\ commission' = [u \in Members |-> commission[u] + due[u]]
    /\ stats' = [u \in Members |-> Paid(stats[u], due[u], fee)]
    /\ UNCHANGED <<referrer, withdrawn>>

WithdrawCommission(u) ==
    /\ commission[u] > 0
    /\ commission' = [commission EXCEPT ![u] = 0]
    /\ withdrawn' = [withdrawn EXCEPT ![u] = @ + commission[u]]
    /\ UNCHANGED <<referrer, stats, volume>>

ReferralNext ==
    \E u \in Members :
        \/ \E by \in Members : RegisterReferral(by, u)
        \/ \E fee \in SwapFees : DistributeCommission(u, fee)
        \/ WithdrawCommission(u)

ReferralSpec == ReferralInit /\ [][ReferralNext]_referralVars

----------------------------------------------------------------------------
ReferralTypeOK ==
    /\ referrer \in [Members -> Members \cup {Nobody}]
    /\ stats \in [Members -> [direct : Nat, earned : Nat, volume : Nat]]
    /\ volume \in [Members -> Nat]
    /\ commission \in [Members -> Nat] /\ withdrawn \in [Members -> Nat]

\* No account is found within three steps up from itself, whatever the order in
\* which links are made, so a fee never earns its payer a commission; every link
\* is counted for the referrer once (referral_system.rs:105).
ReferralsAcyclic ==
    \A u \in Members :
        /\ u \notin {Referrer(u), Referrer(Referrer(u)), Referrer(Referrer(Referrer(u)))}
        /\ stats[u].direct = Cardinality({w \in Members : referrer[w] = u})

\* Commissions are what the accounts hold or have withdrawn, and never come to
\* more than the two highest rates of the fees paid (referral_system.rs:172).
CommissionsAccounted ==
    /\ \A u \in Members : commission[u] + withdrawn[u] = stats[u].earned
    /\ Supply([u \in Members |-> stats[u].earned]) * RateScale <= 140 * Supply(volume)

\* Referrals have no loop within the depth commissions are paid to, and commissions
\* are what the fees earned (referral_system.rs:105).
ReferralsSound == ReferralTypeOK /\ ReferralsAcyclic /\ CommissionsAccounted
=============================================================================
