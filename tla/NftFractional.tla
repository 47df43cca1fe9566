--------------------------- MODULE NftFractional ---------------------------
(* Fractions of tokens (counter/src/nft_fractional.rs), kept in two ways    *)
(* that share the supply fields of the token: shares by holder, and vaults  *)
(* in the manner of ERC-4626.                                               *)
EXTENDS NftStorage

CONSTANTS
  ShareCounts,         \* shares a token may be divided into, from MIN_SHARES up
  MinVaultMint,        \* MIN_VAULT_MINT_AMOUNT
  WithdrawalDelay,     \* WITHDRAWAL_DELAY, in days
  WithdrawalFee        \* MAX_WITHDRAWAL_FEE_BPS

ASSUME FractionalAssumption ==
  /\ ShareCounts \subseteq Nat \ {0}
  /\ {MinVaultMint, WithdrawalDelay} \subseteq Nat
  /\ WithdrawalFee \in 0..Bps

VARIABLE vaultShares   \* VAULT_SHARES_KEY

VaultShare == [ shares : Nat, since : Nat ]

NoFractionChange == UNCHANGED <<books, loans, collateral, portfolio, switches, now>>

-----------------------------------------------------------------------------
(* Shares by holder *)

\* The token and what is asked of its owner before it is divided.
MayDivide(u, t) ==
  /\ ~paused /\ u \notin frozen
  /\ nft[t].owner = u
  /\ ~nft[t].fractional
  /\ ~Collateralized(t)

FractionalizeNft(u, t, n) ==
  /\ MayDivide(u, t)
  /\ Room
  /\ nft' = [nft EXCEPT ![t].fractional = TRUE, ![t].total = n, ![t].circulating = 0]
  /\ shares' = [shares EXCEPT ![t][u] = n]
  /\ UNCHANGED <<vaults, vaultShares>> /\ NoFractionChange

\* Bought shares are new ones, beside those the owner began with.
BuyFractionalShares(u, t, n) ==
  /\ ~paused /\ u \notin frozen
  /\ nft[t].fractional
  /\ n <= nft[t].total - nft[t].circulating
  /\ shares' = [shares EXCEPT ![t][u] = @ + n]
  /\ nft' = [nft EXCEPT ![t].circulating = @ + n]
  /\ UNCHANGED <<vaults, vaultShares>> /\ NoFractionChange

SellFractionalShares(u, t, n) ==
  /\ ~paused
  /\ shares[t][u] >= n
  /\ shares' = [shares EXCEPT ![t][u] = @ - n]
  /\ nft' = [nft EXCEPT ![t].circulating = IF @ < n THEN 0 ELSE @ - n]
  /\ UNCHANGED <<vaults, vaultShares>> /\ NoFractionChange

TransferFractionalShares(u, to, t, n) ==
  /\ ~paused /\ u \notin frozen
  /\ u # to
  /\ nft[t].fractional
  /\ shares[t][u] >= n
  /\ shares' = [shares EXCEPT ![t][u] = @ - n, ![t][to] = @ + n]
  /\ UNCHANGED <<nft, vaults, vaultShares>> /\ NoFractionChange

\* Whoever holds as many shares as the token was divided into ends the
\* division; the token stays with its owner.
DefractionalizeNft(u, t) ==
  /\ ~paused
  /\ nft[t].fractional
  /\ shares[t][u] > 0 /\ shares[t][u] = nft[t].total
  /\ nft' = [nft EXCEPT ![t].fractional = FALSE, ![t].total = 1, ![t].circulating = 1]
  /\ shares' = [shares EXCEPT ![t] = [h \in Users |-> 0]]
  /\ UNCHANGED <<vaults, vaultShares>> /\ NoFractionChange

-----------------------------------------------------------------------------
(* Vaults *)

\* The owner is minted every share of the new vault.
CreateFractionalVault(u, t, n) ==
  /\ MayDivide(u, t)
  /\ n >= MinVaultMint
  /\ Room
  /\ nft' = [nft EXCEPT ![t].fractional = TRUE, ![t].total = n, ![t].circulating = n]
  /\ vaults' = Append(vaults,
       [ token |-> t, owner |-> u, total |-> n, supply |-> n, active |-> TRUE ])
  /\ vaultShares' = [vaultShares EXCEPT ![Len(vaults) + 1][u] =
                       [ shares |-> n, since |-> now ]]
  /\ UNCHANGED shares /\ NoFractionChange

\* Mutant: the total is not looked at.
MintVaultSharesUnchecked(u, v, n) ==
  /\ n >= MinVaultMint
  /\ vaults[v].active
  /\ vaults' = [vaults EXCEPT ![v].supply = @ + n]
  /\ vaultShares' = [vaultShares EXCEPT ![v][u] =
                       [ shares |-> @.shares + n, since |-> now ]]
  /\ nft' = [nft EXCEPT ![vaults[v].token].circulating = @ + n]
  /\ UNCHANGED shares /\ NoFractionChange

\* Anybody may mint to anybody what was burned.
MintVaultShares(u, v, n) ==
  /\ n >= MinVaultMint
  /\ vaults[v].active
  /\ vaults[v].supply + n <= vaults[v].total
  /\ vaults' = [vaults EXCEPT ![v].supply = @ + n]
  /\ vaultShares' = [vaultShares EXCEPT ![v][u] =
                       [ shares |-> @.shares + n, since |-> now ]]
  /\ nft' = [nft EXCEPT ![vaults[v].token].circulating = @ + n]
  /\ UNCHANGED shares /\ NoFractionChange

\* The creator of the vault who burns the last share gets the token back,
\* whoever owns it now.
ClosedVault(u, v, n) ==
  /\ vaults[v].supply = n
  /\ vaults[v].owner = u

\* What is taken off the circulating supply; it was set to 1 if the vault
\* closes, and overflow checks refuse to go below zero.
WithdrawVaultShares(u, v, n) ==
  LET net == n - (n * WithdrawalFee) \div Bps
      t == vaults[v].token
      closing == ClosedVault(u, v, n)
      circulating == IF closing THEN 1 ELSE nft[t].circulating
  IN
  /\ vaultShares[v][u].shares >= n
  /\ now >= vaultShares[v][u].since + WithdrawalDelay
  /\ net <= circulating
  /\ vaults' = [vaults EXCEPT ![v].supply = @ - n, ![v].active = @ /\ ~closing]
  /\ vaultShares' = [vaultShares EXCEPT ![v][u].shares = @ - n]
  /\ nft' = [nft EXCEPT ![t] =
       [ owner |-> IF closing THEN u ELSE @.owner,
         fractional |-> @.fractional /\ ~closing,
         total |-> IF closing THEN 1 ELSE @.total,
         circulating |-> circulating - net ]]
  /\ UNCHANGED shares /\ NoFractionChange

FractionalInit ==
  vaultShares = [v \in 1..MaxEntries |-> [u \in Users |-> [ shares |-> 0, since |-> 0 ]]]

ShareAmounts == UNION { 1..n : n \in ShareCounts }

FractionalNext ==
  \/ \E u \in Users, t \in Tokens, n \in ShareCounts :
       FractionalizeNft(u, t, n) \/ CreateFractionalVault(u, t, n)
  \/ \E u \in Users, t \in Tokens, n \in ShareAmounts :
       \/ BuyFractionalShares(u, t, n)
       \/ SellFractionalShares(u, t, n)
       \/ \E to \in Users : TransferFractionalShares(u, to, t, n)
  \/ \E u \in Users, t \in Tokens : DefractionalizeNft(u, t)
  \/ \E u \in Users, v \in 1..Len(vaults), n \in ShareAmounts :
       MintVaultShares(u, v, n) \/ WithdrawVaultShares(u, v, n)
===========================================================================
