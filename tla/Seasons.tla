------------------------------ MODULE Seasons ------------------------------
\* Trading seasons (counter/src/seasons.rs): every swap adds to the score of its
\* user and moves the user on the season's leaderboard, which keeps the first
\* MaxLeaderboard; the first TopN get a badge (src/rewards.rs) when the season
\* ends. A swap keeps scoring the last season after it has ended.
EXTENDS Naturals, FiniteSets, SequencesExt

CONSTANTS
    Traders,         \* accounts that swap
    Volumes,         \* amounts of a swap
    MaxLeaderboard,  \* MAX_LEADERBOARD_SIZE
    TopN,            \* places that earn a badge
    MaxSeasons,      \* exploration bound on the seasons started
    MaxScore         \* exploration bound on a score

ASSUME SeasonAssumption == /\ Volumes \subseteq Nat
                           /\ MaxLeaderboard \in Nat \ {0}
                           /\ MaxSeasons \in Nat /\ MaxScore \in Nat

VARIABLES
    season,          \* id of the current season, 0 before the first
    ended,           \* whether it has ended
    score,           \* SeasonScores of every season
    board,           \* SeasonLeaderboard of every season, best first
    badges           \* accounts holding the TopTrader badge

seasonVars == <<season, ended, score, board, badges>>

\* A board without an account: its first entry is taken out.
Without(b, u) ==
    IF \A i \in DOMAIN b : b[i][1] # u THEN b
    ELSE RemoveAt(b, CHOOSE i \in DOMAIN b : b[i][1] = u /\ \A j \in 1..i - 1 : b[j][1] # u)

\* Where a newcomer stops that moves from the end past the entries below its score.
Place(b, s) ==
    CHOOSE p \in 1..Len(b) + 1 :
        /\ \A i \in p..Len(b) : b[i][2] < s
        /\ p > 1 => b[p - 1][2] >= s

Inserted(b, u, s) == LET rest == Without(b, u) IN InsertAt(rest, Place(rest, s), <<u, s>>)

\* Variant with a fault: the last entry of a full board goes before the newcomer
\* has found its place.
RankedOverLast(b, u, s) ==
    LET rest == Without(b, u)
    IN  Inserted(IF Len(rest) >= MaxLeaderboard THEN Front(rest) ELSE rest, u, s)

Ranked(b, u, s) ==
    LET all == Inserted(b, u, s)
    IN  IF Len(all) > MaxLeaderboard THEN Front(all) ELSE all

SeasonInit ==
    /\ season = 0 /\ ended = FALSE /\ badges = {}
    /\ score = [n \in 1..MaxSeasons |-> [u \in Traders |-> 0]]
    /\ board = [n \in 1..MaxSeasons |-> <<>>]

StartSeason ==
    /\ season = 0 \/ ended
    /\ season < MaxSeasons
    /\ season' = season + 1 /\ ended' = FALSE
    /\ UNCHANGED <<score, board, badges>>

EndSeason ==
    /\ season > 0 /\ ~ended
    /\ ended' = TRUE
    /\ badges' = badges \cup {board[season][i][1] : i \in 1..Len(board[season]) \cap 1..TopN}
    /\ UNCHANGED <<season, score, board>>

UpdateUserScore(u, volume) ==
    LET s == score[season][u] + volume IN
    /\ season > 0 /\ s <= MaxScore
    /\ score' = [score EXCEPT ![season][u] = s]
    /\ board' = [board EXCEPT ![season] = Ranked(@, u, s)]
    /\ UNCHANGED <<season, ended, badges>>

SeasonNext ==
    \/ StartSeason
    \/ EndSeason
    \/ \E u \in Traders, volume \in Volumes : UpdateUserScore(u, volume)

SeasonSpec == SeasonInit /\ [][SeasonNext]_seasonVars

----------------------------------------------------------------------------
SeasonTypeOK ==
    /\ season \in 0..MaxSeasons /\ ended \in BOOLEAN /\ badges \subseteq Traders
    /\ score \in [1..MaxSeasons -> [Traders -> 0..MaxScore]]
    /\ board \in [1..MaxSeasons -> Seq(Traders \X (0..MaxScore))]

Listed(n) == {board[n][i][1] : i \in DOMAIN board[n]}

\* The leaderboard of a season lists an account once, with its score, in order,
\* and nobody left out has more than the last one listed, although an account
\* that fell off keeps its score and may come back (seasons.rs:115).
BoardHoldsTheBest ==
    /\ SeasonTypeOK
    /\ \A n \in 1..MaxSeasons :
        /\ Cardinality(Listed(n)) = Len(board[n])
        /\ \A i \in DOMAIN board[n] :
              /\ board[n][i][2] = score[n][board[n][i][1]]
              /\ i > 1 => board[n][i - 1][2] >= board[n][i][2]
        /\ \A u \in Traders \ Listed(n) :
              \/ score[n][u] = 0
              \/ /\ Len(board[n]) = MaxLeaderboard
                 /\ score[n][u] <= board[n][MaxLeaderboard][2]
=============================================================================
