----------------------------- MODULE RankConfig -----------------------------
(***************************************************************************)
(* config/rank_config.py, the vocabulary that the computation of the ranks *)
(* and the monthly rewards share.                                          *)
(***************************************************************************)
EXTENDS Integers

CONSTANTS
    Users           \* users.id values

RankOrder == <<"unranked", "member", "guide", "leader", "ranger">>
Ranks == {"unranked", "member", "guide", "leader", "ranger"}
RankIndex(r) == CHOOSE i \in 1..5 : RankOrder[i] = r
QualifyingRanks == Ranks \ {"unranked"}
=============================================================================
