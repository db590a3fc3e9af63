--------------------------- MODULE DdzRuleEngine ---------------------------
(***************************************************************************)
(* The card rules of the server (service/rule/ddz_rule_engine.cpp).        *)
(*                                                                         *)
(* A card is its id 0..53, a play is the sequence of ids a request         *)
(* carries, duplicates included: the rule engine looks at ranks only and   *)
(* leaves it to RoomManager to check that the cards are in the hand.       *)
(***************************************************************************)
EXTENDS Integers, Sequences, FiniteSets

-----------------------------------------------------------------------------
(* Ranks: 3..15 are the cards three to two, 16 and 17 the two jokers.      *)

SmallJoker == 16
BigJoker == 17

CardRank(card_id) ==
  CASE card_id \notin 0..53 -> 0
    [] card_id = 52 -> SmallJoker
    [] card_id = 53 -> BigJoker
    [] OTHER -> (card_id % 13) + 3

RanksOf(cards) == {CardRank(cards[i]) : i \in DOMAIN cards}

(* The ranks that occur exactly count times among the cards.               *)
CollectRanksByCount(cards, count) ==
  {r \in RanksOf(cards) :
     Cardinality({i \in DOMAIN cards : CardRank(cards[i]) = r}) = count}

MaxRank(ranks) == CHOOSE r \in ranks : \A s \in ranks : s <= r

(* Consecutive ranks, the highest of them at most top.                     *)
IsRunUpTo(ranks, top) ==
  /\ ranks # {} /\ ranks \subseteq 3..top
  /\ \A r \in ranks : r = MaxRank(ranks) \/ r + 1 \in ranks

(* IsConsecutive and IsValidSequenceRanks, always asked together: a run    *)
(* has neither a two nor a joker.                                          *)
IsRunWithTwo(ranks) == IsRunUpTo(ranks, 15)    \* mutant of IsRun

IsRun(ranks) == IsRunUpTo(ranks, 14)

-----------------------------------------------------------------------------
(* Analyze: the combination a play forms, if it forms one.                 *)

ComboTypes ==
  {"Invalid", "Single", "Pair", "Triple", "TripleOne", "TriplePair",
   "Straight", "PairStraight", "Plane", "PlaneSingle", "PlanePair",
   "FourTwoSingles", "FourTwoPairs", "Bomb", "Rocket"}

NoCombo(n) == [type |-> "Invalid", main_rank |-> 0, card_count |-> n]

(* A combination of n cards is compared by the highest rank of its body,   *)
(* the ranks that are not wings.                                           *)
Combo(type, body, n) ==
  [type |-> type, main_rank |-> MaxRank(body), card_count |-> n]

Analyze(cards) ==
  LET n == Len(cards)
      ranks == RanksOf(cards)
      ones == CollectRanksByCount(cards, 1)
      twos == CollectRanksByCount(cards, 2)
      threes == CollectRanksByCount(cards, 3)
      fours == CollectRanksByCount(cards, 4)
      (* width triples in a run, every other rank a wing, one wing each.   *)
      IsWinged(wings, width) ==
        /\ Cardinality(threes) = width /\ Cardinality(wings) = width
        /\ IsRun(threes) /\ ranks = threes \cup wings
  \* No two of the cases hold of the same cards.
  IN IF n = 0 \/ 0 \in ranks THEN NoCombo(n) ELSE
     CASE n = 1 -> Combo("Single", ranks, n)
       [] n = 2 /\ ranks = {SmallJoker, BigJoker} -> Combo("Rocket", ranks, n)
       [] n = 2 /\ ranks = twos -> Combo("Pair", ranks, n)
       [] n = 3 /\ ranks = threes -> Combo("Triple", ranks, n)
       [] n = 4 /\ ranks = fours -> Combo("Bomb", ranks, n)
       [] n = 4 /\ threes # {} -> Combo("TripleOne", threes, n)
       [] n = 5 /\ threes # {} /\ twos # {} -> Combo("TriplePair", threes, n)
       [] n >= 5 /\ ranks = ones /\ IsRun(ranks) -> Combo("Straight", ranks, n)
       [] n >= 6 /\ ranks = twos /\ IsRun(ranks) -> Combo("PairStraight", ranks, n)
       [] n >= 6 /\ ranks = threes /\ IsRun(ranks) -> Combo("Plane", ranks, n)
       [] n >= 8 /\ n % 4 = 0 /\ IsWinged(ones, n \div 4) ->
            Combo("PlaneSingle", threes, n)
       [] n >= 10 /\ n % 5 = 0 /\ IsWinged(twos, n \div 5) ->
            Combo("PlanePair", threes, n)
       [] n = 6 /\ fours # {} /\ Cardinality(ones) = 2 ->
            Combo("FourTwoSingles", fours, n)
       [] n = 8 /\ fours # {} /\ Cardinality(twos) = 2 ->
            Combo("FourTwoPairs", fours, n)
       [] OTHER -> NoCombo(n)

IsValid(combo) == combo.type # "Invalid"

-----------------------------------------------------------------------------
(* CanBeat: may the challenger be played on the previous combination?      *)

(* The combinations whose length a challenger has to match.                *)
SizedTypes == {"Straight", "PairStraight", "Plane", "PlaneSingle", "PlanePair"}

(* Mutant of CanBeat: an equal rank is accepted.                           *)
CanBeatEqualRank(challenger, previous) ==
  /\ IsValid(challenger)
  /\ \/ ~IsValid(previous)
     \/ challenger.type = "Rocket" /\ previous.type # "Rocket"
     \/ challenger.type = "Bomb" /\ previous.type \notin {"Bomb", "Rocket"}
     \/ /\ challenger.type = previous.type /\ challenger.type # "Rocket"
        /\ challenger.type \in SizedTypes => challenger.card_count = previous.card_count
        /\ challenger.main_rank >= previous.main_rank

CanBeat(challenger, previous) ==
  /\ IsValid(challenger)
  /\ \/ ~IsValid(previous)
     \/ challenger.type = "Rocket" /\ previous.type # "Rocket"
     \/ challenger.type = "Bomb" /\ previous.type \notin {"Bomb", "Rocket"}
     \/ /\ challenger.type = previous.type /\ challenger.type # "Rocket"
        /\ challenger.type \in SizedTypes => challenger.card_count = previous.card_count
        /\ challenger.main_rank > previous.main_rank
=============================================================================
