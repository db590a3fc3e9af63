------------------------------ MODULE MCRules ------------------------------
(***************************************************************************)
(* The rule engine, explored in two ways, and every behaviour does one of  *)
(* them:                                                                   *)
(*                                                                         *)
(* - a play grows card by card, in rank order and taking the suits of a    *)
(*   rank in order, so that every multiset of the checked ranks is reached *)
(*   exactly once, and Analyze is compared with a reference definition;    *)
(*                                                                         *)
(* - a trick is played as the rules alone allow it: some combination is    *)
(*   led and every later one beats the one on the table.                   *)
(***************************************************************************)
EXTENDS DdzRuleEngine

CONSTANTS
  CheckedRanks,  \* the ranks the growing play is made of
  MaxCards       \* bound: the longest growing play

ASSUME CheckedRanksAssumption == CheckedRanks \subseteq 3..BigJoker
ASSUME MaxCardsAssumption == MaxCards \in Nat

VARIABLES
  cards,   \* the growing play
  led,     \* the combination that opened the trick, NoCombo(0) without one
  table,   \* the combination on the table
  beaten   \* has the led combination been beaten?

vars == <<cards, led, table, beaten>>

Copies(r) == IF r >= SmallJoker THEN 1 ELSE 4

(* The card of rank r with copies of its rank already in the play.         *)
CardOf(r, copies) ==
  CASE r = SmallJoker -> 52
    [] r = BigJoker -> 53
    [] OTHER -> (r - 3) + 13 * copies

CountOf(r) == Cardinality({i \in DOMAIN cards : CardRank(cards[i]) = r})

AddCard(r) ==
  /\ led = NoCombo(0)
  /\ Len(cards) < MaxCards
  /\ cards # <<>> => CardRank(cards[Len(cards)]) <= r
  /\ CountOf(r) < Copies(r)
  /\ cards' = Append(cards, CardOf(r, CountOf(r)))
  /\ UNCHANGED <<led, table, beaten>>

CombosOf(type, ranks, counts) ==
  [type : {type}, main_rank : ranks, card_count : counts]

(* Every combination Analyze can return for a hand of one deck, of twenty  *)
(* cards at most.                                                          *)
Combos ==
  UNION {CombosOf("Single", 3..17, {1}), CombosOf("Pair", 3..15, {2}),
         CombosOf("Triple", 3..15, {3}), CombosOf("Bomb", 3..15, {4}),
         CombosOf("TripleOne", 3..15, {4}), CombosOf("TriplePair", 3..15, {5}),
         CombosOf("FourTwoSingles", 3..15, {6}), CombosOf("FourTwoPairs", 3..15, {8}),
         CombosOf("Rocket", {17}, {2}),
         UNION {CombosOf("Straight", (2 + n)..14, {n}) : n \in 5..12},
         UNION {CombosOf("PairStraight", (2 + n)..14, {2 * n}) : n \in 3..10},
         UNION {CombosOf("Plane", (2 + n)..14, {3 * n}) : n \in 2..6},
         UNION {CombosOf("PlaneSingle", (2 + n)..14, {4 * n}) : n \in 2..5},
         UNION {CombosOf("PlanePair", (2 + n)..14, {5 * n}) : n \in 2..4}}

Beat(combo) ==
  /\ led # NoCombo(0)
  /\ CanBeat(combo, table)
  /\ table' = combo
  /\ beaten' = TRUE
  /\ UNCHANGED <<cards, led>>

Init ==
  /\ cards = <<>>
  /\ led \in Combos \cup {NoCombo(0)}
  /\ table = led
  /\ beaten = FALSE

Next ==
  \/ \E r \in CheckedRanks : AddCard(r)
  \/ \E combo \in Combos : Beat(combo)

Spec == Init /\ [][Next]_vars

-----------------------------------------------------------------------------
(* The reference: a multiset is a function from its ranks to their counts. *)

Multiset(ranks) == [r \in ranks |-> CountOf(r)]

Suited == CheckedRanks \cap 3..15
Each(ranks, k) == [r \in ranks |-> k]

(* The runs of at least width ranks from three to ace.                     *)
Runs(width) ==
  {S \in {(low..high) \cap CheckedRanks : low \in 3..14, high \in 3..14} :
     Cardinality(S) >= width /\ \E low \in 3..14, high \in 3..14 : S = low..high}

(* A body of equal counts with other ranks, all wing times, as its wings.  *)
Winged(body, k, wingRanks, wing) ==
  [r \in body \cup wingRanks |-> IF r \in body THEN k ELSE wing]

WingSets(body, size) ==
  {W \in SUBSET (CheckedRanks \ body) : Cardinality(W) = size}

Combinations(type) ==
  CASE type = "Single" -> {Each({r}, 1) : r \in CheckedRanks}
    [] type = "Pair" -> {Each({r}, 2) : r \in Suited}
    [] type = "Triple" -> {Each({r}, 3) : r \in Suited}
    [] type = "Bomb" -> {Each({r}, 4) : r \in Suited}
    [] type = "Rocket" -> {Each({SmallJoker, BigJoker}, 1)}
    [] type = "TripleOne" ->
         UNION {{Winged({r}, 3, W, 1) : W \in WingSets({r}, 1)} : r \in Suited}
    [] type = "TriplePair" ->
         UNION {{Winged({r}, 3, W, 2) : W \in WingSets({r}, 1)} : r \in Suited}
    [] type = "Straight" -> {Each(S, 1) : S \in Runs(5)}
    [] type = "PairStraight" -> {Each(S, 2) : S \in Runs(3)}
    [] type = "Plane" -> {Each(S, 3) : S \in Runs(2)}
    [] type = "PlaneSingle" ->
         UNION {{Winged(S, 3, W, 1) : W \in WingSets(S, Cardinality(S))} : S \in Runs(2)}
    [] type = "PlanePair" ->
         UNION {{Winged(S, 3, W, 2) : W \in WingSets(S, Cardinality(S))} : S \in Runs(2)}
    [] type = "FourTwoSingles" ->
         UNION {{Winged({r}, 4, W, 1) : W \in WingSets({r}, 2)} : r \in Suited}
    [] type = "FourTwoPairs" ->
         UNION {{Winged({r}, 4, W, 2) : W \in WingSets({r}, 2)} : r \in Suited}
    [] OTHER -> {}

CombinationTable == [type \in ComboTypes |-> Combinations(type)]

(* The main rank is the highest of those the play has most of: it never    *)
(* comes from a wing.                                                      *)
MainRankIsOfTheBody(combo, play) ==
  LET most == {r \in DOMAIN play : \A s \in DOMAIN play : play[s] <= play[r]}
  IN combo.main_rank \in most /\ \A r \in most : r <= combo.main_rank

(* Analyze names the one type of the reference whose combinations contain  *)
(* the play, with the main rank of its body, and calls a play of no type   *)
(* invalid: the early returns and the order of the tests in Analyze hide   *)
(* no combination and confuse no two of them.                              *)
AnalyzeNamesTheCombination ==
  LET combo == Analyze(cards)
      play == Multiset(RanksOf(cards))
  IN /\ \A type \in ComboTypes \ {"Invalid"} :
          combo.type = type <=> play \in CombinationTable[type]
     /\ IsValid(combo) => MainRankIsOfTheBody(combo, play)

(* However long the trick, what lies on the table beats what was led and   *)
(* is not beaten by it: beating is transitive, so no two plays of a trick  *)
(* could have been made in the other order and no trick goes round.  And   *)
(* it keeps the number of cards it was led with until a bomb or the rocket *)
(* is played, after which only those follow.                               *)
TrickOnlyRises ==
  beaten =>
    /\ CanBeat(table, led) /\ ~CanBeat(led, table)
    /\ table.type \notin {"Bomb", "Rocket"} =>
         table.card_count = led.card_count /\ led.type \notin {"Bomb", "Rocket"}
=============================================================================
