------------------------ MODULE DdzRuleEngineProofs ------------------------
(***************************************************************************)
(* Theorems about the rule engine: CanBeat orders combinations of every    *)
(* rank and length, a trick only rises however long it is, and Analyze     *)
(* names exactly the combinations of the reference, for every choice of    *)
(* ranks and any number of cards.                                          *)
(***************************************************************************)
EXTENDS MCRules, FiniteSetTheorems, SequenceTheorems, WellFoundedInduction, TLAPS

AnyCombo == [type : ComboTypes, main_rank : Int, card_count : Nat]

(* CanBeat orders the valid combinations strictly: nothing is accepted on  *)
(* itself, ...                                                             *)
THEOREM CanBeatIrreflexive ==
  ASSUME NEW a \in AnyCombo, IsValid(a)
  PROVE  ~CanBeat(a, a)
BY DEF CanBeat, IsValid, AnyCombo

(* ... what beats the play that beats a play beats that play too, so the   *)
(* table of a trick always beats everything played in it before, ...       *)
THEOREM CanBeatTransitive ==
  ASSUME NEW a \in AnyCombo, NEW b \in AnyCombo, NEW c \in AnyCombo,
         IsValid(a), CanBeat(b, a), CanBeat(c, b)
  PROVE  CanBeat(c, a)
BY DEF CanBeat, IsValid, AnyCombo, SizedTypes

(* ... and no two plays could have followed each other in either order.    *)
THEOREM CanBeatAsymmetric ==
  ASSUME NEW a \in AnyCombo, NEW b \in AnyCombo, IsValid(a), CanBeat(b, a)
  PROVE  ~CanBeat(a, b)
<1>1. SUFFICES ASSUME CanBeat(a, b) PROVE FALSE
  OBVIOUS
<1>2. CanBeat(a, a)
  BY <1>1, CanBeatTransitive
<1>3. QED
  BY <1>2, CanBeatIrreflexive

(* The rocket is beaten by nothing: a trick with it on the table is over   *)
(* once the others have passed.                                            *)
THEOREM RocketIsUnbeaten ==
  ASSUME NEW a \in AnyCombo, NEW b \in AnyCombo, b.type = "Rocket"
  PROVE  ~CanBeat(a, b)
BY DEF CanBeat, IsValid, AnyCombo
-----------------------------------------------------------------------------
(* The trick.                                                              *)

UnsizedCount ==
  [type \in ComboTypes \ SizedTypes |->
     CASE type = "Single" -> 1 [] type \in {"Pair", "Rocket"} -> 2 [] type = "Triple" -> 3
       [] type \in {"Bomb", "TripleOne"} -> 4 [] type = "TriplePair" -> 5
       [] type = "FourTwoSingles" -> 6 [] type = "FourTwoPairs" -> 8 [] OTHER -> 0]

(* The type of a combination says how many cards it has, or it is one of   *)
(* those compared by their length.                                         *)
LEMMA CombosAreSized ==
  ASSUME NEW combo \in Combos
  PROVE  /\ combo \in AnyCombo /\ IsValid(combo)
         /\ combo.type \notin SizedTypes => combo.card_count = UnsizedCount[combo.type]
<1> USE DEF CombosOf, AnyCombo, ComboTypes, SizedTypes, UnsizedCount, IsValid
<1>1. CASE combo \in UNION {CombosOf("Single", 3..17, {1}), CombosOf("Pair", 3..15, {2}),
                            CombosOf("Triple", 3..15, {3}), CombosOf("Bomb", 3..15, {4}),
                            CombosOf("TripleOne", 3..15, {4}),
                            CombosOf("TriplePair", 3..15, {5}),
                            CombosOf("FourTwoSingles", 3..15, {6}),
                            CombosOf("FourTwoPairs", 3..15, {8}),
                            CombosOf("Rocket", {17}, {2})}
  BY <1>1
<1>2. ASSUME NEW n \in 2..12, NEW k \in 1..5, NEW type \in SizedTypes,
             combo \in CombosOf(type, (2 + n)..14, {k * n})
      PROVE  combo \in AnyCombo /\ combo.type = type
  <2>1. k * n \in Nat
    OBVIOUS
  <2>2. QED
    BY <1>2, <2>1
<1>3. QED
  BY <1>1, <1>2 DEF Combos

(* Of two plays other than bombs and the rocket, the one that beats the    *)
(* other has its type and its number of cards.                             *)
LEMMA BeatingKeepsTheCount ==
  ASSUME NEW a \in Combos, NEW b \in Combos, CanBeat(b, a), b.type \notin {"Bomb", "Rocket"}
  PROVE  a.type = b.type /\ a.card_count = b.card_count
<1>1. /\ b.type = a.type
      /\ b.type \in SizedTypes => b.card_count = a.card_count
  BY CombosAreSized DEF CanBeat
<1>2. QED
  BY <1>1, CombosAreSized

(* What a trick keeps to: until it is beaten the led combination lies on   *)
(* the table.                                                              *)
TrickInv ==
  /\ led \in Combos \cup {NoCombo(0)}
  /\ beaten \in BOOLEAN
  /\ beaten => led \in Combos /\ table \in Combos
  /\ ~beaten => table = led
  /\ TrickOnlyRises

(* However many plays a trick has, its table beats what was led and is not *)
(* beaten by it, and its number of cards changes only with a bomb or the   *)
(* rocket: with the code's CanBeat no trick can go round.                  *)
THEOREM TricksRise == Spec => []TrickOnlyRises
<1>1. Init => TrickInv
  BY DEF Init, TrickInv, TrickOnlyRises
<1>2. TrickInv /\ [Next]_vars => TrickInv'
  <2>1. SUFFICES ASSUME TrickInv, [Next]_vars PROVE TrickInv'
    OBVIOUS
  <2>2. CASE UNCHANGED <<led, table, beaten>>
    BY <2>1, <2>2 DEF TrickInv, TrickOnlyRises
  <2>3. ASSUME NEW combo \in Combos, Beat(combo) PROVE TrickInv'
    <3>1. /\ table' = combo /\ beaten' = TRUE /\ led' = led
          /\ CanBeat(combo, table) /\ led \in Combos
      BY <2>1, <2>3 DEF Beat, TrickInv
    <3>2. /\ led \in AnyCombo /\ IsValid(led) /\ combo \in AnyCombo /\ IsValid(combo)
      BY <3>1, CombosAreSized
    <3>3. CASE ~beaten
      <4>1. CanBeat(combo, led)
        BY <2>1, <3>1, <3>3 DEF TrickInv
      <4>2. ~CanBeat(led, combo)
        BY <3>2, <4>1, CanBeatAsymmetric
      <4>3. combo.type \notin {"Bomb", "Rocket"} =>
              combo.type = led.type /\ combo.card_count = led.card_count
        BY <3>1, <4>1, BeatingKeepsTheCount
      <4>4. QED
        BY <3>1, <4>1, <4>2, <4>3 DEF TrickInv, TrickOnlyRises
    <3>4. CASE beaten
      <4>1. table \in Combos /\ CanBeat(table, led)
        BY <2>1, <3>4 DEF TrickInv, TrickOnlyRises
      <4>2. CanBeat(combo, led)
        BY <3>1, <3>2, <4>1, CombosAreSized, CanBeatTransitive
      <4>3. ~CanBeat(led, combo)
        BY <3>2, <4>2, CanBeatAsymmetric
      <4>4. combo.type \notin {"Bomb", "Rocket"} =>
              combo.type = table.type /\ combo.card_count = table.card_count
        BY <3>1, <4>1, BeatingKeepsTheCount
      <4>5. combo.type \notin {"Bomb", "Rocket"} =>
              combo.card_count = led.card_count /\ led.type \notin {"Bomb", "Rocket"}
        BY <2>1, <3>4, <4>4 DEF TrickInv, TrickOnlyRises
      <4>6. QED
        BY <3>1, <4>2, <4>3, <4>5 DEF TrickInv, TrickOnlyRises
    <3>5. QED
      BY <2>1, <3>3, <3>4 DEF TrickInv
  <2>4. QED
    BY <2>1, <2>2, <2>3 DEF Next, AddCard, vars
<1>3. TrickInv => TrickOnlyRises
  BY DEF TrickInv
<1>4. QED
  BY <1>1, <1>2, <1>3, PTL DEF Spec
-----------------------------------------------------------------------------
(* The growing play: its ranks, and how often each occurs.                 *)

Ranks == RanksOf(cards)
Times(k) == CollectRanksByCount(cards, k)

(* What Analyze relies on, of cards of one deck: no rank occurs more than  *)
(* four times, and every card counts for its rank.                         *)
PlayInv ==
  /\ cards \in Seq(0..53)
  /\ Ranks \subseteq CheckedRanks
  /\ \A r \in Ranks : CountOf(r) \in 1..Copies(r)
  /\ Len(cards) = Cardinality(Times(1)) + 2 * Cardinality(Times(2))
                    + 3 * Cardinality(Times(3)) + 4 * Cardinality(Times(4))

LEMMA TimesAre ==
  /\ \A k : Times(k) = {r \in Ranks : CountOf(r) = k}
  /\ \A k : Times(k)' = {r \in Ranks' : CountOf(r)' = k}
BY DEF Times, Ranks, CountOf, CollectRanksByCount

LEMMA RanksAreFinite ==
  ASSUME Ranks \subseteq CheckedRanks
  PROVE  /\ \A S \in SUBSET Ranks : IsFiniteSet(S) /\ Cardinality(S) \in Nat
         /\ \A k : IsFiniteSet(Times(k)) /\ Cardinality(Times(k)) \in Nat
<1>0. 3 \in Int /\ 17 \in Int
  OBVIOUS
<1>1. IsFiniteSet(3..17)
  BY <1>0, FS_Interval, Zenon
<1>2. Ranks \subseteq 3..17
  BY CheckedRanksAssumption DEF BigJoker
<1>3. \A S \in SUBSET Ranks : IsFiniteSet(S)
  BY <1>1, <1>2, FS_Subset
<1>4. \A k : Times(k) \in SUBSET Ranks
  BY TimesAre
<1>5. QED
  BY <1>3, <1>4, FS_CardinalityType

(* The card AddCard takes has the rank it is asked for.                    *)
LEMMA RankOfCard ==
  ASSUME NEW r \in 3..17, NEW k \in Nat, k < Copies(r)
  PROVE  CardOf(r, k) \in 0..53 /\ CardRank(CardOf(r, k)) = r
<1>1. CASE r >= SmallJoker
  BY <1>1 DEF CardOf, CardRank, SmallJoker, BigJoker
<1>2. CASE r < SmallJoker
  <2>1. k \in 0..3 /\ r - 3 \in 0..12
    BY <1>2 DEF Copies, SmallJoker
  <2>2. CardOf(r, k) = (r - 3) + 13 * k
    BY <1>2 DEF CardOf, SmallJoker, BigJoker
  <2>3. (r - 3) + 13 * k \in 0..51
    BY <2>1
  <2>4. ((r - 3) + 13 * k) % 13 = r - 3
    BY <2>1
  <2>5. \A c \in 0..51 : c \in 0..53 /\ CardRank(c) = (c % 13) + 3
    BY DEF CardRank
  <2>6. QED
    BY <2>2, <2>3, <2>4, <2>5
<1>3. QED
  BY <1>1, <1>2 DEF SmallJoker

(* AddCard counts one more of its rank.                                    *)
LEMMA OneMore ==
  ASSUME PlayInv, NEW r \in CheckedRanks, AddCard(r)
  PROVE  /\ cards' \in Seq(0..53)
         /\ Len(cards') = Len(cards) + 1
         /\ Ranks' = Ranks \cup {r}
         /\ CountOf(r) \in Nat /\ CountOf(r) < Copies(r)
         /\ CountOf(r)' = CountOf(r) + 1
         /\ \A s : s # r => CountOf(s)' = CountOf(s)
<1> DEFINE n == Len(cards)
           card == CardOf(r, CountOf(r))
           At(s) == {i \in DOMAIN cards : CardRank(cards[i]) = s}
<1>1. /\ cards \in Seq(0..53) /\ n \in Nat
      /\ DOMAIN cards = 1..n
  BY DEF PlayInv
<1>2. \A s : IsFiniteSet(At(s)) /\ At(s) \subseteq 1..n
  <2>1. IsFiniteSet(1..n)
    BY <1>1, FS_Interval
  <2>2. QED
    BY <1>1, <2>1, FS_Subset
<1>3. \A s : CountOf(s) = Cardinality(At(s)) /\ CountOf(s) \in Nat
  BY <1>2, FS_CardinalityType DEF CountOf
<1>4. CountOf(r) < Copies(r) /\ cards' = Append(cards, card)
  BY DEF AddCard
<1>5. r \in 3..17
  BY CheckedRanksAssumption DEF BigJoker
<1>6. card \in 0..53 /\ CardRank(card) = r
  BY <1>3, <1>4, <1>5, RankOfCard
<1> HIDE DEF card
<1>7. /\ cards' \in Seq(0..53) /\ Len(cards') = n + 1
      /\ cards'[n + 1] = card /\ \A i \in 1..n : cards'[i] = cards[i]
      /\ DOMAIN cards' = 1..(n + 1)
  BY <1>1, <1>4, <1>6, AppendProperties
<1>8. Ranks' = Ranks \cup {r}
  <2>1. 1..(n + 1) = (1..n) \cup {n + 1}
    BY <1>1
  <2>2. QED
    BY <1>1, <1>6, <1>7, <2>1 DEF Ranks, RanksOf
<1>9. CountOf(r)' = CountOf(r) + 1
  <2>1. {i \in DOMAIN cards' : CardRank(cards'[i]) = r} = At(r) \cup {n + 1}
    BY <1>1, <1>6, <1>7
  <2>2. n + 1 \notin At(r)
    BY <1>1, <1>2
  <2>3. Cardinality(At(r) \cup {n + 1}) = Cardinality(At(r)) + 1
    BY <1>2, <2>2, FS_AddElement
  <2>4. QED
    BY <1>3, <2>1, <2>3 DEF CountOf
<1>10. ASSUME NEW s, s # r PROVE CountOf(s)' = CountOf(s)
  <2>1. {i \in DOMAIN cards' : CardRank(cards'[i]) = s} = At(s)
    BY <1>1, <1>6, <1>7, <1>10
  <2>2. QED
    BY <2>1 DEF CountOf
<1>11. QED
  BY <1>3, <1>4, <1>7, <1>8, <1>9, <1>10

LEMMA PlayGrows ==
  ASSUME PlayInv, NEW r \in CheckedRanks, AddCard(r)
  PROVE  PlayInv'
<1> DEFINE Size(j) == Cardinality(Times(j))
<1>1. /\ cards' \in Seq(0..53)
      /\ Len(cards') = Len(cards) + 1
      /\ Ranks' = Ranks \cup {r}
      /\ CountOf(r) \in Nat /\ CountOf(r) < Copies(r)
      /\ CountOf(r)' = CountOf(r) + 1
      /\ \A s : s # r => CountOf(s)' = CountOf(s)
  BY OneMore
<1>2. /\ Ranks \subseteq CheckedRanks /\ Ranks' \subseteq CheckedRanks
      /\ \A s \in Ranks : CountOf(s) \in 1..Copies(s)
  BY <1>1 DEF PlayInv
<1>3. PICK k \in 0..3 : CountOf(r) = k /\ CountOf(r)' = k + 1 /\ k + 1 <= Copies(r)
  BY <1>1 DEF Copies
<1>4. \A j : IsFiniteSet(Times(j)) /\ Size(j) \in Nat
  BY <1>2, RanksAreFinite
<1>5. r \in Ranks => k # 0
  BY <1>2, <1>3
<1>6. \A s \in Ranks' : CountOf(s)' \in 1..Copies(s)'
  BY <1>1, <1>2, <1>3 DEF Copies
<1>7. r \notin Ranks => k = 0
  <2>1. SUFFICES ASSUME r \notin Ranks PROVE {i \in DOMAIN cards : CardRank(cards[i]) = r} = {}
    BY <1>3, FS_EmptySet DEF CountOf
  <2>2. QED
    BY <2>1 DEF Ranks, RanksOf
<1>8. /\ k # 0 => r \in Times(k)
      /\ r \notin Times(k + 1)
  BY <1>1, <1>3, <1>7, TimesAre
<1>9. Times(k + 1)' = Times(k + 1) \cup {r}
  BY <1>1, <1>3, TimesAre
<1>10. k # 0 => Times(k)' = Times(k) \ {r}
  BY <1>1, <1>3, TimesAre
<1>11. \A j \in 1..4 : j # k /\ j # k + 1 => Times(j)' = Times(j)
  BY <1>1, <1>3, TimesAre
<1>12. Size(k + 1)' = Size(k + 1) + 1
  BY <1>4, <1>8, <1>9, FS_AddElement
<1>13. k # 0 => Size(k)' = Size(k) - 1
  BY <1>4, <1>8, <1>10, FS_RemoveElement
<1>14. Len(cards) = Size(1) + 2 * Size(2) + 3 * Size(3) + 4 * Size(4)
  BY DEF PlayInv
<1>15. \A j \in 1..4 : j # k /\ j # k + 1 => Size(j)' = Size(j)
  BY <1>11
<1> HIDE DEF Size
<1>16. Len(cards') = Size(1)' + 2 * Size(2)' + 3 * Size(3)' + 4 * Size(4)'
  <2>0. Len(cards') = Len(cards) + 1
    BY <1>1
  <2>1. Size(1) \in Nat /\ Size(2) \in Nat /\ Size(3) \in Nat /\ Size(4) \in Nat
    BY <1>4
  <2>2. CASE k = 0
    <3>1. Size(1)' = Size(1) + 1
      BY <1>12, <2>2
    <3>2. Size(2)' = Size(2) /\ Size(3)' = Size(3) /\ Size(4)' = Size(4)
      BY <1>15, <2>2
    <3>3. (Size(1) + 1) + 2 * Size(2) + 3 * Size(3) + 4 * Size(4)
            = Size(1) + 2 * Size(2) + 3 * Size(3) + 4 * Size(4) + 1
      BY <2>1
    <3>4. QED
      BY <1>14, <2>0, <3>1, <3>2, <3>3, Zenon
  <2>3. CASE k = 1
    <3>1. Size(2)' = Size(2) + 1 /\ Size(1)' = Size(1) - 1
      BY <1>12, <1>13, <2>3
    <3>2. Size(3)' = Size(3) /\ Size(4)' = Size(4)
      BY <1>15, <2>3
    <3>3. (Size(1) - 1) + 2 * (Size(2) + 1) + 3 * Size(3) + 4 * Size(4)
            = Size(1) + 2 * Size(2) + 3 * Size(3) + 4 * Size(4) + 1
      BY <2>1
    <3>4. QED
      BY <1>14, <2>0, <3>1, <3>2, <3>3, Zenon
  <2>4. CASE k = 2
    <3>1. Size(3)' = Size(3) + 1 /\ Size(2)' = Size(2) - 1
      BY <1>12, <1>13, <2>4
    <3>2. Size(1)' = Size(1) /\ Size(4)' = Size(4)
      BY <1>15, <2>4
    <3>3. Size(1) + 2 * (Size(2) - 1) + 3 * (Size(3) + 1) + 4 * Size(4)
            = Size(1) + 2 * Size(2) + 3 * Size(3) + 4 * Size(4) + 1
      BY <2>1
    <3>4. QED
      BY <1>14, <2>0, <3>1, <3>2, <3>3, Zenon
  <2>5. CASE k = 3
    <3>1. Size(4)' = Size(4) + 1 /\ Size(3)' = Size(3) - 1
      BY <1>12, <1>13, <2>5
    <3>2. Size(1)' = Size(1) /\ Size(2)' = Size(2)
      BY <1>15, <2>5
    <3>3. Size(1) + 2 * Size(2) + 3 * (Size(3) - 1) + 4 * (Size(4) + 1)
            = Size(1) + 2 * Size(2) + 3 * Size(3) + 4 * Size(4) + 1
      BY <2>1
    <3>4. QED
      BY <1>14, <2>0, <3>1, <3>2, <3>3, Zenon
  <2>6. QED
    BY <1>3, <2>2, <2>3, <2>4, <2>5
<1>17. QED
  BY <1>1, <1>2, <1>6, <1>16 DEF PlayInv, Size
-----------------------------------------------------------------------------
(* Ranks and runs.                                                         *)

(* A set of numbers that is not empty has a least one.                     *)
LEMMA LeastNumber ==
  ASSUME NEW T \in SUBSET Nat, T # {}
  PROVE  \E x \in T : \A y \in T : x <= y
<1>1. PICK x \in T : \A y \in T : <<y, x>> \notin OpToRel(<, Nat)
  BY NatLessThanWellFounded, WFMin
<1>2. \A y \in T : ~(y < x)
  BY <1>1 DEF OpToRel
<1>3. QED
  BY <1>2

LEMMA GreatestRank ==
  ASSUME NEW S \in SUBSET (3..17), S # {}
  PROVE  MaxRank(S) \in S /\ \A r \in S : r <= MaxRank(S)
<1> DEFINE T == {17 - r : r \in S}
<1>1. T \in SUBSET Nat /\ T # {}
  <2>1. \A r \in S : 17 - r \in Nat
    OBVIOUS
  <2>2. PICK r \in S : TRUE
    OBVIOUS
  <2>3. QED
    BY <2>1, <2>2
<1>2. PICK x \in T : \A y \in T : x <= y
  <2> HIDE DEF T
  <2>1. QED
    BY <1>1, LeastNumber
<1>3. PICK top \in S : x = 17 - top
  BY <1>2, Zenon
<1>4. \A r \in S : 17 - top <= 17 - r
  BY <1>2, <1>3
<1>5. \A r \in S : r <= top
  BY <1>4
<1>6. QED
  BY <1>5 DEF MaxRank

(* A run as the code tests for it, rank by rank, has no gap.               *)
LEMMA RunsHaveNoGap ==
  ASSUME NEW S, IsRun(S)
  PROVE  \E low \in 3..14, high \in 3..14 : S = low..high
<1>1. /\ S # {} /\ S \subseteq 3..14
      /\ \A r \in S : r = MaxRank(S) \/ r + 1 \in S
  BY DEF IsRun, IsRunUpTo
<1>2. PICK high : high = MaxRank(S)
  OBVIOUS
<1>3. high \in S /\ \A r \in S : r <= high
  <2>1. S \in SUBSET (3..17)
    BY <1>1
  <2>2. QED
    BY <1>1, <1>2, <2>1, GreatestRank
<1>4. S \in SUBSET Nat
  BY <1>1
<1>5. PICK low \in S : \A r \in S : low <= r
  BY <1>1, <1>4, LeastNumber
<1> DEFINE Gap == (low..high) \ S
<1>6. Gap = {}
  <2>1. SUFFICES ASSUME Gap # {} PROVE FALSE
    OBVIOUS
  <2>2. Gap \in SUBSET Nat
    BY <1>1, <1>3, <1>5
  <2>3. PICK x \in Gap : \A y \in Gap : x <= y
    <3> HIDE DEF Gap
    <3>1. QED
      BY <2>1, <2>2, LeastNumber
  <2>4. x \in Nat /\ low < x /\ x <= high /\ x \notin S
    BY <1>1, <1>3, <1>5
  <2>5. x - 1 \in low..high /\ x - 1 \notin Gap
    BY <1>1, <1>3, <1>5, <2>3, <2>4
  <2>6. x - 1 \in S /\ x - 1 # high
    BY <1>1, <1>3, <2>4, <2>5
  <2>7. x - 1 + 1 \in S
    BY <1>1, <1>2, <2>6
  <2>8. QED
    BY <2>4, <2>7
<1>7. S \subseteq low..high
  BY <1>1, <1>3, <1>5
<1>8. S = low..high
  BY <1>6, <1>7
<1>9. QED
  BY <1>1, <1>3, <1>5, <1>8

(* Stretches of the checked ranks.                                         *)
Stretches(ends) == {(low..high) \cap CheckedRanks : low \in ends, high \in ends}

LEMMA StretchBetween ==
  ASSUME NEW ends, NEW low \in ends, NEW high \in ends
  PROVE  (low..high) \cap CheckedRanks \in Stretches(ends)
BY DEF Stretches

LEMMA RunsAreStretches ==
  \A width : Runs(width) =
    {S \in Stretches(3..14) :
       Cardinality(S) >= width /\ \E low \in 3..14, high \in 3..14 : S = low..high}
BY DEF Runs, Stretches

(* The runs of the reference are those the code finds.                     *)
LEMMA RunsAre ==
  ASSUME NEW S, NEW width \in Nat \ {0}
  PROVE  S \in Runs(width) <=>
           S \subseteq CheckedRanks /\ IsRun(S) /\ Cardinality(S) >= width
<1>1. ASSUME S \in Runs(width)
      PROVE  S \subseteq CheckedRanks /\ IsRun(S) /\ Cardinality(S) >= width
  <2>1. S \subseteq CheckedRanks /\ Cardinality(S) >= width
    BY <1>1 DEF Runs
  <2>2. PICK low \in 3..14, high \in 3..14 : S = low..high
    BY <1>1 DEF Runs
  <2>3. S # {}
    BY <2>1, FS_EmptySet
  <2>4. S \subseteq 3..14 /\ S \in SUBSET (3..17)
    BY <2>2
  <2>5. MaxRank(S) \in S /\ \A r \in S : r <= MaxRank(S)
    BY <2>3, <2>4, GreatestRank
  <2>6. high \in S
    BY <2>2, <2>3
  <2>7. MaxRank(S) = high
    BY <2>2, <2>5, <2>6
  <2>8. \A r \in S : r = MaxRank(S) \/ r + 1 \in S
    BY <2>2, <2>7
  <2>9. QED
    BY <2>1, <2>3, <2>4, <2>8 DEF IsRun, IsRunUpTo
<1>2. ASSUME S \subseteq CheckedRanks, IsRun(S), Cardinality(S) >= width
      PROVE  S \in Runs(width)
  <2>1. PICK low \in 3..14, high \in 3..14 : S = low..high
    BY <1>2, RunsHaveNoGap
  <2>2. S = (low..high) \cap CheckedRanks
    BY <1>2, <2>1
  <2>3. S \in Stretches(3..14)
    BY <2>1, <2>2, StretchBetween, Zenon
  <2>4. QED
    BY <1>2, <2>1, <2>3, RunsAreStretches
<1>3. QED
  BY <1>1, <1>2

-----------------------------------------------------------------------------
(* The multisets of the reference, by the ranks that occur so many times.  *)

LEMMA EachMeans ==
  ASSUME NEW S, NEW k
  PROVE  Multiset(Ranks) = Each(S, k) <=> Ranks = S /\ Times(k) = S
<1>1. \A r \in Ranks : r \in Times(k) <=> CountOf(r) = k
  BY TimesAre
<1>2. Times(k) \subseteq Ranks
  BY TimesAre
<1>3. ASSUME Multiset(Ranks) = Each(S, k) PROVE Ranks = S /\ Times(k) = S
  <2>1. Ranks = S
    BY <1>3 DEF Multiset, Each
  <2>2. \A r \in S : CountOf(r) = k
    BY <1>3, <2>1 DEF Multiset, Each
  <2>3. QED
    BY <1>1, <1>2, <2>1, <2>2
<1>4. ASSUME Ranks = S, Times(k) = S PROVE Multiset(Ranks) = Each(S, k)
  BY <1>1, <1>4 DEF Multiset, Each
<1>5. QED
  BY <1>3, <1>4

LEMMA WingedMeans ==
  ASSUME NEW body, NEW wings, NEW k, NEW j, k # j, body \cap wings = {}
  PROVE  Multiset(Ranks) = Winged(body, k, wings, j) <=>
           Ranks = body \cup wings /\ Times(k) = body /\ Times(j) = wings
<1>1. \A r \in Ranks : /\ r \in Times(k) <=> CountOf(r) = k
                       /\ r \in Times(j) <=> CountOf(r) = j
  BY TimesAre
<1>2. Times(k) \subseteq Ranks /\ Times(j) \subseteq Ranks
  BY TimesAre
<1>3. ASSUME Multiset(Ranks) = Winged(body, k, wings, j)
      PROVE  Ranks = body \cup wings /\ Times(k) = body /\ Times(j) = wings
  <2>1. Ranks = body \cup wings
    BY <1>3 DEF Multiset, Winged
  <2>2. \A r \in Ranks : CountOf(r) = IF r \in body THEN k ELSE j
    BY <1>3, <2>1 DEF Multiset, Winged
  <2>3. QED
    BY <1>1, <1>2, <2>1, <2>2
<1>4. ASSUME Ranks = body \cup wings, Times(k) = body, Times(j) = wings
      PROVE  Multiset(Ranks) = Winged(body, k, wings, j)
  <2>1. \A r \in Ranks : CountOf(r) = IF r \in body THEN k ELSE j
    BY <1>1, <1>4
  <2>2. QED
    BY <1>4, <2>1 DEF Multiset, Winged
<1>5. QED
  BY <1>3, <1>4
-----------------------------------------------------------------------------
(* The forms a play can have, by how many ranks occur once, twice, three   *)
(* and four times.                                                         *)

FormTypes == ComboTypes \ {"Invalid"}

HasForm(type, one, two, three, four) ==
  CASE type = "Single" -> one = 1 /\ two = 0 /\ three = 0 /\ four = 0
    [] type = "Rocket" -> one = 2 /\ two = 0 /\ three = 0 /\ four = 0
    [] type = "Straight" -> one >= 5 /\ two = 0 /\ three = 0 /\ four = 0
    [] type = "Pair" -> one = 0 /\ two = 1 /\ three = 0 /\ four = 0
    [] type = "PairStraight" -> one = 0 /\ two >= 3 /\ three = 0 /\ four = 0
    [] type = "Triple" -> one = 0 /\ two = 0 /\ three = 1 /\ four = 0
    [] type = "Plane" -> one = 0 /\ two = 0 /\ three >= 2 /\ four = 0
    [] type = "TripleOne" -> one = 1 /\ two = 0 /\ three = 1 /\ four = 0
    [] type = "PlaneSingle" -> one = three /\ two = 0 /\ three >= 2 /\ four = 0
    [] type = "TriplePair" -> one = 0 /\ two = 1 /\ three = 1 /\ four = 0
    [] type = "PlanePair" -> one = 0 /\ two = three /\ three >= 2 /\ four = 0
    [] type = "Bomb" -> one = 0 /\ two = 0 /\ three = 0 /\ four = 1
    [] type = "FourTwoSingles" -> one = 2 /\ two = 0 /\ three = 0 /\ four = 1
    [] type = "FourTwoPairs" -> one = 0 /\ two = 2 /\ three = 0 /\ four = 1
    [] OTHER -> FALSE

(* How often the ranks of the body occur.                                  *)
BodyTimes(type) ==
  CASE type \in {"Single", "Rocket", "Straight"} -> 1
    [] type \in {"Pair", "PairStraight"} -> 2
    [] type \in {"Bomb", "FourTwoSingles", "FourTwoPairs"} -> 4
    [] OTHER -> 3

Body(type) == Times(BodyTimes(type))

Form(type) ==
  /\ HasForm(type, Cardinality(Times(1)), Cardinality(Times(2)),
                   Cardinality(Times(3)), Cardinality(Times(4)))
  /\ type \in SizedTypes => IsRun(Body(type))
  /\ type = "Rocket" => Ranks = {SmallJoker, BigJoker}

(* No two forms are those of the same play.                                *)
LEMMA FormsExclude ==
  ASSUME NEW one \in Nat, NEW two \in Nat, NEW three \in Nat, NEW four \in Nat,
         NEW a \in FormTypes, NEW b \in FormTypes,
         HasForm(a, one, two, three, four), HasForm(b, one, two, three, four)
  PROVE  a = b
BY DEF HasForm, FormTypes, ComboTypes

LEMMA PlayFacts ==
  ASSUME PlayInv
  PROVE  /\ \A k : Cardinality(Times(k)) \in Nat /\ IsFiniteSet(Times(k))
         /\ \A k : Times(k) = {} <=> Cardinality(Times(k)) = 0
         /\ \A k, j : k # j => Times(k) \cap Times(j) = {}
         /\ Ranks = Times(1) \cup Times(2) \cup Times(3) \cup Times(4)
         /\ Ranks \subseteq CheckedRanks /\ Ranks \subseteq 3..17
         /\ \A k \in 2..4 : Times(k) \subseteq Suited
<1>1. Ranks \subseteq CheckedRanks /\ \A r \in Ranks : CountOf(r) \in 1..Copies(r)
  BY DEF PlayInv
<1>2. Ranks \subseteq 3..17
  BY <1>1, CheckedRanksAssumption DEF BigJoker
<1>3. \A k : Cardinality(Times(k)) \in Nat /\ IsFiniteSet(Times(k))
  BY <1>1, RanksAreFinite
<1>4. \A k : Times(k) = {} <=> Cardinality(Times(k)) = 0
  BY <1>3, FS_EmptySet
<1>5. \A k, j : k # j => Times(k) \cap Times(j) = {}
  BY TimesAre
<1>6. Ranks = Times(1) \cup Times(2) \cup Times(3) \cup Times(4)
  <2>1. \A r \in Ranks : CountOf(r) \in 1..4
    BY <1>1 DEF Copies
  <2>2. \A r \in Ranks : CountOf(r) = 1 \/ CountOf(r) = 2 \/ CountOf(r) = 3 \/ CountOf(r) = 4
    BY <2>1
  <2>3. QED
    BY <2>2, TimesAre
<1>7. ASSUME NEW k \in 2..4, NEW r \in Times(k) PROVE r \in Suited
  <2>1. r \in Ranks /\ CountOf(r) = k
    BY <1>7, TimesAre
  <2>2. r \in 3..17 /\ Copies(r) >= 2
    BY <1>1, <1>2, <2>1 DEF Copies
  <2>3. r \in 3..15
    BY <2>2 DEF Copies, SmallJoker
  <2>4. QED
    BY <1>1, <2>1, <2>3 DEF Suited
<1>8. QED
  BY <1>1, <1>2, <1>3, <1>4, <1>5, <1>6, <1>7

(* The ranks of a play, when none or only some occur so many times.        *)
LEMMA RanksByTimes ==
  ASSUME PlayInv
  PROVE  LET size(k) == Cardinality(Times(k))
         IN /\ Ranks = Times(1) <=> size(2) = 0 /\ size(3) = 0 /\ size(4) = 0
            /\ Ranks = Times(2) <=> size(1) = 0 /\ size(3) = 0 /\ size(4) = 0
            /\ Ranks = Times(3) <=> size(1) = 0 /\ size(2) = 0 /\ size(4) = 0
            /\ Ranks = Times(4) <=> size(1) = 0 /\ size(2) = 0 /\ size(3) = 0
            /\ Ranks = Times(3) \cup Times(1) <=> size(2) = 0 /\ size(4) = 0
            /\ Ranks = Times(3) \cup Times(2) <=> size(1) = 0 /\ size(4) = 0
            /\ Ranks = Times(4) \cup Times(1) <=> size(2) = 0 /\ size(3) = 0
            /\ Ranks = Times(4) \cup Times(2) <=> size(1) = 0 /\ size(3) = 0
<1>1. PICK T1, T2, T3, T4 : T1 = Times(1) /\ T2 = Times(2) /\ T3 = Times(3) /\ T4 = Times(4)
  OBVIOUS
<1>2. /\ T1 \cap T2 = {} /\ T1 \cap T3 = {} /\ T1 \cap T4 = {}
      /\ T2 \cap T3 = {} /\ T2 \cap T4 = {} /\ T3 \cap T4 = {}
  BY <1>1, PlayFacts
<1>3. Ranks = T1 \cup T2 \cup T3 \cup T4
  BY <1>1, PlayFacts
<1>4. /\ T1 = {} <=> Cardinality(T1) = 0
      /\ T2 = {} <=> Cardinality(T2) = 0
      /\ T3 = {} <=> Cardinality(T3) = 0
      /\ T4 = {} <=> Cardinality(T4) = 0
  BY <1>1, PlayFacts
<1>5. /\ Ranks = T1 <=> T2 = {} /\ T3 = {} /\ T4 = {}
      /\ Ranks = T2 <=> T1 = {} /\ T3 = {} /\ T4 = {}
      /\ Ranks = T3 <=> T1 = {} /\ T2 = {} /\ T4 = {}
      /\ Ranks = T4 <=> T1 = {} /\ T2 = {} /\ T3 = {}
  BY <1>2, <1>3
<1>6. /\ Ranks = T3 \cup T1 <=> T2 = {} /\ T4 = {}
      /\ Ranks = T3 \cup T2 <=> T1 = {} /\ T4 = {}
      /\ Ranks = T4 \cup T1 <=> T2 = {} /\ T3 = {}
      /\ Ranks = T4 \cup T2 <=> T1 = {} /\ T3 = {}
  BY <1>2, <1>3
<1>7. QED
  BY <1>1, <1>4, <1>5, <1>6
-----------------------------------------------------------------------------
(* Analyze finds the form of a play.                                       *)

LEMMA AnalyzeFindsTheForm ==
  ASSUME PlayInv
  PROVE  /\ \A type \in FormTypes :
              Form(type) => Analyze(cards) = Combo(type, Body(type), Len(cards))
         /\ (\A type \in FormTypes : ~Form(type)) => Analyze(cards) = NoCombo(Len(cards))
<1> DEFINE n == Len(cards)
           T1 == Times(1)
           T2 == Times(2)
           T3 == Times(3)
           T4 == Times(4)
           one == Cardinality(T1)
           two == Cardinality(T2)
           three == Cardinality(T3)
           four == Cardinality(T4)
<1>1. one \in Nat /\ two \in Nat /\ three \in Nat /\ four \in Nat
  BY PlayFacts
<1>2. n = one + 2 * two + 3 * three + 4 * four
  BY DEF PlayInv
<1>3. /\ T2 = {} <=> two = 0
      /\ T3 = {} <=> three = 0
      /\ T4 = {} <=> four = 0
  BY PlayFacts
<1>4. /\ Ranks = T1 <=> two = 0 /\ three = 0 /\ four = 0
      /\ Ranks = T2 <=> one = 0 /\ three = 0 /\ four = 0
      /\ Ranks = T3 <=> one = 0 /\ two = 0 /\ four = 0
      /\ Ranks = T4 <=> one = 0 /\ two = 0 /\ three = 0
      /\ Ranks = T3 \cup T1 <=> two = 0 /\ four = 0
      /\ Ranks = T3 \cup T2 <=> one = 0 /\ four = 0
  BY RanksByTimes
<1>5. 0 \notin Ranks
  BY PlayFacts
<1>6. Ranks = {SmallJoker, BigJoker} => two = 0
  <2>1. Ranks = {SmallJoker, BigJoker} => T2 = {}
    BY PlayFacts DEF Suited, SmallJoker, BigJoker
  <2>2. QED
    BY <1>3, <2>1
<1> DEFINE IsSingle == n = 1
           IsRocket == n = 2 /\ Ranks = {SmallJoker, BigJoker}
           IsPair == n = 2 /\ Ranks = T2
           IsTriple == n = 3 /\ Ranks = T3
           IsBomb == n = 4 /\ Ranks = T4
           IsTripleOne == n = 4 /\ T3 # {}
           IsTriplePair == n = 5 /\ T3 # {} /\ T2 # {}
           IsStraight == n >= 5 /\ Ranks = T1 /\ IsRun(Ranks)
           IsPairStraight == n >= 6 /\ Ranks = T2 /\ IsRun(Ranks)
           IsPlane == n >= 6 /\ Ranks = T3 /\ IsRun(Ranks)
           IsPlaneSingle == /\ n >= 8 /\ n % 4 = 0 /\ three = n \div 4 /\ one = n \div 4
                         /\ IsRun(T3) /\ Ranks = T3 \cup T1
           IsPlanePair == /\ n >= 10 /\ n % 5 = 0 /\ three = n \div 5 /\ two = n \div 5
                       /\ IsRun(T3) /\ Ranks = T3 \cup T2
           IsFourTwoSingles == n = 6 /\ T4 # {} /\ one = 2
           IsFourTwoPairs == n = 8 /\ T4 # {} /\ two = 2
<1> DEFINE Holds(type) == Form(type)
<1>8. /\ Holds("Single") <=> one = 1 /\ two = 0 /\ three = 0 /\ four = 0
      /\ Holds("Rocket") <=> one = 2 /\ two = 0 /\ three = 0 /\ four = 0
         /\ Ranks = {SmallJoker, BigJoker}
      /\ Holds("Pair") <=> one = 0 /\ two = 1 /\ three = 0 /\ four = 0
      /\ Holds("Triple") <=> one = 0 /\ two = 0 /\ three = 1 /\ four = 0
      /\ Holds("Bomb") <=> one = 0 /\ two = 0 /\ three = 0 /\ four = 1
      /\ Holds("TripleOne") <=> one = 1 /\ two = 0 /\ three = 1 /\ four = 0
      /\ Holds("TriplePair") <=> one = 0 /\ two = 1 /\ three = 1 /\ four = 0
      /\ Holds("Straight") <=> one >= 5 /\ two = 0 /\ three = 0 /\ four = 0 /\ IsRun(T1)
      /\ Holds("PairStraight") <=> one = 0 /\ two >= 3 /\ three = 0 /\ four = 0 /\ IsRun(T2)
      /\ Holds("Plane") <=> one = 0 /\ two = 0 /\ three >= 2 /\ four = 0 /\ IsRun(T3)
      /\ Holds("PlaneSingle") <=> one = three /\ two = 0 /\ three >= 2 /\ four = 0
         /\ IsRun(T3)
      /\ Holds("PlanePair") <=> one = 0 /\ two = three /\ three >= 2 /\ four = 0
         /\ IsRun(T3)
      /\ Holds("FourTwoSingles") <=> one = 2 /\ two = 0 /\ three = 0 /\ four = 1
      /\ Holds("FourTwoPairs") <=> one = 0 /\ two = 2 /\ three = 0 /\ four = 1
  BY DEF Form, HasForm, Body, BodyTimes, SizedTypes
<1>9. /\ Body("Single") = T1 /\ Body("Rocket") = T1 /\ Body("Straight") = T1
      /\ Body("Pair") = T2 /\ Body("PairStraight") = T2
      /\ Body("Triple") = T3 /\ Body("Plane") = T3
      /\ Body("TripleOne") = T3 /\ Body("TriplePair") = T3
      /\ Body("PlaneSingle") = T3 /\ Body("PlanePair") = T3
      /\ Body("Bomb") = T4 /\ Body("FourTwoSingles") = T4 /\ Body("FourTwoPairs") = T4
  BY DEF Body, BodyTimes
<1>10. FormTypes = {"Single", "Rocket", "Pair", "Triple", "Bomb", "TripleOne",
                      "TriplePair", "Straight", "PairStraight", "Plane", "PlaneSingle",
                      "PlanePair", "FourTwoSingles", "FourTwoPairs"}
  BY DEF FormTypes, ComboTypes
<1> HIDE DEF n, T1, T2, T3, T4, one, two, three, four, Holds
<1>11. ASSUME n # 0
       PROVE  /\ IsSingle <=> Holds("Single")
              /\ IsRocket <=> Holds("Rocket")
              /\ IsPair <=> Holds("Pair")
              /\ IsTriple <=> Holds("Triple")
              /\ IsBomb <=> Holds("Bomb")
              /\ IsTripleOne <=> Holds("TripleOne")
              /\ IsTriplePair <=> Holds("TriplePair")
              /\ IsStraight <=> Holds("Straight")
              /\ IsPairStraight <=> Holds("PairStraight")
              /\ IsPlane <=> Holds("Plane")
              /\ IsPlaneSingle <=> Holds("PlaneSingle")
              /\ IsPlanePair <=> Holds("PlanePair")
              /\ IsFourTwoSingles <=> Holds("FourTwoSingles")
              /\ IsFourTwoPairs <=> Holds("FourTwoPairs")
  <2>1. IsSingle <=> Holds("Single")
    BY <1>1, <1>2, <1>3, <1>4, <1>6, <1>8, <1>11
  <2>2. IsRocket <=> Holds("Rocket")
    BY <1>1, <1>2, <1>3, <1>4, <1>6, <1>8, <1>11
  <2>3. IsPair <=> Holds("Pair")
    BY <1>1, <1>2, <1>3, <1>4, <1>6, <1>8, <1>11
  <2>4. IsTriple <=> Holds("Triple")
    BY <1>1, <1>2, <1>3, <1>4, <1>6, <1>8, <1>11
  <2>5. IsBomb <=> Holds("Bomb")
    BY <1>1, <1>2, <1>3, <1>4, <1>6, <1>8, <1>11
  <2>6. IsTripleOne <=> Holds("TripleOne")
    BY <1>1, <1>2, <1>3, <1>4, <1>6, <1>8, <1>11
  <2>7. IsTriplePair <=> Holds("TriplePair")
    BY <1>1, <1>2, <1>3, <1>4, <1>6, <1>8, <1>11
  <2>8. IsStraight <=> Holds("Straight")
    BY <1>1, <1>2, <1>3, <1>4, <1>6, <1>8, <1>11
  <2>9. IsPairStraight <=> Holds("PairStraight")
    BY <1>1, <1>2, <1>3, <1>4, <1>6, <1>8, <1>11
  <2>10. IsPlane <=> Holds("Plane")
    BY <1>1, <1>2, <1>3, <1>4, <1>6, <1>8, <1>11
  <2>11. IsPlaneSingle <=> Holds("PlaneSingle")
    BY <1>1, <1>2, <1>3, <1>4, <1>6, <1>8, <1>11
  <2>12. IsPlanePair <=> Holds("PlanePair")
    BY <1>1, <1>2, <1>3, <1>4, <1>6, <1>8, <1>11
  <2>13. IsFourTwoSingles <=> Holds("FourTwoSingles")
    BY <1>1, <1>2, <1>3, <1>4, <1>6, <1>8, <1>11
  <2>14. IsFourTwoPairs <=> Holds("FourTwoPairs")
    BY <1>1, <1>2, <1>3, <1>4, <1>6, <1>8, <1>11
  <2> HIDE DEF IsSingle, IsRocket, IsPair, IsTriple, IsBomb, IsTripleOne,
               IsTriplePair, IsStraight, IsPairStraight, IsPlane, IsPlaneSingle,
               IsPlanePair, IsFourTwoSingles, IsFourTwoPairs
  <2>15. QED
    BY <2>1, <2>2, <2>3, <2>4, <2>5, <2>6, <2>7, <2>8, <2>9, <2>10, <2>11, <2>12, <2>13,
       <2>14
<1>12. ASSUME NEW a \in FormTypes, NEW b \in FormTypes, Holds(a), Holds(b) PROVE a = b
  BY <1>1, <1>12, FormsExclude DEF Form, Holds, one, two, three, four, T1, T2, T3, T4
<1>13. \A type \in FormTypes : Holds(type) => n # 0
  BY <1>1, <1>2, <1>8, <1>10
<1> HIDE DEF IsSingle, IsRocket, IsPair, IsTriple, IsBomb, IsTripleOne,
             IsTriplePair, IsStraight, IsPairStraight, IsPlane, IsPlaneSingle,
             IsPlanePair, IsFourTwoSingles, IsFourTwoPairs
<1>14. ASSUME NEW type \in FormTypes, Holds(type)
       PROVE  Analyze(cards) = Combo(type, Body(type), n)
  <2>1. n # 0
    BY <1>13, <1>14
  <2>2. \A other \in FormTypes : Holds(other) => other = type
    BY <1>12, <1>14
  <2>3. CASE type = "Single"
    <3>1. Analyze(cards) = Combo("Single", Ranks, n)
      BY <1>5, <1>10, <1>11, <1>14, <2>1, <2>2, <2>3
         DEF Analyze, Ranks, Times, n, T1, T2, T3, T4, one, two, three, four,
             IsSingle, IsRocket, IsPair, IsTriple, IsBomb, IsTripleOne, IsTriplePair,
             IsStraight, IsPairStraight, IsPlane, IsPlaneSingle, IsPlanePair,
             IsFourTwoSingles, IsFourTwoPairs
    <3>2. Body("Single") = Ranks
      BY <1>4, <1>8, <1>9, <1>14, <2>3
    <3>3. QED
      BY <2>3, <3>1, <3>2
  <2>4. CASE type = "Rocket"
    <3>1. Analyze(cards) = Combo("Rocket", Ranks, n)
      BY <1>5, <1>10, <1>11, <1>14, <2>1, <2>2, <2>4
         DEF Analyze, Ranks, Times, n, T1, T2, T3, T4, one, two, three, four,
             IsSingle, IsRocket, IsPair, IsTriple, IsBomb, IsTripleOne, IsTriplePair,
             IsStraight, IsPairStraight, IsPlane, IsPlaneSingle, IsPlanePair,
             IsFourTwoSingles, IsFourTwoPairs
    <3>2. Body("Rocket") = Ranks
      BY <1>4, <1>8, <1>9, <1>14, <2>4
    <3>3. QED
      BY <2>4, <3>1, <3>2
  <2>5. CASE type = "Pair"
    <3>1. Analyze(cards) = Combo("Pair", Ranks, n)
      BY <1>5, <1>10, <1>11, <1>14, <2>1, <2>2, <2>5
         DEF Analyze, Ranks, Times, n, T1, T2, T3, T4, one, two, three, four,
             IsSingle, IsRocket, IsPair, IsTriple, IsBomb, IsTripleOne, IsTriplePair,
             IsStraight, IsPairStraight, IsPlane, IsPlaneSingle, IsPlanePair,
             IsFourTwoSingles, IsFourTwoPairs
    <3>2. Body("Pair") = Ranks
      BY <1>4, <1>8, <1>9, <1>14, <2>5
    <3>3. QED
      BY <2>5, <3>1, <3>2
  <2>6. CASE type = "Triple"
    <3>1. Analyze(cards) = Combo("Triple", Ranks, n)
      BY <1>5, <1>10, <1>11, <1>14, <2>1, <2>2, <2>6
         DEF Analyze, Ranks, Times, n, T1, T2, T3, T4, one, two, three, four,
             IsSingle, IsRocket, IsPair, IsTriple, IsBomb, IsTripleOne, IsTriplePair,
             IsStraight, IsPairStraight, IsPlane, IsPlaneSingle, IsPlanePair,
             IsFourTwoSingles, IsFourTwoPairs
    <3>2. Body("Triple") = Ranks
      BY <1>4, <1>8, <1>9, <1>14, <2>6
    <3>3. QED
      BY <2>6, <3>1, <3>2
  <2>7. CASE type = "Bomb"
    <3>1. Analyze(cards) = Combo("Bomb", Ranks, n)
      BY <1>5, <1>10, <1>11, <1>14, <2>1, <2>2, <2>7
         DEF Analyze, Ranks, Times, n, T1, T2, T3, T4, one, two, three, four,
             IsSingle, IsRocket, IsPair, IsTriple, IsBomb, IsTripleOne, IsTriplePair,
             IsStraight, IsPairStraight, IsPlane, IsPlaneSingle, IsPlanePair,
             IsFourTwoSingles, IsFourTwoPairs
    <3>2. Body("Bomb") = Ranks
      BY <1>4, <1>8, <1>9, <1>14, <2>7
    <3>3. QED
      BY <2>7, <3>1, <3>2
  <2>8. CASE type = "TripleOne"
    <3>1. Analyze(cards) = Combo("TripleOne", T3, n)
      BY <1>5, <1>10, <1>11, <1>14, <2>1, <2>2, <2>8
         DEF Analyze, Ranks, Times, n, T1, T2, T3, T4, one, two, three, four,
             IsSingle, IsRocket, IsPair, IsTriple, IsBomb, IsTripleOne, IsTriplePair,
             IsStraight, IsPairStraight, IsPlane, IsPlaneSingle, IsPlanePair,
             IsFourTwoSingles, IsFourTwoPairs
    <3>2. Body("TripleOne") = T3
      BY <1>4, <1>8, <1>9, <1>14, <2>8
    <3>3. QED
      BY <2>8, <3>1, <3>2
  <2>9. CASE type = "TriplePair"
    <3>1. Analyze(cards) = Combo("TriplePair", T3, n)
      BY <1>5, <1>10, <1>11, <1>14, <2>1, <2>2, <2>9
         DEF Analyze, Ranks, Times, n, T1, T2, T3, T4, one, two, three, four,
             IsSingle, IsRocket, IsPair, IsTriple, IsBomb, IsTripleOne, IsTriplePair,
             IsStraight, IsPairStraight, IsPlane, IsPlaneSingle, IsPlanePair,
             IsFourTwoSingles, IsFourTwoPairs
    <3>2. Body("TriplePair") = T3
      BY <1>4, <1>8, <1>9, <1>14, <2>9
    <3>3. QED
      BY <2>9, <3>1, <3>2
  <2>10. CASE type = "Straight"
    <3>1. Analyze(cards) = Combo("Straight", Ranks, n)
      BY <1>5, <1>10, <1>11, <1>14, <2>1, <2>2, <2>10
         DEF Analyze, Ranks, Times, n, T1, T2, T3, T4, one, two, three, four,
             IsSingle, IsRocket, IsPair, IsTriple, IsBomb, IsTripleOne, IsTriplePair,
             IsStraight, IsPairStraight, IsPlane, IsPlaneSingle, IsPlanePair,
             IsFourTwoSingles, IsFourTwoPairs
    <3>2. Body("Straight") = Ranks
      BY <1>4, <1>8, <1>9, <1>14, <2>10
    <3>3. QED
      BY <2>10, <3>1, <3>2
  <2>11. CASE type = "PairStraight"
    <3>1. Analyze(cards) = Combo("PairStraight", Ranks, n)
      BY <1>5, <1>10, <1>11, <1>14, <2>1, <2>2, <2>11
         DEF Analyze, Ranks, Times, n, T1, T2, T3, T4, one, two, three, four,
             IsSingle, IsRocket, IsPair, IsTriple, IsBomb, IsTripleOne, IsTriplePair,
             IsStraight, IsPairStraight, IsPlane, IsPlaneSingle, IsPlanePair,
             IsFourTwoSingles, IsFourTwoPairs
    <3>2. Body("PairStraight") = Ranks
      BY <1>4, <1>8, <1>9, <1>14, <2>11
    <3>3. QED
      BY <2>11, <3>1, <3>2
  <2>12. CASE type = "Plane"
    <3>1. Analyze(cards) = Combo("Plane", Ranks, n)
      BY <1>5, <1>10, <1>11, <1>14, <2>1, <2>2, <2>12
         DEF Analyze, Ranks, Times, n, T1, T2, T3, T4, one, two, three, four,
             IsSingle, IsRocket, IsPair, IsTriple, IsBomb, IsTripleOne, IsTriplePair,
             IsStraight, IsPairStraight, IsPlane, IsPlaneSingle, IsPlanePair,
             IsFourTwoSingles, IsFourTwoPairs
    <3>2. Body("Plane") = Ranks
      BY <1>4, <1>8, <1>9, <1>14, <2>12
    <3>3. QED
      BY <2>12, <3>1, <3>2
  <2>13. CASE type = "PlaneSingle"
    <3>1. Analyze(cards) = Combo("PlaneSingle", T3, n)
      BY <1>5, <1>10, <1>11, <1>14, <2>1, <2>2, <2>13
         DEF Analyze, Ranks, Times, n, T1, T2, T3, T4, one, two, three, four,
             IsSingle, IsRocket, IsPair, IsTriple, IsBomb, IsTripleOne, IsTriplePair,
             IsStraight, IsPairStraight, IsPlane, IsPlaneSingle, IsPlanePair,
             IsFourTwoSingles, IsFourTwoPairs
    <3>2. Body("PlaneSingle") = T3
      BY <1>4, <1>8, <1>9, <1>14, <2>13
    <3>3. QED
      BY <2>13, <3>1, <3>2
  <2>14. CASE type = "PlanePair"
    <3>1. Analyze(cards) = Combo("PlanePair", T3, n)
      BY <1>5, <1>10, <1>11, <1>14, <2>1, <2>2, <2>14
         DEF Analyze, Ranks, Times, n, T1, T2, T3, T4, one, two, three, four,
             IsSingle, IsRocket, IsPair, IsTriple, IsBomb, IsTripleOne, IsTriplePair,
             IsStraight, IsPairStraight, IsPlane, IsPlaneSingle, IsPlanePair,
             IsFourTwoSingles, IsFourTwoPairs
    <3>2. Body("PlanePair") = T3
      BY <1>4, <1>8, <1>9, <1>14, <2>14
    <3>3. QED
      BY <2>14, <3>1, <3>2
  <2>15. CASE type = "FourTwoSingles"
    <3>1. Analyze(cards) = Combo("FourTwoSingles", T4, n)
      BY <1>5, <1>10, <1>11, <1>14, <2>1, <2>2, <2>15
         DEF Analyze, Ranks, Times, n, T1, T2, T3, T4, one, two, three, four,
             IsSingle, IsRocket, IsPair, IsTriple, IsBomb, IsTripleOne, IsTriplePair,
             IsStraight, IsPairStraight, IsPlane, IsPlaneSingle, IsPlanePair,
             IsFourTwoSingles, IsFourTwoPairs
    <3>2. Body("FourTwoSingles") = T4
      BY <1>4, <1>8, <1>9, <1>14, <2>15
    <3>3. QED
      BY <2>15, <3>1, <3>2
  <2>16. CASE type = "FourTwoPairs"
    <3>1. Analyze(cards) = Combo("FourTwoPairs", T4, n)
      BY <1>5, <1>10, <1>11, <1>14, <2>1, <2>2, <2>16
         DEF Analyze, Ranks, Times, n, T1, T2, T3, T4, one, two, three, four,
             IsSingle, IsRocket, IsPair, IsTriple, IsBomb, IsTripleOne, IsTriplePair,
             IsStraight, IsPairStraight, IsPlane, IsPlaneSingle, IsPlanePair,
             IsFourTwoSingles, IsFourTwoPairs
    <3>2. Body("FourTwoPairs") = T4
      BY <1>4, <1>8, <1>9, <1>14, <2>16
    <3>3. QED
      BY <2>16, <3>1, <3>2
  <2>17. QED
    BY <1>10, <2>3, <2>4, <2>5, <2>6, <2>7, <2>8, <2>9, <2>10, <2>11, <2>12, <2>13, <2>14,
       <2>15, <2>16
<1>15. ASSUME \A type \in FormTypes : ~Holds(type) PROVE Analyze(cards) = NoCombo(n)
  BY <1>5, <1>10, <1>11, <1>15 DEF Analyze, Ranks, Times, n, T1, T2, T3, T4,
     one, two, three, four, IsSingle, IsRocket, IsPair, IsTriple, IsBomb, IsTripleOne,
     IsTriplePair, IsStraight, IsPairStraight, IsPlane, IsPlaneSingle, IsPlanePair,
     IsFourTwoSingles, IsFourTwoPairs
<1>16. QED
  BY <1>14, <1>15 DEF Holds, n
-----------------------------------------------------------------------------
(* The reference has the same forms.                                       *)

LEMMA OneRankIs ==
  ASSUME PlayInv, NEW k, NEW checked, Times(k) \subseteq checked
  PROVE  (\E r \in checked : Multiset(Ranks) = Each({r}, k)) <=>
           Ranks = Times(k) /\ Cardinality(Times(k)) = 1
<1>1. Cardinality(Times(k)) = 1 <=> \E r : Times(k) = {r}
  BY PlayFacts, FS_Singleton
<1>2. \A r : Multiset(Ranks) = Each({r}, k) <=> Ranks = {r} /\ Times(k) = {r}
  BY EachMeans
<1>3. QED
  BY <1>1, <1>2

LEMMA OneRunIs ==
  ASSUME PlayInv, NEW k, NEW width \in Nat \ {0}
  PROVE  (\E S \in Runs(width) : Multiset(Ranks) = Each(S, k)) <=>
           Ranks = Times(k) /\ IsRun(Times(k)) /\ Cardinality(Times(k)) >= width
<1>1. \A S : Multiset(Ranks) = Each(S, k) <=> Ranks = S /\ Times(k) = S
  BY EachMeans
<1>2. \A S : S \in Runs(width) <=>
        S \subseteq CheckedRanks /\ IsRun(S) /\ Cardinality(S) >= width
  BY RunsAre
<1>3. Ranks \subseteq CheckedRanks
  BY PlayFacts
<1>4. QED
  BY <1>1, <1>2, <1>3

(* One rank k times, with size other ranks that all occur j times.         *)
WingedRanks(k, j, size) ==
  UNION {{Winged({r}, k, W, j) : W \in WingSets({r}, size)} : r \in Suited}

LEMMA WingedRankIs ==
  ASSUME PlayInv, NEW k \in 2..4, NEW j, k # j, NEW size
  PROVE  Multiset(Ranks) \in WingedRanks(k, j, size) <=>
           /\ Ranks = Times(k) \cup Times(j)
           /\ Cardinality(Times(k)) = 1 /\ Cardinality(Times(j)) = size
<1>1. Cardinality(Times(k)) = 1 <=> \E r : Times(k) = {r}
  BY PlayFacts, FS_Singleton
<1>2. /\ Times(k) \subseteq Suited /\ Times(k) \cap Times(j) = {}
      /\ Ranks \subseteq CheckedRanks
  BY PlayFacts
<1>3. \A r : \A W \in WingSets({r}, size) :
        Multiset(Ranks) = Winged({r}, k, W, j) <=>
          Ranks = {r} \cup W /\ Times(k) = {r} /\ Times(j) = W
  <2>1. SUFFICES ASSUME NEW r, NEW W \in WingSets({r}, size)
                 PROVE  Multiset(Ranks) = Winged({r}, k, W, j) <=>
                          Ranks = {r} \cup W /\ Times(k) = {r} /\ Times(j) = W
    OBVIOUS
  <2>2. {r} \cap W = {}
    BY <2>1 DEF WingSets
  <2>3. QED
    BY <2>2, WingedMeans
<1>4. ASSUME Ranks = Times(k) \cup Times(j), Cardinality(Times(k)) = 1,
             Cardinality(Times(j)) = size
      PROVE  \E r \in Suited : \E W \in WingSets({r}, size) :
               Multiset(Ranks) = Winged({r}, k, W, j)
  <2>1. PICK r : Times(k) = {r}
    BY <1>1, <1>4
  <2>2. r \in Suited /\ Times(j) \in WingSets({r}, size)
    BY <1>2, <1>4, <2>1 DEF WingSets
  <2>3. QED
    BY <1>3, <1>4, <2>1, <2>2
<1>5. ASSUME NEW r \in Suited, NEW W \in WingSets({r}, size),
             Multiset(Ranks) = Winged({r}, k, W, j)
      PROVE  /\ Ranks = Times(k) \cup Times(j)
             /\ Cardinality(Times(k)) = 1 /\ Cardinality(Times(j)) = size
  <2>1. Ranks = {r} \cup W /\ Times(k) = {r} /\ Times(j) = W
    BY <1>3, <1>5
  <2>2. QED
    BY <1>1, <1>5, <2>1 DEF WingSets
<1>6. Multiset(Ranks) \in WingedRanks(k, j, size) <=>
          \E r \in Suited : \E W \in WingSets({r}, size) :
            Multiset(Ranks) = Winged({r}, k, W, j)
  <2> DEFINE family(r) == {Winged({r}, k, W, j) : W \in WingSets({r}, size)}
  <2>1. \A r : Multiset(Ranks) \in family(r) <=>
                 \E W \in WingSets({r}, size) : Multiset(Ranks) = Winged({r}, k, W, j)
    OBVIOUS
  <2> HIDE DEF family
  <2>2. Multiset(Ranks) \in UNION {family(r) : r \in Suited} <=>
          \E r \in Suited : Multiset(Ranks) \in family(r)
    OBVIOUS
  <2>3. Multiset(Ranks) \in UNION {family(r) : r \in Suited} <=>
          \E r \in Suited : \E W \in WingSets({r}, size) :
            Multiset(Ranks) = Winged({r}, k, W, j)
    BY <2>1, <2>2
  <2>4. QED
    BY <2>3 DEF family, WingedRanks
<1>7. QED
  BY <1>4, <1>5, <1>6, Zenon

LEMMA WingedRunIs ==
  ASSUME PlayInv, NEW k, NEW j, k # j, NEW width \in Nat \ {0}
  PROVE  (\E S \in Runs(width) : \E W \in WingSets(S, Cardinality(S)) :
            Multiset(Ranks) = Winged(S, k, W, j)) <=>
           /\ Ranks = Times(k) \cup Times(j)
           /\ IsRun(Times(k)) /\ Cardinality(Times(k)) >= width
           /\ Cardinality(Times(j)) = Cardinality(Times(k))
<1>1. \A S : S \in Runs(width) <=>
        S \subseteq CheckedRanks /\ IsRun(S) /\ Cardinality(S) >= width
  BY RunsAre
<1>2. Times(k) \cap Times(j) = {} /\ Ranks \subseteq CheckedRanks
  BY PlayFacts
<1>3. \A S : \A W \in WingSets(S, Cardinality(S)) :
        Multiset(Ranks) = Winged(S, k, W, j) <=>
          Ranks = S \cup W /\ Times(k) = S /\ Times(j) = W
  <2>1. SUFFICES ASSUME NEW S, NEW W \in WingSets(S, Cardinality(S))
                 PROVE  Multiset(Ranks) = Winged(S, k, W, j) <=>
                          Ranks = S \cup W /\ Times(k) = S /\ Times(j) = W
    OBVIOUS
  <2>2. S \cap W = {}
    BY <2>1 DEF WingSets
  <2>3. QED
    BY <2>2, WingedMeans
<1>4. ASSUME Ranks = Times(k) \cup Times(j), IsRun(Times(k)),
             Cardinality(Times(k)) >= width,
             Cardinality(Times(j)) = Cardinality(Times(k))
      PROVE  \E S \in Runs(width) : \E W \in WingSets(S, Cardinality(S)) :
               Multiset(Ranks) = Winged(S, k, W, j)
  <2>1. Times(k) \in Runs(width)
    BY <1>1, <1>2, <1>4
  <2>2. Times(j) \in WingSets(Times(k), Cardinality(Times(k)))
    BY <1>2, <1>4 DEF WingSets
  <2>3. QED
    BY <1>3, <1>4, <2>1, <2>2
<1>5. ASSUME NEW S \in Runs(width), NEW W \in WingSets(S, Cardinality(S)),
             Multiset(Ranks) = Winged(S, k, W, j)
      PROVE  /\ Ranks = Times(k) \cup Times(j)
             /\ IsRun(Times(k)) /\ Cardinality(Times(k)) >= width
             /\ Cardinality(Times(j)) = Cardinality(Times(k))
  <2>1. Ranks = S \cup W /\ Times(k) = S /\ Times(j) = W
    BY <1>3, <1>5
  <2>2. QED
    BY <1>1, <1>5, <2>1 DEF WingSets
<1>6. QED
  BY <1>4, <1>5

LEMMA FormsAreTheReference ==
  ASSUME PlayInv
  PROVE  \A type \in FormTypes : Multiset(Ranks) \in Combinations(type) <=> Form(type)
<1> DEFINE play == Multiset(Ranks)
           one == Cardinality(Times(1))
           two == Cardinality(Times(2))
           three == Cardinality(Times(3))
           four == Cardinality(Times(4))
<1>1. one \in Nat /\ two \in Nat /\ three \in Nat /\ four \in Nat
  BY PlayFacts
<1>2. /\ Ranks = Times(1) <=> two = 0 /\ three = 0 /\ four = 0
      /\ Ranks = Times(2) <=> one = 0 /\ three = 0 /\ four = 0
      /\ Ranks = Times(3) <=> one = 0 /\ two = 0 /\ four = 0
      /\ Ranks = Times(4) <=> one = 0 /\ two = 0 /\ three = 0
      /\ Ranks = Times(3) \cup Times(1) <=> two = 0 /\ four = 0
      /\ Ranks = Times(3) \cup Times(2) <=> one = 0 /\ four = 0
      /\ Ranks = Times(4) \cup Times(1) <=> two = 0 /\ three = 0
      /\ Ranks = Times(4) \cup Times(2) <=> one = 0 /\ three = 0
  BY RanksByTimes
<1>3. /\ Times(1) \subseteq CheckedRanks /\ Times(2) \subseteq Suited
      /\ Times(3) \subseteq Suited /\ Times(4) \subseteq Suited
  BY PlayFacts
<1> DEFINE Holds(type) == Form(type)
<1>4. /\ Holds("Single") <=> one = 1 /\ two = 0 /\ three = 0 /\ four = 0
      /\ Holds("Rocket") <=> one = 2 /\ two = 0 /\ three = 0 /\ four = 0
         /\ Ranks = {SmallJoker, BigJoker}
      /\ Holds("Pair") <=> one = 0 /\ two = 1 /\ three = 0 /\ four = 0
      /\ Holds("Triple") <=> one = 0 /\ two = 0 /\ three = 1 /\ four = 0
      /\ Holds("Bomb") <=> one = 0 /\ two = 0 /\ three = 0 /\ four = 1
      /\ Holds("TripleOne") <=> one = 1 /\ two = 0 /\ three = 1 /\ four = 0
      /\ Holds("TriplePair") <=> one = 0 /\ two = 1 /\ three = 1 /\ four = 0
      /\ Holds("Straight") <=> one >= 5 /\ two = 0 /\ three = 0 /\ four = 0
         /\ IsRun(Times(1))
      /\ Holds("PairStraight") <=> one = 0 /\ two >= 3 /\ three = 0 /\ four = 0
         /\ IsRun(Times(2))
      /\ Holds("Plane") <=> one = 0 /\ two = 0 /\ three >= 2 /\ four = 0 /\ IsRun(Times(3))
      /\ Holds("PlaneSingle") <=> one = three /\ two = 0 /\ three >= 2 /\ four = 0
         /\ IsRun(Times(3))
      /\ Holds("PlanePair") <=> one = 0 /\ two = three /\ three >= 2 /\ four = 0
         /\ IsRun(Times(3))
      /\ Holds("FourTwoSingles") <=> one = 2 /\ two = 0 /\ three = 0 /\ four = 1
      /\ Holds("FourTwoPairs") <=> one = 0 /\ two = 2 /\ three = 0 /\ four = 1
  BY DEF Form, HasForm, Body, BodyTimes, SizedTypes
<1>5. FormTypes = {"Single", "Rocket", "Pair", "Triple", "Bomb", "TripleOne", "TriplePair",
                     "Straight", "PairStraight", "Plane", "PlaneSingle", "PlanePair",
                     "FourTwoSingles", "FourTwoPairs"}
  BY DEF FormTypes, ComboTypes
<1> HIDE DEF one, two, three, four, Holds
<1>6. play \in Combinations("Single") <=> Holds("Single")
  <2>1. play \in Combinations("Single") <=> \E r \in CheckedRanks : play = Each({r}, 1)
    BY DEF Combinations
  <2>2. (\E r \in CheckedRanks : play = Each({r}, 1)) <=> Ranks = Times(1) /\ one = 1
    BY <1>3, OneRankIs DEF one
  <2>3. QED
    BY <1>2, <1>4, <2>1, <2>2
<1>7. play \in Combinations("Rocket") <=> Holds("Rocket")
  <2>1. play \in Combinations("Rocket") <=> play = Each({SmallJoker, BigJoker}, 1)
    BY DEF Combinations
  <2>2. play = Each({SmallJoker, BigJoker}, 1) <=>
          Ranks = {SmallJoker, BigJoker} /\ Times(1) = {SmallJoker, BigJoker}
    BY EachMeans
  <2>3. Times(1) = {SmallJoker, BigJoker} => one = 2
    <3>1. Cardinality({SmallJoker}) = 1 /\ IsFiniteSet({SmallJoker})
      BY FS_Singleton
    <3>2. BigJoker \notin {SmallJoker}
      BY DEF SmallJoker, BigJoker
    <3>3. Cardinality({SmallJoker} \cup {BigJoker}) = 2
      BY <3>1, <3>2, FS_AddElement
    <3>4. {SmallJoker} \cup {BigJoker} = {SmallJoker, BigJoker}
      OBVIOUS
    <3>5. QED
      BY <3>3, <3>4 DEF one
  <2>4. QED
    BY <1>2, <1>4, <2>1, <2>2, <2>3
<1>8. play \in Combinations("Pair") <=> Holds("Pair")
  <2>1. play \in Combinations("Pair") <=> \E r \in Suited : play = Each({r}, 2)
    BY DEF Combinations
  <2>2. (\E r \in Suited : play = Each({r}, 2)) <=> Ranks = Times(2) /\ two = 1
    BY <1>3, OneRankIs DEF two
  <2>3. QED
    BY <1>2, <1>4, <2>1, <2>2
<1>9. play \in Combinations("Triple") <=> Holds("Triple")
  <2>1. play \in Combinations("Triple") <=> \E r \in Suited : play = Each({r}, 3)
    BY DEF Combinations
  <2>2. (\E r \in Suited : play = Each({r}, 3)) <=> Ranks = Times(3) /\ three = 1
    BY <1>3, OneRankIs DEF three
  <2>3. QED
    BY <1>2, <1>4, <2>1, <2>2
<1>10. play \in Combinations("Bomb") <=> Holds("Bomb")
  <2>1. play \in Combinations("Bomb") <=> \E r \in Suited : play = Each({r}, 4)
    BY DEF Combinations
  <2>2. (\E r \in Suited : play = Each({r}, 4)) <=> Ranks = Times(4) /\ four = 1
    BY <1>3, OneRankIs DEF four
  <2>3. QED
    BY <1>2, <1>4, <2>1, <2>2
<1>11. play \in Combinations("TripleOne") <=> Holds("TripleOne")
  <2>0. 3 \in 2..4 /\ 4 \in 2..4 /\ 3 # 1
    OBVIOUS
  <2>1. Combinations("TripleOne") = WingedRanks(3, 1, 1)
    BY DEF Combinations, WingedRanks
  <2>2. play \in WingedRanks(3, 1, 1) <=>
          Ranks = Times(3) \cup Times(1) /\ three = 1 /\ one = 1
    BY <2>0, WingedRankIs DEF three, one
  <2>3. QED
    BY <1>2, <1>4, <2>1, <2>2
<1>12. play \in Combinations("TriplePair") <=> Holds("TriplePair")
  <2>0. 3 \in 2..4 /\ 4 \in 2..4 /\ 3 # 2
    OBVIOUS
  <2>1. Combinations("TriplePair") = WingedRanks(3, 2, 1)
    BY DEF Combinations, WingedRanks
  <2>2. play \in WingedRanks(3, 2, 1) <=>
          Ranks = Times(3) \cup Times(2) /\ three = 1 /\ two = 1
    BY <2>0, WingedRankIs DEF three, two
  <2>3. QED
    BY <1>2, <1>4, <2>1, <2>2
<1>13. play \in Combinations("Straight") <=> Holds("Straight")
  <2>1. play \in Combinations("Straight") <=> \E S \in Runs(5) : play = Each(S, 1)
    BY DEF Combinations
  <2>2. (\E S \in Runs(5) : play = Each(S, 1)) <=>
          Ranks = Times(1) /\ IsRun(Times(1)) /\ one >= 5
    BY OneRunIs DEF one
  <2>3. QED
    BY <1>2, <1>4, <2>1, <2>2
<1>14. play \in Combinations("PairStraight") <=> Holds("PairStraight")
  <2>1. play \in Combinations("PairStraight") <=> \E S \in Runs(3) : play = Each(S, 2)
    BY DEF Combinations
  <2>2. (\E S \in Runs(3) : play = Each(S, 2)) <=>
          Ranks = Times(2) /\ IsRun(Times(2)) /\ two >= 3
    BY OneRunIs DEF two
  <2>3. QED
    BY <1>2, <1>4, <2>1, <2>2
<1>15. play \in Combinations("Plane") <=> Holds("Plane")
  <2>1. play \in Combinations("Plane") <=> \E S \in Runs(2) : play = Each(S, 3)
    BY DEF Combinations
  <2>2. (\E S \in Runs(2) : play = Each(S, 3)) <=>
          Ranks = Times(3) /\ IsRun(Times(3)) /\ three >= 2
    BY OneRunIs DEF three
  <2>3. QED
    BY <1>2, <1>4, <2>1, <2>2
<1>16. play \in Combinations("PlaneSingle") <=> Holds("PlaneSingle")
  <2>1. play \in Combinations("PlaneSingle") <=>
          \E S \in Runs(2) :
            \E W \in WingSets(S, Cardinality(S)) : play = Winged(S, 3, W, 1)
    BY DEF Combinations
  <2>2. (\E S \in Runs(2) :
           \E W \in WingSets(S, Cardinality(S)) : play = Winged(S, 3, W, 1)) <=>
          /\ Ranks = Times(3) \cup Times(1) /\ IsRun(Times(3))
          /\ three >= 2 /\ one = three
    BY WingedRunIs DEF one, three
  <2>3. QED
    BY <1>2, <1>4, <2>1, <2>2
<1>17. play \in Combinations("PlanePair") <=> Holds("PlanePair")
  <2>1. play \in Combinations("PlanePair") <=>
          \E S \in Runs(2) :
            \E W \in WingSets(S, Cardinality(S)) : play = Winged(S, 3, W, 2)
    BY DEF Combinations
  <2>2. (\E S \in Runs(2) :
           \E W \in WingSets(S, Cardinality(S)) : play = Winged(S, 3, W, 2)) <=>
          /\ Ranks = Times(3) \cup Times(2) /\ IsRun(Times(3))
          /\ three >= 2 /\ two = three
    BY WingedRunIs DEF two, three
  <2>3. QED
    BY <1>2, <1>4, <2>1, <2>2
<1>18. play \in Combinations("FourTwoSingles") <=> Holds("FourTwoSingles")
  <2>0. 3 \in 2..4 /\ 4 \in 2..4 /\ 4 # 1
    OBVIOUS
  <2>1. Combinations("FourTwoSingles") = WingedRanks(4, 1, 2)
    BY DEF Combinations, WingedRanks
  <2>2. play \in WingedRanks(4, 1, 2) <=>
          Ranks = Times(4) \cup Times(1) /\ four = 1 /\ one = 2
    BY <2>0, WingedRankIs DEF four, one
  <2>3. QED
    BY <1>2, <1>4, <2>1, <2>2
<1>19. play \in Combinations("FourTwoPairs") <=> Holds("FourTwoPairs")
  <2>0. 3 \in 2..4 /\ 4 \in 2..4 /\ 4 # 2
    OBVIOUS
  <2>1. Combinations("FourTwoPairs") = WingedRanks(4, 2, 2)
    BY DEF Combinations, WingedRanks
  <2>2. play \in WingedRanks(4, 2, 2) <=>
          Ranks = Times(4) \cup Times(2) /\ four = 1 /\ two = 2
    BY <2>0, WingedRankIs DEF four, two
  <2>3. QED
    BY <1>2, <1>4, <2>1, <2>2
<1>20. QED
  <2> HIDE DEF play
  <2>1. \A type \in FormTypes : play \in Combinations(type) <=> Holds(type)
    BY <1>5, <1>6, <1>7, <1>8, <1>9, <1>10, <1>11, <1>12, <1>13, <1>14, <1>15, <1>16,
       <1>17, <1>18, <1>19
  <2>2. QED
    BY <2>1 DEF Holds, play
-----------------------------------------------------------------------------
(* What Analyze returns.                                                   *)

(* The body of a form is there, and no rank occurs more often.             *)
LEMMA BodyIsMost ==
  ASSUME PlayInv, NEW type \in FormTypes, Form(type)
  PROVE  /\ Body(type) # {} /\ Body(type) \subseteq 3..17
         /\ BodyTimes(type) \in 1..4
         /\ \A r \in Ranks : CountOf(r) \in 1..BodyTimes(type)
<1>1. PICK one \in Nat, two \in Nat, three \in Nat, four \in Nat :
        /\ one = Cardinality(Times(1)) /\ two = Cardinality(Times(2))
        /\ three = Cardinality(Times(3)) /\ four = Cardinality(Times(4))
  BY PlayFacts
<1>2. HasForm(type, one, two, three, four)
  BY <1>1 DEF Form
<1>3. BodyTimes(type) \in 1..4
  BY DEF BodyTimes
<1>4. /\ BodyTimes(type) = 1 => one > 0 /\ two = 0 /\ three = 0 /\ four = 0
      /\ BodyTimes(type) = 2 => two > 0 /\ three = 0 /\ four = 0
      /\ BodyTimes(type) = 3 => three > 0 /\ four = 0
      /\ BodyTimes(type) = 4 => four > 0
  BY <1>2 DEF HasForm, BodyTimes, FormTypes, ComboTypes
<1>5. /\ Times(1) = {} <=> one = 0
      /\ Times(2) = {} <=> two = 0
      /\ Times(3) = {} <=> three = 0
      /\ Times(4) = {} <=> four = 0
  BY <1>1, PlayFacts
<1>6. Body(type) # {}
  BY <1>3, <1>4, <1>5 DEF Body
<1>7. Body(type) \subseteq 3..17
  BY TimesAre, PlayFacts DEF Body
<1>8. ASSUME NEW r \in Ranks PROVE CountOf(r) \in 1..BodyTimes(type)
  <2>1. CountOf(r) \in 1..4
    BY <1>8 DEF PlayInv, Copies
  <2>2. \A k : CountOf(r) = k => Times(k) # {}
    BY <1>8, TimesAre
  <2>3. /\ CountOf(r) = 1 => one # 0
        /\ CountOf(r) = 2 => two # 0
        /\ CountOf(r) = 3 => three # 0
        /\ CountOf(r) = 4 => four # 0
    BY <1>5, <2>2
  <2>4. QED
    BY <1>3, <1>4, <2>1, <2>3
<1>9. QED
  BY <1>3, <1>6, <1>7, <1>8

LEMMA MainRankOfTheBody ==
  ASSUME PlayInv, NEW type \in FormTypes, Form(type), NEW n
  PROVE  MainRankIsOfTheBody(Combo(type, Body(type), n), Multiset(Ranks))
<1> DEFINE play == Multiset(Ranks)
           most == {r \in DOMAIN play : \A s \in DOMAIN play : play[s] <= play[r]}
           top == BodyTimes(type)
<1>1. /\ Body(type) # {} /\ Body(type) \in SUBSET (3..17)
      /\ top \in 1..4
      /\ \A r \in Ranks : CountOf(r) \in 1..top
  BY BodyIsMost
<1>2. DOMAIN play = Ranks /\ \A r \in Ranks : play[r] = CountOf(r)
  BY DEF Multiset
<1>3. Body(type) = {r \in Ranks : CountOf(r) = top}
  BY TimesAre DEF Body
<1> HIDE DEF play, top
<1>4. most = Body(type)
  <2>1. ASSUME NEW r \in Body(type) PROVE r \in most
    BY <1>1, <1>2, <1>3, <2>1
  <2>2. ASSUME NEW r \in most PROVE r \in Body(type)
    <3>1. PICK s \in Body(type) : TRUE
      BY <1>1
    <3>2. r \in Ranks /\ s \in Ranks /\ CountOf(s) = top /\ CountOf(s) <= CountOf(r)
      BY <1>2, <1>3, <2>2, <3>1
    <3>3. CountOf(r) = top
      BY <1>1, <3>2
    <3>4. QED
      BY <1>3, <3>2, <3>3
  <2>3. QED
    BY <2>1, <2>2
<1>5. MaxRank(Body(type)) \in Body(type) /\ \A r \in Body(type) : r <= MaxRank(Body(type))
  BY <1>1, GreatestRank
<1>6. Combo(type, Body(type), n).main_rank = MaxRank(Body(type))
  BY DEF Combo
<1>7. QED
  BY <1>4, <1>5, <1>6 DEF MainRankIsOfTheBody, play

LEMMA AnalyzeNames == PlayInv => AnalyzeNamesTheCombination
<1>1. SUFFICES ASSUME PlayInv PROVE AnalyzeNamesTheCombination
  OBVIOUS
<1> DEFINE combo == Analyze(cards)
           play == Multiset(Ranks)
<1>2. /\ \A type \in FormTypes : Form(type) => combo = Combo(type, Body(type), Len(cards))
      /\ (\A type \in FormTypes : ~Form(type)) => combo = NoCombo(Len(cards))
  BY <1>1, AnalyzeFindsTheForm
<1>3. \A type \in FormTypes : play \in Combinations(type) <=> Form(type)
  BY <1>1, FormsAreTheReference
<1>4. \A type \in FormTypes : play \in CombinationTable[type] <=> Form(type)
  BY <1>3 DEF CombinationTable, FormTypes
<1> HIDE DEF combo, play
<1>5. \A type, body, n : Combo(type, body, n).type = type
  BY DEF Combo
<1>6. \A n : NoCombo(n).type = "Invalid"
  BY DEF NoCombo
<1>7. \A type \in FormTypes : combo.type = type <=> Form(type)
  <2>1. ASSUME NEW type \in FormTypes, Form(type) PROVE combo.type = type
    BY <1>2, <1>5, <2>1
  <2>2. ASSUME NEW type \in FormTypes, combo.type = type PROVE Form(type)
    <3>1. type # "Invalid"
      BY DEF FormTypes
    <3>2. PICK other \in FormTypes : Form(other)
      BY <1>2, <1>6, <2>2, <3>1
    <3>3. other = type
      BY <2>1, <2>2, <3>2
    <3>4. QED
      BY <3>2, <3>3
  <2>3. QED
    BY <2>1, <2>2
<1>8. ASSUME IsValid(combo) PROVE MainRankIsOfTheBody(combo, play)
  <2>1. PICK type \in FormTypes : Form(type)
    BY <1>2, <1>6, <1>8 DEF IsValid
  <2>2. combo = Combo(type, Body(type), Len(cards))
    BY <1>2, <2>1
  <2>3. QED
    BY <1>1, <2>1, <2>2, MainRankOfTheBody DEF play
<1>9. QED
  BY <1>4, <1>7, <1>8 DEF AnalyzeNamesTheCombination, combo, play, Ranks, FormTypes

(* A play grown from cards of one deck keeps what Analyze relies on.       *)
THEOREM PlayInvariance == Spec => []PlayInv
<1>1. Init => PlayInv
  <2>1. SUFFICES ASSUME Init PROVE PlayInv
    OBVIOUS
  <2>2. cards = <<>> /\ Ranks = {}
    BY <2>1 DEF Init, Ranks, RanksOf
  <2>3. \A k : Cardinality(Times(k)) = 0
    BY <2>2, TimesAre, FS_EmptySet
  <2>4. QED
    BY <2>2, <2>3 DEF PlayInv
<1>2. PlayInv /\ [Next]_vars => PlayInv'
  <2>1. SUFFICES ASSUME PlayInv, [Next]_vars PROVE PlayInv'
    OBVIOUS
  <2>2. CASE cards' = cards
    BY <2>1, <2>2 DEF PlayInv, Ranks, Times, RanksOf, CountOf, CollectRanksByCount
  <2>3. QED
    BY <2>1, <2>2, PlayGrows DEF Next, Beat, vars
<1>3. QED
  BY <1>1, <1>2, PTL DEF Spec

(* Whatever ranks a play is made of and however many cards it has, Analyze *)
(* names the one combination that the reference knows for it, with the     *)
(* main rank of its body, and none where the reference knows none.         *)
THEOREM AnalyzeIsExact == Spec => []AnalyzeNamesTheCombination
BY AnalyzeNames, PlayInvariance, PTL

LEMMA LengthOfRuns ==
  ASSUME NEW S, IsRun(S)
  PROVE  /\ Cardinality(S) \in 1..12
         /\ MaxRank(S) \in (2 + Cardinality(S))..14
<1>1. PICK low \in 3..14, high \in 3..14 : S = low..high
  BY RunsHaveNoGap
<1>2. S # {} /\ S \in SUBSET (3..17)
  BY <1>1 DEF IsRun, IsRunUpTo
<1>3. low <= high /\ low \in Int /\ high \in Int
  BY <1>1, <1>2
<1>4. Cardinality(S) = high - low + 1
  <2>1. Cardinality(low..high) = IF low > high THEN 0 ELSE high - low + 1
    BY <1>3, FS_Interval
  <2>2. QED
    BY <1>1, <1>3, <2>1
<1>5. MaxRank(S) = high
  <2>1. MaxRank(S) \in S /\ \A r \in S : r <= MaxRank(S)
    BY <1>2, GreatestRank
  <2>2. QED
    BY <1>1, <1>3, <2>1
<1>6. QED
  BY <1>1, <1>3, <1>4, <1>5

(* A play no longer than a hand can be: its combination is one of Combos.  *)
LEMMA AnalyzeOfAHand ==
  ASSUME PlayInv, Len(cards) <= 20
  PROVE  Analyze(cards) \in Combos \cup {NoCombo(Len(cards))}
<1> DEFINE n == Len(cards)
<1>1. SUFFICES ASSUME NEW type \in FormTypes, Form(type)
               PROVE  Combo(type, Body(type), n) \in Combos
  BY AnalyzeFindsTheForm
<1>2. PICK one \in Nat, two \in Nat, three \in Nat, four \in Nat :
        /\ one = Cardinality(Times(1)) /\ two = Cardinality(Times(2))
        /\ three = Cardinality(Times(3)) /\ four = Cardinality(Times(4))
  BY PlayFacts
<1>3. n = one + 2 * two + 3 * three + 4 * four /\ n <= 20
  BY <1>2 DEF PlayInv
<1>4. HasForm(type, one, two, three, four)
  BY <1>1, <1>2 DEF Form
<1> DEFINE top == MaxRank(Body(type))
<1>5. Combo(type, Body(type), n) = [type |-> type, main_rank |-> top, card_count |-> n]
  BY DEF Combo
<1>6. top \in Body(type) /\ top \in 3..17 /\ \A r \in Body(type) : r <= top
  <2>1. Body(type) # {} /\ Body(type) \in SUBSET (3..17)
    BY <1>1, BodyIsMost
  <2>2. QED
    BY <2>1, GreatestRank
<1>7. BodyTimes(type) # 1 => top \in 3..15
  <2>1. BodyTimes(type) # 1 => BodyTimes(type) \in 2..4
    BY DEF BodyTimes
  <2>2. BodyTimes(type) # 1 => Body(type) \subseteq 3..15
    BY <2>1, PlayFacts DEF Body, Suited
  <2>3. QED
    BY <1>6, <2>2
<1>8. type \in SizedTypes =>
        /\ Cardinality(Body(type)) \in 1..12
        /\ top \in (2 + Cardinality(Body(type)))..14
  BY <1>1, LengthOfRuns DEF Form
<1>9. type = "Rocket" => top = 17
  <2>1. ASSUME type = "Rocket" PROVE 17 \in Body(type)
    <3>1. BodyTimes(type) = 1
      BY <2>1 DEF BodyTimes
    <3>2. Ranks = Times(1) /\ Ranks = {SmallJoker, BigJoker}
      BY <1>1, <2>1, RanksByTimes DEF Form, HasForm
    <3>3. QED
      BY <3>1, <3>2 DEF Body, BigJoker
  <2>2. QED
    BY <1>6, <2>1
<1>10. /\ Cardinality(Body("Straight")) = one /\ Cardinality(Body("PairStraight")) = two
       /\ Cardinality(Body("Plane")) = three /\ Cardinality(Body("PlaneSingle")) = three
       /\ Cardinality(Body("PlanePair")) = three
  BY <1>2 DEF Body, BodyTimes
<1> HIDE DEF n, top
<1> DEFINE combo == [type |-> type, main_rank |-> top, card_count |-> n]
<1>11. CASE type \in {"Single", "Rocket"}
  <2>1. /\ type = "Single" => n = 1
        /\ type = "Rocket" => n = 2
    <3>1. ASSUME type = "Single" PROVE n = 1
      BY <1>3, <1>4, <3>1 DEF HasForm
    <3>2. ASSUME type = "Rocket" PROVE n = 2
      BY <1>3, <1>4, <3>2 DEF HasForm
    <3>3. QED
      BY <3>1, <3>2
  <2>2. /\ type = "Single" => combo \in CombosOf("Single", 3..17, {1})
        /\ type = "Rocket" => combo \in CombosOf("Rocket", {17}, {2})
    BY <1>6, <1>9, <2>1 DEF CombosOf
  <2>3. QED
    BY <1>5, <1>11, <2>2 DEF Combos
<1>12. CASE type \in {"Pair", "Triple", "Bomb", "TripleOne", "TriplePair",
                      "FourTwoSingles", "FourTwoPairs"}
  <2>1. top \in 3..15
    BY <1>7, <1>12 DEF BodyTimes
  <2>2. /\ type = "Pair" => n = 2
        /\ type = "Triple" => n = 3
        /\ type = "Bomb" => n = 4
        /\ type = "TripleOne" => n = 4
        /\ type = "TriplePair" => n = 5
        /\ type = "FourTwoSingles" => n = 6
        /\ type = "FourTwoPairs" => n = 8
    <3>1. ASSUME type = "Pair" PROVE n = 2
      BY <1>3, <1>4, <3>1 DEF HasForm
    <3>2. ASSUME type = "Triple" PROVE n = 3
      BY <1>3, <1>4, <3>2 DEF HasForm
    <3>3. ASSUME type = "Bomb" PROVE n = 4
      BY <1>3, <1>4, <3>3 DEF HasForm
    <3>4. ASSUME type = "TripleOne" PROVE n = 4
      BY <1>3, <1>4, <3>4 DEF HasForm
    <3>5. ASSUME type = "TriplePair" PROVE n = 5
      BY <1>3, <1>4, <3>5 DEF HasForm
    <3>6. ASSUME type = "FourTwoSingles" PROVE n = 6
      BY <1>3, <1>4, <3>6 DEF HasForm
    <3>7. ASSUME type = "FourTwoPairs" PROVE n = 8
      BY <1>3, <1>4, <3>7 DEF HasForm
    <3>8. QED
      BY <3>1, <3>2, <3>3, <3>4, <3>5, <3>6, <3>7
  <2>3. /\ type = "Pair" => combo \in CombosOf("Pair", 3..15, {2})
        /\ type = "Triple" => combo \in CombosOf("Triple", 3..15, {3})
        /\ type = "Bomb" => combo \in CombosOf("Bomb", 3..15, {4})
        /\ type = "TripleOne" => combo \in CombosOf("TripleOne", 3..15, {4})
        /\ type = "TriplePair" => combo \in CombosOf("TriplePair", 3..15, {5})
        /\ type = "FourTwoSingles" => combo \in CombosOf("FourTwoSingles", 3..15, {6})
        /\ type = "FourTwoPairs" => combo \in CombosOf("FourTwoPairs", 3..15, {8})
    BY <2>1, <2>2 DEF CombosOf
  <2>4. QED
    BY <1>5, <1>12, <2>3 DEF Combos
<1>13. CASE type = "Straight"
  <2>1. one \in 5..12 /\ n = one /\ top \in (2 + one)..14
    BY <1>3, <1>4, <1>8, <1>10, <1>13 DEF HasForm, SizedTypes
  <2>2. combo \in CombosOf("Straight", (2 + one)..14, {one})
    BY <1>13, <2>1 DEF CombosOf
  <2>3. QED
    BY <1>5, <2>1, <2>2 DEF Combos
<1>14. CASE type = "PairStraight"
  <2>1. two \in 3..10 /\ n = 2 * two /\ top \in (2 + two)..14
    BY <1>3, <1>4, <1>8, <1>10, <1>14 DEF HasForm, SizedTypes
  <2>2. combo \in CombosOf("PairStraight", (2 + two)..14, {2 * two})
    BY <1>14, <2>1 DEF CombosOf
  <2>3. QED
    BY <1>5, <2>1, <2>2 DEF Combos
<1>15. CASE type = "Plane"
  <2>1. three \in 2..6 /\ n = 3 * three /\ top \in (2 + three)..14
    BY <1>3, <1>4, <1>8, <1>10, <1>15 DEF HasForm, SizedTypes
  <2>2. combo \in CombosOf("Plane", (2 + three)..14, {3 * three})
    BY <1>15, <2>1 DEF CombosOf
  <2>3. QED
    BY <1>5, <2>1, <2>2 DEF Combos
<1>16. CASE type = "PlaneSingle"
  <2>1. three \in 2..5 /\ n = 4 * three /\ top \in (2 + three)..14
    BY <1>3, <1>4, <1>8, <1>10, <1>16 DEF HasForm, SizedTypes
  <2>2. combo \in CombosOf("PlaneSingle", (2 + three)..14, {4 * three})
    BY <1>16, <2>1 DEF CombosOf
  <2>3. QED
    BY <1>5, <2>1, <2>2 DEF Combos
<1>17. CASE type = "PlanePair"
  <2>1. three \in 2..4 /\ n = 5 * three /\ top \in (2 + three)..14
    BY <1>3, <1>4, <1>8, <1>10, <1>17 DEF HasForm, SizedTypes
  <2>2. combo \in CombosOf("PlanePair", (2 + three)..14, {5 * three})
    BY <1>17, <2>1 DEF CombosOf
  <2>3. QED
    BY <1>5, <2>1, <2>2 DEF Combos
<1>18. QED
  BY <1>1, <1>5, <1>11, <1>12, <1>13, <1>14, <1>15, <1>16, <1>17
     DEF FormTypes, ComboTypes, n

(* The combinations a trick is played with are all a hand can form: of at  *)
(* most twenty cards, the landlord's, Analyze returns one of them or none. *)
THEOREM HandsFormCombos ==
  ASSUME MaxCards <= 20
  PROVE  Spec => [](Analyze(cards) \in Combos \cup {NoCombo(Len(cards))})
<1> DEFINE Short == Len(cards) <= MaxCards
<1>1. Init => Short
  BY MaxCardsAssumption DEF Init
<1>2. PlayInv /\ Short /\ [Next]_vars => Short'
  <2>1. SUFFICES ASSUME PlayInv, Short, [Next]_vars PROVE Short'
    OBVIOUS
  <2>2. ASSUME NEW r \in CheckedRanks, AddCard(r) PROVE Short'
    <3>1. Len(cards') = Len(cards) + 1 /\ Len(cards) \in Nat
      BY <2>1, <2>2, OneMore DEF PlayInv
    <3>2. QED
      BY <2>2, <3>1, MaxCardsAssumption DEF AddCard
  <2>3. QED
    BY <2>1, <2>2 DEF Next, Beat, vars
<1>3. PlayInv /\ Short => Analyze(cards) \in Combos \cup {NoCombo(Len(cards))}
  <2>1. SUFFICES ASSUME PlayInv, Short
                 PROVE  Analyze(cards) \in Combos \cup {NoCombo(Len(cards))}
    OBVIOUS
  <2>2. Len(cards) <= 20
    BY <2>1, MaxCardsAssumption DEF PlayInv
  <2>3. QED
    BY <2>1, <2>2, AnalyzeOfAHand
<1> HIDE DEF Short
<1>4. QED
  BY <1>1, <1>2, <1>3, PlayInvariance, PTL DEF Spec
=============================================================================
