------------------------------- MODULE Cards -------------------------------
(***************************************************************************)
(* Deck, InfiniteDeck and Hand (src/games/cards.h, cards.cpp): cards are   *)
(* dealt from the back of a deck to the hands, and collected again.  A     *)
(* card is a pointer: its place in the new pack.  No code of the           *)
(* repository plays a card, so that m_cardsPlayed is empty.                *)
(***************************************************************************)
EXTENDS Integers, Sequences, FiniteSets

LOCAL INSTANCE SequencesExt
LOCAL INSTANCE Functions

CONSTANTS Suits, Values,   \* the suits and the values of the cards (bounds)
          MaxHands,        \* the largest number of hands (a bound)
          MaxHeld          \* the most cards that an infinite deck deals (a bound)

\* Ace, Nine, King, Joker and Wild are 1, 9, 13, 14 and 5 in the enumerations.
ASSUME CardsAssumption == Suits \subseteq 1 .. 4 /\ Values \subseteq 1 .. 13 /\ MaxHands \in Nat

VARIABLE deck   \* pack: the faces of all cards; cards: the deck, its bottom last; hands;
                \* infinite: whether it is an InfiniteDeck

DeckTypes == {"empty", "standard", "jokers", "euchre"}

---------------------------------------------------------------------------
(* The packs *)

Ascending(S) == SetToSortSeq(S, <)

OfSuit(suit, values) == [i \in DOMAIN values |-> [suit |-> suit, value |-> values[i]]]

StandardCards == FlattenSeq([s \in 1 .. Len(Ascending(Suits)) |-> OfSuit(Ascending(Suits)[s], Ascending(Values))])

Jokers == OfSuit(5, <<14, 14>>)

EuchreCards ==
  LET values == Ascending(Values \cap 9 .. 13) \o Ascending(Values \cap {1})
  IN  FlattenSeq([s \in 1 .. Len(Ascending(Suits)) |-> OfSuit(Ascending(Suits)[s], values)])

Pack(type) == CASE type = "standard" -> StandardCards
                [] type = "jokers"   -> StandardCards \o Jokers
                [] type = "euchre"   -> EuchreCards
                [] type = "empty"    -> <<>>

NewDeck(n, type, infinite) ==
  [pack |-> Pack(type), cards |-> [i \in DOMAIN Pack(type) |-> i],
   hands |-> [h \in 1 .. n |-> <<>>], infinite |-> infinite]

---------------------------------------------------------------------------
(* Dealing and collecting *)

\* pick_one: which card, and what remains of the deck.
Picks(d) ==
  IF d.infinite THEN {[card |-> c, cards |-> d.cards] : c \in Range(d.cards)}
  ELSE {[card |-> Last(d.cards), cards |-> Front(d.cards)]}

Give(d, h, pick) == [d EXCEPT !.cards = pick.cards, !.hands[h] = Append(@, pick.card)]

DealtOne(d, h) == {Give(d, h, p) : p \in Picks(d)}

\* A bug to detect: the last hand is skipped.
Next1Early(h, n) == IF h + 1 >= n THEN 1 ELSE h + 1

\* CircularInt::Increment: the hand after h.
Next1(h, n) == IF h + 1 > n THEN 1 ELSE h + 1

\* Deal, one card after the other, while there are cards and rounds.
RECURSIVE DealtFrom(_, _, _)
DealtFrom(d, h, left) ==
  IF left = 0 \/ d.cards = <<>> THEN {d}
  ELSE UNION {DealtFrom(e, Next1(h, Len(d.hands)), left - 1) : e \in DealtOne(d, h)}

Dealt(d, start, rounds) == DealtFrom(d, start, rounds * Len(d.hands))

\* A bug to detect: the hands keep their cards.
CollectedTwice(d) ==
  IF d.infinite THEN [d EXCEPT !.hands = [h \in DOMAIN @ |-> <<>>]]
  ELSE [d EXCEPT !.cards = @ \o FlattenSeq(d.hands)]

\* Collect: the hands go back into the deck, or, of an infinite deck, away.
Collected(d) ==
  [d EXCEPT !.hands = [h \in DOMAIN @ |-> <<>>],
            !.cards = IF d.infinite THEN @ ELSE @ \o FlattenSeq(d.hands)]

\* Shuffle: each card is taken from a random place of what is left.
RECURSIVE Shuffles(_)
Shuffles(cards) ==
  IF Len(cards) <= 1 THEN {cards}
  ELSE UNION {{<<cards[i]>> \o s : s \in Shuffles(RemoveAt(cards, i))} : i \in DOMAIN cards}

IsCollected(d) == \A h \in DOMAIN d.hands : d.hands[h] = <<>>

\* default_compare: by suit, then by value.
CardBefore(a, b) == a.suit < b.suit \/ (a.suit = b.suit /\ a.value < b.value)

\* Hand::Sort, which keeps the order of equal cards.
SortedHand(pack, hand) ==
  [i \in DOMAIN hand |->
     hand[CHOOSE j \in DOMAIN hand :
            i = 1 + Cardinality({k \in DOMAIN hand :
                      \/ CardBefore(pack[hand[k]], pack[hand[j]])
                      \/ ~CardBefore(pack[hand[j]], pack[hand[k]]) /\ k < j})]]

\* A bug to detect: ~InfiniteDeck leaves the hands to ~Deck.
DeletedByDeck(d) == Collected([d EXCEPT !.infinite = FALSE]).cards

\* ~InfiniteDeck collects its hands, then ~Deck, and deletes the cards of the deck.
Deleted(d) == IF d.infinite THEN Collected([Collected(d) EXCEPT !.infinite = FALSE]).cards
              ELSE Collected(d).cards

---------------------------------------------------------------------------
(* The actions *)

DeckInit == \E n \in 0 .. MaxHands, type \in DeckTypes, infinite \in BOOLEAN :
              /\ infinite => type = "standard"
              /\ deck = NewDeck(n, type, infinite)

Held(d) == Len(FlattenSeq(d.hands))

IsModelled(d, rounds) == d.infinite => Held(d) + rounds * Len(d.hands) <= MaxHeld

\* Deal with a starting hand beyond the last one throws.
Deal(start, rounds) ==
  /\ start \in DOMAIN deck.hands /\ IsModelled(deck, rounds)
  /\ deck' \in Dealt(deck, start, rounds)

\* A card of an empty deck is beyond the vector: not for a caller to do.
DealOne(h) == /\ h \in DOMAIN deck.hands /\ deck.cards # <<>>
              /\ deck.infinite => Held(deck) < MaxHeld
              /\ deck' \in DealtOne(deck, h)

Collect == deck' = Collected(deck)

Shuffle == \E s \in Shuffles(deck.cards) : deck' = [deck EXCEPT !.cards = s]

\* SetNumberHands throws unless the cards are collected.
SetNumberHands(n) ==
  IF IsCollected(deck) THEN deck' = [deck EXCEPT !.hands = [h \in 1 .. n |-> <<>>]]
  ELSE UNCHANGED deck

SortHand(h) == /\ h \in DOMAIN deck.hands
               /\ deck' = [deck EXCEPT !.hands[h] = SortedHand(deck.pack, @)]

DeckNext ==
  \/ \E start \in 1 .. MaxHands, rounds \in 0 .. MaxHeld : Deal(start, rounds)
  \/ \E h \in 1 .. MaxHands : DealOne(h) \/ SortHand(h)
  \/ Collect
  \/ Shuffle
  \/ \E n \in 0 .. MaxHands : SetNumberHands(n)

---------------------------------------------------------------------------
(* Properties *)

\* What Deal says of itself: even hands, and when the cards run out, the first hands from
\* the starting one on get one more.
DealtEvenly(d, e, start, rounds) ==
  LET n == Len(d.hands)
  IN  \A h \in 1 .. n :
        LET turn == (h - start + n) % n
            share == IF d.infinite THEN rounds ELSE (Len(d.cards) + n - 1 - turn) \div n
        IN  Len(e.hands[h]) - Len(d.hands[h]) = (IF share < rounds THEN share ELSE rounds)

\* However the cards are dealt, sorted, shuffled and collected, the destructors delete
\* each of them exactly once; a deal is even, and a sorted hand is in order.
CardsAreKept ==
  /\ IsInjective(Deleted(deck)) /\ Range(Deleted(deck)) = DOMAIN deck.pack
  /\ \A start \in DOMAIN deck.hands, rounds \in 0 .. 2 :
       IsModelled(deck, rounds) =>
         \A e \in Dealt(deck, start, rounds) : DealtEvenly(deck, e, start, rounds)
  /\ \A h \in DOMAIN deck.hands :
       LET sorted == SortedHand(deck.pack, deck.hands[h])
       IN  \A i, j \in DOMAIN sorted :
             i < j => ~CardBefore(deck.pack[sorted[j]], deck.pack[sorted[i]])
=============================================================================
