--------------------------- MODULE StoryGraphProofs ---------------------------
(***************************************************************************)
(* What the recursive definitions of StoryGraph compute, for every story:  *)
(* Without keeps what it should, and Explored is the least set of          *)
(* positions that holds the start and is closed under Moves.  There is no  *)
(* induction over operators here: a set of numbers with 0 that is closed   *)
(* under + 1 holds all of them (Climb), because a set of numbers without   *)
(* a least element is empty (Least).                                       *)
(***************************************************************************)
EXTENDS StoryGraph, FiniteSetTheorems, WellFoundedInduction, TLAPS

-----------------------------------------------------------------------------
(* Numbers *)

\* a set of numbers has a least element
LEMMA Least ==
  ASSUME NEW T, T \subseteq Nat, T # {}
  PROVE  \E n \in T : \A k \in T : n <= k
  <1>1. \E n \in T : \A k \in T : ~(<<k, n>> \in OpToRel(<, Nat))
    <2>. HIDE DEF OpToRel
    <2>1. IsWellFoundedOn(OpToRel(<, Nat), Nat)
      BY NatLessThanWellFounded
    <2>. QED BY <2>1, WFMin
  <1>2. PICK n \in T : \A k \in T : ~(<<k, n>> \in OpToRel(<, Nat))
    <2>. HIDE DEF OpToRel
    <2>. QED BY <1>1
  <1>3. ASSUME NEW k \in T, k < n PROVE <<k, n>> \in OpToRel(<, Nat)
    <2>1. <<k, n>> \in Nat \X Nat /\ <<k, n>>[1] = k /\ <<k, n>>[2] = n
      OBVIOUS
    <2>. QED BY <1>3, <2>1 DEF OpToRel
  <1>4. ASSUME NEW k \in T PROVE n <= k
    <2>1. n \in Nat /\ k \in Nat /\ ~(k < n)
      <3>. HIDE DEF OpToRel
      <3>. QED BY <1>2, <1>3
    <2>. QED BY <2>1
  <1>. QED BY <1>4

\* induction over the numbers, with a set for the induction hypothesis
LEMMA Climb ==
  ASSUME NEW T, T \subseteq Nat, 0 \in T, \A n \in T : n + 1 \in T
  PROVE  T = Nat
  <1>. SUFFICES ASSUME Nat \ T # {} PROVE FALSE
    OBVIOUS
  <1>1. PICK n \in Nat \ T : \A k \in Nat \ T : n <= k
    BY Least
  <1>2. n # 0 /\ n - 1 \in Nat
    BY <1>1
  <1>3. n - 1 \in T
    BY <1>1, <1>2
  <1>. QED BY <1>1, <1>2, <1>3

-----------------------------------------------------------------------------
(* Lists *)

LEMMA ListedOfEmpty == Listed(<<>>) = {} /\ ~NamesTwice(<<>>)
  BY DEF Listed, NamesTwice

LEMMA ListedWithin ==
  ASSUME NEW S, NEW list \in Seq(S)
  PROVE  Listed(list) \subseteq S
  BY DEF Listed

\* appending to a list
LEMMA Appended ==
  ASSUME NEW S, NEW list \in Seq(S), NEW x \in S
  PROVE  /\ Append(list, x) \in Seq(S)
         /\ Listed(Append(list, x)) = Listed(list) \cup {x}
         /\ x \notin Listed(list) /\ ~NamesTwice(list) => ~NamesTwice(Append(list, x))
         /\ Append(list, x) # <<>>
  <1>. DEFINE longer == Append(list, x)
  <1>1. /\ longer \in Seq(S) /\ Len(list) \in Nat /\ Len(longer) = Len(list) + 1
        /\ longer[Len(list) + 1] = x
        /\ \A i \in 1..Len(list) : longer[i] = list[i]
    OBVIOUS
  <1>. HIDE DEF longer
  <1>2. Listed(longer) = Listed(list) \cup {x}
    <2>1. 1..(Len(list) + 1) = 1..Len(list) \cup {Len(list) + 1}
      BY <1>1
    <2>. QED BY <1>1, <2>1 DEF Listed
  <1>3. ASSUME x \notin Listed(list), ~NamesTwice(list), NEW i \in 1..Len(longer),
               NEW k \in 1..Len(longer), i # k, longer[i] = longer[k]
        PROVE  FALSE
    <2>1. CASE i \in 1..Len(list) /\ k \in 1..Len(list)
      BY <1>1, <1>3, <2>1 DEF NamesTwice
    <2>2. CASE i = Len(list) + 1 /\ k \in 1..Len(list)
      BY <1>1, <1>3, <2>2 DEF Listed
    <2>3. CASE k = Len(list) + 1 /\ i \in 1..Len(list)
      BY <1>1, <1>3, <2>3 DEF Listed
    <2>. QED BY <1>1, <1>3, <2>1, <2>2, <2>3
  <1>4. longer # <<>>
    BY <1>1
  <1>. QED BY <1>1, <1>2, <1>3, <1>4 DEF NamesTwice, longer

\* The recursion of Without has a solution, so Without is what it says.
LEMMA WithoutUnfolds ==
  ASSUME NEW S, NEW list \in Seq(S), NEW set
  PROVE  \E kept :
           /\ kept[0] = <<>>
           /\ \A n \in 1..Len(list) :
                kept[n] = IF list[n] \in set THEN kept[n - 1] ELSE Append(kept[n - 1], list[n])
           /\ Without(list, set) = kept[Len(list)]
  <1>. DEFINE Solves(g, m) ==
                g = [n \in 0..m |-> IF n = 0 THEN <<>>
                                    ELSE IF list[n] \in set THEN g[n - 1] ELSE Append(g[n - 1], list[n])]
              T == {m \in Nat : \E g : Solves(g, m)}
  <1>1. 0 \in T
    <2>1. Solves([n \in 0..0 |-> <<>>], 0)
      OBVIOUS
    <2>. QED BY <2>1
  <1>2. ASSUME NEW m \in T PROVE m + 1 \in T
    <2>1. PICK g : Solves(g, m)
      OBVIOUS
    <2>. DEFINE h == [n \in 0..(m + 1) |->
                        IF n <= m THEN g[n]
                        ELSE IF list[m + 1] \in set THEN g[m] ELSE Append(g[m], list[m + 1])]
    <2>2. \A n \in 0..m : h[n] = g[n]
      OBVIOUS
    <2>3. \A n \in 0..m : g[n] = IF n = 0 THEN <<>>
                                ELSE IF list[n] \in set THEN g[n - 1] ELSE Append(g[n - 1], list[n])
      BY <2>1
    <2>4. \A n \in 0..(m + 1) :
            h[n] = IF n = 0 THEN <<>>
                   ELSE IF list[n] \in set THEN h[n - 1] ELSE Append(h[n - 1], list[n])
      <3>. TAKE n \in 0..(m + 1)
      <3>1. CASE n <= m
        <4>1. n \in 0..m /\ (n # 0 => n - 1 \in 0..m)
          BY <3>1
        <4>. HIDE DEF h
        <4>. QED BY <4>1, <2>2, <2>3
      <3>2. CASE n = m + 1
        BY <3>2
      <3>. QED BY <3>1, <3>2
    <2>5. Solves(h, m + 1)
      BY <2>4
    <2>. HIDE DEF Solves, h
    <2>. QED BY <2>5
  <1>3. T = Nat
    <2>. HIDE DEF T
    <2>1. T \subseteq Nat
      BY DEF T
    <2>. QED BY <1>1, <1>2, <2>1, Climb
  <1>4. Len(list) \in T
    BY <1>3
  <1>. DEFINE kept == CHOOSE g : Solves(g, Len(list))
  <1>5. Solves(kept, Len(list))
    <2>1. \E g : Solves(g, Len(list))
      BY <1>4
    <2>. HIDE DEF Solves
    <2>. QED BY <2>1
  <1>6. Without(list, set) = kept[Len(list)]
    BY DEF Without
  <1>7. /\ kept[0] = <<>>
        /\ \A n \in 1..Len(list) :
             kept[n] = IF list[n] \in set THEN kept[n - 1] ELSE Append(kept[n - 1], list[n])
    <2>1. \A n \in 0..Len(list) :
            kept[n] = IF n = 0 THEN <<>>
                      ELSE IF list[n] \in set THEN kept[n - 1] ELSE Append(kept[n - 1], list[n])
      <3>. HIDE DEF kept
      <3>. QED BY <1>5
    <2>2. Len(list) \in Nat
      OBVIOUS
    <2>. HIDE DEF kept
    <2>. QED BY <2>1, <2>2
  <1>. HIDE DEF kept
  <1>. QED BY <1>6, <1>7

\* What Without returns: the same list less the set, which names nothing twice
\* that the list did not.
LEMMA WithoutIsRight ==
  ASSUME NEW S, NEW list \in Seq(S), NEW set
  PROVE  /\ Without(list, set) \in Seq(S)
         /\ Listed(Without(list, set)) = Listed(list) \ set
         /\ ~NamesTwice(list) => ~NamesTwice(Without(list, set))
  <1>1. PICK kept :
           /\ kept[0] = <<>>
           /\ \A n \in 1..Len(list) :
                kept[n] = IF list[n] \in set THEN kept[n - 1] ELSE Append(kept[n - 1], list[n])
           /\ Without(list, set) = kept[Len(list)]
    BY WithoutUnfolds
  <1>. DEFINE Right(n) ==
                /\ kept[n] \in Seq(S)
                /\ Listed(kept[n]) = {list[i] : i \in 1..n} \ set
                /\ ~NamesTwice(list) => ~NamesTwice(kept[n])
              T == {n \in Nat : n <= Len(list) => Right(n)}
  <1>2. 0 \in T
    <2>1. {list[i] : i \in 1..0} = {}
      OBVIOUS
    <2>2. Right(0)
      BY <1>1, <2>1, ListedOfEmpty
    <2>. QED BY <2>2
  <1>3. ASSUME NEW n \in T PROVE n + 1 \in T
    <2>. SUFFICES ASSUME n + 1 <= Len(list) PROVE Right(n + 1)
      OBVIOUS
    <2>1. Right(n) /\ n + 1 \in 1..Len(list) /\ list[n + 1] \in S
      OBVIOUS
    <2>2. {list[i] : i \in 1..(n + 1)} = {list[i] : i \in 1..n} \cup {list[n + 1]}
      <3>1. 1..(n + 1) = 1..n \cup {n + 1}
        OBVIOUS
      <3>. QED BY <3>1
    <2>3. CASE list[n + 1] \in set
      <3>1. kept[n + 1] = kept[n]
        BY <1>1, <2>1, <2>3
      <3>. QED BY <2>1, <2>2, <2>3, <3>1
    <2>4. CASE list[n + 1] \notin set
      <3>1. kept[n + 1] = Append(kept[n], list[n + 1])
        <4>1. kept[n + 1] = Append(kept[(n + 1) - 1], list[n + 1])
          BY <1>1, <2>1, <2>4
        <4>. QED BY <4>1
      <3>2. /\ kept[n + 1] \in Seq(S)
            /\ Listed(kept[n + 1]) = Listed(kept[n]) \cup {list[n + 1]}
            /\ list[n + 1] \notin Listed(kept[n]) /\ ~NamesTwice(kept[n]) => ~NamesTwice(kept[n + 1])
        BY <2>1, <3>1, Appended
      <3>3. ~NamesTwice(list) => list[n + 1] \notin Listed(kept[n])
        BY <2>1 DEF NamesTwice
      <3>. QED BY <2>1, <2>2, <2>4, <3>2, <3>3
    <2>. QED BY <2>3, <2>4
  <1>4. T = Nat
    <2>. HIDE DEF T
    <2>1. T \subseteq Nat
      BY DEF T
    <2>. QED BY <1>2, <1>3, <2>1, Climb
  <1>5. Right(Len(list))
    <2>1. Len(list) \in Nat /\ Len(list) \in T
      <3>1. Len(list) \in Nat
        OBVIOUS
      <3>. HIDE DEF T
      <3>. QED BY <1>4, <3>1
    <2>. QED BY <2>1
  <1>. QED BY <1>1, <1>5 DEF Listed

-----------------------------------------------------------------------------
(* Positions *)

\* Every position there could be, and how many they are at most.
AllPositions(story) == {Position(scene, flags) : scene \in story.scenes, flags \in SUBSET story.flags}

Most(story) == Cardinality(story.scenes) * 2^Cardinality(story.flags)

FiniteStory(story) == IsFiniteSet(story.scenes) /\ IsFiniteSet(story.flags)

Nexts(story, positions) == UNION {Moves(story, at) : at \in positions}

LEMMA PositionsAreFew ==
  ASSUME NEW story, FiniteStory(story)
  PROVE  /\ IsFiniteSet(AllPositions(story))
         /\ Cardinality(AllPositions(story)) \in Nat
         /\ Most(story) \in Nat
         /\ Cardinality(AllPositions(story)) <= Most(story)
  <1>. DEFINE pairs == story.scenes \X SUBSET story.flags
              at == [pair \in pairs |-> Position(pair[1], pair[2])]
  <1>1. /\ IsFiniteSet(SUBSET story.flags)
        /\ Cardinality(SUBSET story.flags) = 2^Cardinality(story.flags)
    BY FS_SUBSET DEF FiniteStory
  <1>2. IsFiniteSet(pairs) /\ Cardinality(pairs) = Most(story)
    BY <1>1, FS_Product DEF FiniteStory, Most
  <1>3. at \in Surjection(pairs, AllPositions(story))
    <2>1. \A pair \in pairs : at[pair] \in AllPositions(story)
      BY DEF AllPositions
    <2>2. ASSUME NEW position \in AllPositions(story) PROVE \E pair \in pairs : at[pair] = position
      <3>1. PICK scene \in story.scenes, flags \in SUBSET story.flags : position = Position(scene, flags)
        BY DEF AllPositions
      <3>2. <<scene, flags>> \in pairs /\ at[<<scene, flags>>] = position
        BY <3>1
      <3>. QED BY <3>2
    <2>3. at \in [pairs -> AllPositions(story)]
      BY <2>1
    <2>. HIDE DEF at, pairs
    <2>. QED BY <2>2, <2>3 DEF Surjection
  <1>. HIDE DEF at, pairs
  <1>4. IsFiniteSet(AllPositions(story)) /\ Cardinality(AllPositions(story)) <= Cardinality(pairs)
    BY <1>2, <1>3, FS_Surjection
  <1>5. Cardinality(AllPositions(story)) \in Nat /\ Cardinality(pairs) \in Nat
    BY <1>2, <1>4, FS_CardinalityType
  <1>. QED BY <1>2, <1>4, <1>5

LEMMA StartIsPosition ==
  ASSUME NEW story, ValidGraph(story)
  PROVE  Start(story) \in AllPositions(story)
  BY DEF ValidGraph, Start, AllPositions

\* an offer of a position: one of the actions of its scene, one of its effects
LEMMA OfferMeans ==
  ASSUME NEW story, NEW at, NEW offer \in Offered(story, at)
  PROVE  /\ offer[1] \in story.actions /\ offer[1].scene = at.scene
         /\ offer[2] \in Effects(offer[1])
         /\ IsAvailable(offer[1], at.flags) /\ ~PassedOver(story, at, offer[2])
  <1>1. PICK action \in ActionsAt(story, at.scene) : offer \in {action} \X Effects(action)
    BY DEF Offered
  <1>2. offer[1] = action /\ offer[2] \in Effects(action)
    BY <1>1
  <1>. QED BY <1>1, <1>2 DEF Offered, ActionsAt

\* the offer of an action that is here
LEMMA MakesOffer ==
  ASSUME NEW story, NEW at, NEW action \in ActionsAt(story, at.scene), NEW effect \in Effects(action),
         IsAvailable(action, at.flags), ~PassedOver(story, at, effect)
  PROVE  <<action, effect>> \in Offered(story, at)
  <1>1. /\ <<action, effect>> \in {action} \X Effects(action)
        /\ <<action, effect>>[1] = action /\ <<action, effect>>[2] = effect
    OBVIOUS
  <1>2. <<action, effect>> \in UNION {{a} \X Effects(a) : a \in ActionsAt(story, at.scene)}
    BY <1>1
  <1>. QED BY <1>1, <1>2 DEF Offered

LEMMA MovesStay ==
  ASSUME NEW story, ValidGraph(story), NEW at \in AllPositions(story)
  PROVE  Moves(story, at) \subseteq AllPositions(story)
  <1>1. at.scene \in story.scenes /\ at.flags \subseteq story.flags
    BY DEF AllPositions, Position
  <1>2. ASSUME NEW offer \in Offered(story, at)
        PROVE  Target(story, at, offer) \in AllPositions(story)
    <2>1. EffectIsValid(story, offer[2])
      BY OfferMeans DEF ValidGraph, ActionIsValid
    <2>2. story.combat[at.scene] # NoRef => story.combat[at.scene].started \in story.flags
      BY <1>1 DEF ValidGraph, CombatIsValid
    <2>3. Resulting(story, at, offer[1], offer[2]) \subseteq story.flags
      BY <1>1, <2>1, <2>2 DEF Resulting, EffectIsValid
    <2>4. offer[2].next = NoRef \/ offer[2].next \in story.scenes
      BY <2>1 DEF EffectIsValid
    <2>. QED BY <1>1, <2>3, <2>4 DEF Target, AllPositions
  <1>. QED BY <1>2 DEF Moves

-----------------------------------------------------------------------------
(* Explored is the least closed set of positions *)

LEMMA ExploredUnfolds ==
  ASSUME NEW story, FiniteStory(story)
  PROVE  \E within :
           /\ within[0] = {Start(story)}
           /\ \A n \in 1..Most(story) :
                within[n] = within[n - 1] \cup Nexts(story, within[n - 1])
           /\ Explored(story) = within[Most(story)]
  <1>. DEFINE Solves(g, m) ==
                g = [n \in 0..m |-> IF n = 0 THEN {Start(story)}
                                    ELSE g[n - 1] \cup Nexts(story, g[n - 1])]
              T == {m \in Nat : \E g : Solves(g, m)}
  <1>1. 0 \in T
    <2>1. Solves([n \in 0..0 |-> {Start(story)}], 0)
      OBVIOUS
    <2>. QED BY <2>1
  <1>2. ASSUME NEW m \in T PROVE m + 1 \in T
    <2>1. PICK g : Solves(g, m)
      OBVIOUS
    <2>. DEFINE h == [n \in 0..(m + 1) |-> IF n <= m THEN g[n] ELSE g[m] \cup Nexts(story, g[m])]
    <2>2. \A n \in 0..m : h[n] = g[n]
      OBVIOUS
    <2>3. \A n \in 0..m : g[n] = IF n = 0 THEN {Start(story)}
                                ELSE g[n - 1] \cup Nexts(story, g[n - 1])
      BY <2>1
    <2>4. \A n \in 0..(m + 1) : h[n] = IF n = 0 THEN {Start(story)}
                                      ELSE h[n - 1] \cup Nexts(story, h[n - 1])
      <3>. TAKE n \in 0..(m + 1)
      <3>1. CASE n <= m
        <4>1. n \in 0..m /\ (n # 0 => n - 1 \in 0..m)
          BY <3>1
        <4>. HIDE DEF h
        <4>. QED BY <4>1, <2>2, <2>3
      <3>2. CASE n = m + 1
        <4>1. m \in 0..m /\ h[m] = g[m] /\ h[m + 1] = g[m] \cup Nexts(story, g[m])
          OBVIOUS
        <4>2. n # 0 /\ n - 1 = m
          BY <3>2
        <4>. HIDE DEF h
        <4>. QED BY <3>2, <4>1, <4>2
      <3>. QED BY <3>1, <3>2
    <2>5. Solves(h, m + 1)
      BY <2>4
    <2>. HIDE DEF Solves, h
    <2>. QED BY <2>5
  <1>3. T = Nat
    <2>. HIDE DEF T
    <2>1. T \subseteq Nat
      BY DEF T
    <2>. QED BY <1>1, <1>2, <2>1, Climb
  <1>4. Most(story) \in Nat
    BY PositionsAreFew
  <1>. DEFINE within == CHOOSE g : Solves(g, Most(story))
  <1>5. Solves(within, Most(story))
    <2>1. \E g : Solves(g, Most(story))
      BY <1>3, <1>4
    <2>. HIDE DEF Solves
    <2>. QED BY <2>1
  <1>6. Explored(story) = within[Most(story)]
    BY DEF Explored, Most, Nexts
  <1>7. \A n \in 0..Most(story) : within[n] = IF n = 0 THEN {Start(story)}
                                             ELSE within[n - 1] \cup Nexts(story, within[n - 1])
    <2>. HIDE DEF within
    <2>. QED BY <1>5
  <1>. HIDE DEF within
  <1>8. within[0] = {Start(story)}
    <2>1. 0 \in 0..Most(story)
      BY <1>4
    <2>. HIDE DEF Solves, T
    <2>. QED BY <1>7, <2>1
  <1>9. ASSUME NEW n \in 1..Most(story)
        PROVE  within[n] = within[n - 1] \cup Nexts(story, within[n - 1])
    <2>1. n \in 0..Most(story) /\ n # 0
      BY <1>4
    <2>. QED BY <1>7, <2>1
  <1>. QED BY <1>6, <1>8, <1>9

\* The set of explored positions holds the start, is closed under moves, is within
\* every set that does and is, and is finite.
THEOREM ExploredIsLeast ==
  ASSUME NEW story, FiniteStory(story), ValidGraph(story)
  PROVE  /\ Start(story) \in Explored(story)
         /\ \A at \in Explored(story) : Moves(story, at) \subseteq Explored(story)
         /\ \A positions : Start(story) \in positions /\ Nexts(story, positions) \subseteq positions
               => Explored(story) \subseteq positions
         /\ Explored(story) \subseteq AllPositions(story)
         /\ IsFiniteSet(Explored(story)) /\ Cardinality(Explored(story)) \in Nat
  <1>1. PICK within :
           /\ within[0] = {Start(story)}
           /\ \A n \in 1..Most(story) :
                within[n] = within[n - 1] \cup Nexts(story, within[n - 1])
           /\ Explored(story) = within[Most(story)]
    BY ExploredUnfolds
  <1>2. Most(story) \in Nat
    BY PositionsAreFew
  <1>3. ASSUME NEW n \in Nat, n + 1 <= Most(story)
        PROVE  within[n + 1] = within[n] \cup Nexts(story, within[n])
    <2>1. n + 1 \in 1..Most(story) /\ (n + 1) - 1 = n
      BY <1>2, <1>3
    <2>. QED BY <1>1, <2>1
  <1>4. Start(story) \in Explored(story)
    <2>. DEFINE T == {n \in Nat : n <= Most(story) => Start(story) \in within[n]}
    <2>1. 0 \in T
      BY <1>1
    <2>2. ASSUME NEW n \in T PROVE n + 1 \in T
      BY <1>2, <1>3
    <2>3. T \subseteq Nat
      OBVIOUS
    <2>4. Most(story) \in T
      <3>. HIDE DEF T
      <3>. QED BY <1>2, <2>1, <2>2, <2>3, Climb
    <2>. QED BY <1>1, <1>2, <2>4
  <1>5. ASSUME NEW positions, Start(story) \in positions, Nexts(story, positions) \subseteq positions
        PROVE  Explored(story) \subseteq positions
    <2>. DEFINE T == {n \in Nat : n <= Most(story) => within[n] \subseteq positions}
    <2>1. 0 \in T
      BY <1>1, <1>5
    <2>2. ASSUME NEW n \in T PROVE n + 1 \in T
      <3>1. within[n] \subseteq positions => Nexts(story, within[n]) \subseteq positions
        BY <1>5 DEF Nexts
      <3>. QED BY <1>2, <1>3, <3>1
    <2>3. T \subseteq Nat
      OBVIOUS
    <2>4. Most(story) \in T
      <3>. HIDE DEF T
      <3>. QED BY <1>2, <2>1, <2>2, <2>3, Climb
    <2>. QED BY <1>1, <1>2, <2>4
  <1>6. Explored(story) \subseteq AllPositions(story)
    <2>1. Nexts(story, AllPositions(story)) \subseteq AllPositions(story)
      BY MovesStay DEF Nexts
    <2>. QED BY <1>5, <2>1, StartIsPosition
  <1>7. IsFiniteSet(Explored(story)) /\ Cardinality(Explored(story)) <= Most(story)
        /\ Cardinality(Explored(story)) \in Nat
    <2>1. IsFiniteSet(AllPositions(story)) /\ Cardinality(AllPositions(story)) \in Nat
          /\ Cardinality(AllPositions(story)) <= Most(story)
      BY PositionsAreFew
    <2>2. /\ IsFiniteSet(Explored(story))
          /\ Cardinality(Explored(story)) <= Cardinality(AllPositions(story))
      BY <1>6, <2>1, FS_Subset
    <2>3. Cardinality(Explored(story)) \in Nat
      BY <2>2, FS_CardinalityType
    <2>. QED BY <1>2, <2>1, <2>2, <2>3
  \* within n moves there are more than n positions, unless they are closed
  <1>8. Nexts(story, Explored(story)) \subseteq Explored(story)
    <2>. DEFINE Large(n) == IsFiniteSet(within[n]) /\ Cardinality(within[n]) > n
                Closed(n) == Nexts(story, within[n]) \subseteq within[n]
                T == {n \in Nat : n <= Most(story) => Large(n) \/ Closed(n)}
    <2>1. 0 \in T
      <3>1. IsFiniteSet({Start(story)}) /\ Cardinality({Start(story)}) = 1
        BY FS_Singleton
      <3>. QED BY <1>1, <3>1
    <2>2. ASSUME NEW n \in T PROVE n + 1 \in T
      <3>. SUFFICES ASSUME n + 1 <= Most(story) PROVE Large(n + 1) \/ Closed(n + 1)
        OBVIOUS
      <3>1. Large(n) \/ Closed(n)
        BY <1>2
      <3>2. within[n + 1] = within[n] \cup Nexts(story, within[n])
        BY <1>3
      <3>3. CASE Closed(n)
        <4>1. within[n + 1] = within[n]
          BY <3>2, <3>3
        <4>. QED BY <3>3, <4>1
      <3>4. CASE ~Closed(n) /\ ~Closed(n + 1)
        <4>1. PICK new \in Nexts(story, within[n]) : new \notin within[n]
          BY <3>4
        <4>2. within[n] \cup {new} \subseteq within[n + 1]
          BY <3>2, <4>1
        <4>3. /\ IsFiniteSet(within[n] \cup {new})
              /\ Cardinality(within[n] \cup {new}) = Cardinality(within[n]) + 1
              /\ Cardinality(within[n]) \in Nat
          BY <3>1, <3>4, <4>1, FS_AddElement, FS_CardinalityType
        <4>4. within[n + 1] \subseteq AllPositions(story)
          <5>. DEFINE U == {m \in Nat : m <= Most(story) => within[m] \subseteq AllPositions(story)}
          <5>1. 0 \in U
            BY <1>1, StartIsPosition
          <5>2. ASSUME NEW m \in U PROVE m + 1 \in U
            <6>1. within[m] \subseteq AllPositions(story)
                    => Nexts(story, within[m]) \subseteq AllPositions(story)
              BY MovesStay DEF Nexts
            <6>. QED BY <1>2, <1>3, <6>1
          <5>3. U \subseteq Nat
            OBVIOUS
          <5>4. n + 1 \in U
            <6>. HIDE DEF U
            <6>. QED BY <5>1, <5>2, <5>3, Climb
          <5>. QED BY <5>4
        <4>5. IsFiniteSet(within[n + 1])
          BY <4>4, PositionsAreFew, FS_Subset
        <4>6. Cardinality(within[n] \cup {new}) <= Cardinality(within[n + 1])
              /\ Cardinality(within[n + 1]) \in Nat
          BY <4>2, <4>5, FS_Subset, FS_CardinalityType
        <4>. QED BY <3>1, <3>4, <4>3, <4>5, <4>6
      <3>. QED BY <3>3, <3>4
    <2>3. T \subseteq Nat
      OBVIOUS
    <2>4. Most(story) \in T
      <3>. HIDE DEF T
      <3>. QED BY <1>2, <2>1, <2>2, <2>3, Climb
    <2>5. Large(Most(story)) \/ Closed(Most(story))
      BY <1>2, <2>4
    <2>. QED BY <1>1, <1>2, <1>7, <2>5
  <1>. QED BY <1>4, <1>5, <1>6, <1>7, <1>8 DEF Nexts

-----------------------------------------------------------------------------
(* Endings *)

\* The ending of an effect is one of the story's, or none; none for an effect
\* that names none, and one for an effect that names one.
LEMMA EndingOfIsRight ==
  ASSUME NEW story, NEW effect, EffectIsValid(story, effect), Len(effect.overrides) \in Nat, NEW flags
  PROVE  /\ EndingOf(effect, flags) \in story.endings \cup {NoRef}
         /\ effect.ending = NoRef => EndingOf(effect, flags) = NoRef
         /\ effect.ending # NoRef => EndingOf(effect, flags) \in story.endings
  <1>. DEFINE held == {i \in 1..Len(effect.overrides) : effect.overrides[i].requires \subseteq flags}
  <1>1. CASE held = {}
    <2>1. EndingOf(effect, flags) = effect.ending
      BY <1>1 DEF EndingOf
    <2>. QED BY <2>1 DEF EffectIsValid
  <1>2. CASE held # {}
    <2>1. \E i \in held : \A k \in held : i <= k
      <3>1. held \subseteq Nat
        OBVIOUS
      <3>. HIDE DEF held
      <3>. QED BY <1>2, <3>1, Least
    <2>. DEFINE first == CHOOSE i \in held : \A k \in held : i <= k
    <2>2. first \in held
      <3>. HIDE DEF held
      <3>. QED BY <2>1
    <2>3. EndingOf(effect, flags) = effect.overrides[first].ending
      BY <1>2 DEF EndingOf
    <2>4. first \in 1..Len(effect.overrides)
      <3>. HIDE DEF first
      <3>. QED BY <2>2
    <2>5. effect.overrides # <<>>
      <3>. HIDE DEF first
      <3>. QED BY <2>4
    <2>. HIDE DEF first, held
    <2>. QED BY <2>3, <2>4, <2>5 DEF EffectIsValid
  <1>. QED BY <1>1, <1>2

===============================================================================
