----------------------------- MODULE WordProofs -----------------------------
(***************************************************************************)
(* Proofs about module SecretWord, for any packs, custom words, texts and  *)
(* number of turns: what the hints show.  What is said to the room is left *)
(* to TLC: it is computed by recursion over texts.                         *)
(***************************************************************************)
EXTENDS SecretWord, FiniteSetTheorems, TLAPS

\* What a hint is made of.
Letters == STRING
Chars   == Letters \cup {Space, Hidden}

\* The types the proofs need.
Typed ==
    /\ offered \subseteq Words /\ word \in Words \cup {<<>>}
    /\ word # <<>> => hint \in [DOMAIN word -> Chars]
    /\ tasks \subseteq {"hint40", "hint70"}

WordInv == Typed /\ HintIsHonest

\* Characters of the word that the hint h shows, and those it hides.
Shown(w, h)    == {i \in Inked(w) : h[i] # Hidden}
HiddenIn(h)    == {i \in DOMAIN h : h[i] = Hidden}

\* A word is a finite sequence with something in it that is no space.
LEMMA WordsHaveInk ==
    ASSUME NEW w \in Words
    PROVE  /\ w # <<>> /\ \E i \in DOMAIN w : w[i] # Space
           /\ w \in [DOMAIN w -> Chars] /\ IsFiniteSet(DOMAIN w)
<1>1. w \in Seq(Letters) /\ \E i \in DOMAIN w : w[i] # Space
  BY WordAssumption, Zenon DEF Words, Letters, Space
<1>2. DOMAIN w = 1..Len(w) /\ Len(w) \in Nat BY <1>1
<1>3. IsFiniteSet(DOMAIN w) BY <1>2, FS_Interval
<1>4. w \in [DOMAIN w -> Chars] BY <1>1 DEF Chars
<1>5. QED BY <1>1, <1>3, <1>4

\* There are two hint tasks.
LEMMA TwoTasks ==
    /\ Cardinality({"hint40", "hint70"}) = 2
    /\ \A t : t \subseteq {"hint40", "hint70"} => IsFiniteSet(t)
<1>1. IsFiniteSet({"hint40"}) /\ Cardinality({"hint40"}) = 1 BY FS_Singleton
<1>2. /\ IsFiniteSet({"hint40"} \cup {"hint70"})
      /\ Cardinality({"hint40"} \cup {"hint70"}) = 2
  BY <1>1, FS_AddElement
<1>3. {"hint40", "hint70"} = {"hint40"} \cup {"hint70"} OBVIOUS
<1>4. QED BY <1>2, <1>3, FS_Subset

\* generate_initial_hint hides every letter.
LEMMA InitialHintHides ==
    ASSUME NEW w \in Words
    PROVE  /\ InitialHint(w) \in [DOMAIN w -> Chars]
           /\ \A i \in DOMAIN w : InitialHint(w)[i] = IF w[i] = Space THEN Space ELSE Hidden
           /\ Shown(w, InitialHint(w)) = {}
<1>1. \A i \in DOMAIN w : InitialHint(w)[i] = IF w[i] = Space THEN Space ELSE Hidden
  BY DEF InitialHint
<1>2. Space \in Chars /\ Hidden \in Chars BY DEF Chars
<1>3. InitialHint(w) \in [DOMAIN w -> Chars] BY <1>2 DEF InitialHint
<1>4. Shown(w, InitialHint(w)) = {} BY <1>1 DEF Shown, Inked
<1>5. QED BY <1>1, <1>3, <1>4

\* handle_word_selection starts with an honest hint.
LEMMA SelectWordKeeps ==
    ASSUME WordInv, NEW w \in Words, SelectWord(w)
    PROVE  WordInv'
<1>1. word' = w /\ hint' = InitialHint(w) /\ tasks' = {"hint40", "hint70"} /\ offered' = {}
  BY DEF SelectWord
<1>2. Typed' BY <1>1, InitialHintHides DEF Typed
<1>4. HintIsHonest'
  <2>1. \A i \in DOMAIN w : hint'[i] = w[i] \/ (hint'[i] = Hidden /\ w[i] # Space)
    BY <1>1, InitialHintHides
  <2>2. \E i \in DOMAIN w : hint'[i] = Hidden BY <1>1, InitialHintHides, WordsHaveInk
  <2>3. Cardinality(Shown(w, hint')) + Cardinality(tasks') <= 2
    BY <1>1, InitialHintHides, TwoTasks, FS_EmptySet
  <2>4. QED BY <1>1, <2>1, <2>2, <2>3 DEF HintIsHonest, Shown
<1>5. QED BY <1>2, <1>4 DEF WordInv

\* reveal_hint_char shows one more letter at most, and never the last.
LEMMA RevealHintKeeps ==
    ASSUME WordInv, NEW task \in tasks, RevealHint(task)
    PROVE  WordInv'
<1>1. Typed /\ HintIsHonest BY DEF WordInv
<1>2. /\ word # <<>> /\ tasks' = tasks \ {task} /\ UNCHANGED <<custom, used, offered, word>>
      /\ \/ hint' = hint
         \/ \E i \in Revealable : hint' = [hint EXCEPT ![i] = word[i]]
  BY DEF RevealHint
<1>3. /\ word \in Words /\ hint \in [DOMAIN word -> Chars]
      /\ word \in [DOMAIN word -> Chars] /\ IsFiniteSet(DOMAIN word)
  BY <1>1, <1>2, WordsHaveInk DEF Typed
<1>4. /\ IsFiniteSet(tasks) /\ IsFiniteSet(tasks') /\ Cardinality(tasks') = Cardinality(tasks) - 1
      /\ Cardinality(tasks) \in Nat
  BY <1>1, <1>2, TwoTasks, FS_RemoveElement, FS_CardinalityType DEF Typed
<1>5. /\ \A i \in DOMAIN word : hint[i] = word[i] \/ (hint[i] = Hidden /\ word[i] # Space)
      /\ \E i \in DOMAIN word : hint[i] = Hidden
      /\ Cardinality(Shown(word, hint)) + Cardinality(tasks) <= 2
  BY <1>1, <1>2 DEF HintIsHonest, Shown
<1>7. IsFiniteSet(Shown(word, hint)) /\ Cardinality(Shown(word, hint)) \in Nat
  BY <1>3, FS_Subset, FS_CardinalityType DEF Shown, Inked
<1>8. CASE hint' = hint
  <2>1. Typed' BY <1>1, <1>2, <1>8 DEF Typed
  <2>2. Cardinality(Shown(word, hint)) + Cardinality(tasks') <= 2 BY <1>4, <1>5, <1>7
  <2>3. HintIsHonest' BY <1>2, <1>5, <1>8, <2>2 DEF HintIsHonest, Shown
  <2>4. QED BY <2>1, <2>3 DEF WordInv
<1>9. CASE \E i \in Revealable : hint' = [hint EXCEPT ![i] = word[i]]
  <2>1. PICK i \in Revealable : hint' = [hint EXCEPT ![i] = word[i]] BY <1>9
  <2>2. i \in DOMAIN word /\ hint[i] = Hidden /\ ~(Cardinality(HiddenIn(hint)) <= 1)
    BY <1>3, <2>1 DEF Revealable, HiddenIn
  <2>3. PICK j \in HiddenIn(hint) : j # i
    <3> SUFFICES ASSUME HiddenIn(hint) \subseteq {i} PROVE FALSE OBVIOUS
    <3>1. IsFiniteSet({i}) /\ Cardinality({i}) = 1 BY FS_Singleton
    <3>2. Cardinality(HiddenIn(hint)) <= 1 BY <3>1, FS_Subset
    <3>3. QED BY <2>2, <3>2
  <2>4. /\ hint' \in [DOMAIN word -> Chars] /\ hint'[i] = word[i]
        /\ \A k \in DOMAIN word \ {i} : hint'[k] = hint[k]
    BY <1>3, <2>1, <2>2
  <2>5. Typed' BY <1>1, <1>2, <2>4 DEF Typed
  <2>6. \A k \in DOMAIN word : hint'[k] = word[k] \/ (hint'[k] = Hidden /\ word[k] # Space)
    BY <1>5, <2>4
  <2>7. \E k \in DOMAIN word : hint'[k] = Hidden BY <1>3, <2>3, <2>4 DEF HiddenIn
  <2>8. Cardinality(Shown(word, hint')) <= Cardinality(Shown(word, hint)) + 1
    <3>1. Shown(word, hint') \subseteq Shown(word, hint) \cup {i} BY <2>4 DEF Shown, Inked
    <3>2. /\ IsFiniteSet(Shown(word, hint) \cup {i})
          /\ Cardinality(Shown(word, hint) \cup {i}) <= Cardinality(Shown(word, hint)) + 1
      <4> DEFINE S == Shown(word, hint)
      <4>1. IsFiniteSet(S) /\ Cardinality(S) \in Nat BY <1>7
      <4> HIDE DEF S
      <4>2. /\ IsFiniteSet(S \cup {i})
            /\ Cardinality(S \cup {i}) = IF i \in S THEN Cardinality(S) ELSE Cardinality(S) + 1
        BY <4>1, FS_AddElement, Zenon
      <4>3. IsFiniteSet(S \cup {i}) /\ Cardinality(S \cup {i}) <= Cardinality(S) + 1
        BY <4>1, <4>2
      <4>4. QED BY <4>3 DEF S
    <3>3. /\ Cardinality(Shown(word, hint')) <= Cardinality(Shown(word, hint) \cup {i})
          /\ Cardinality(Shown(word, hint')) \in Nat /\ Cardinality(Shown(word, hint) \cup {i}) \in Nat
      BY <3>1, <3>2, FS_Subset, FS_CardinalityType
    <3>4. QED BY <1>7, <3>2, <3>3
  <2>9. Cardinality(Shown(word, hint')) \in Nat
    BY <1>3, FS_Subset, FS_CardinalityType DEF Shown, Inked
  <2>10. Cardinality(Shown(word, hint')) + Cardinality(tasks') <= 2
    BY <1>4, <1>5, <1>7, <2>8, <2>9
  <2>11. HintIsHonest' BY <1>2, <2>6, <2>7, <2>10 DEF HintIsHonest, Shown
  <2>12. QED BY <2>5, <2>11 DEF WordInv
<1>10. QED BY <1>2, <1>8, <1>9

\* draw_word_pack_choices offers words of the packs.
LEMMA StartTurnKeeps ==
    ASSUME WordInv, StartTurn
    PROVE  WordInv'
<1>1. Typed /\ HintIsHonest BY DEF WordInv
<1>2. word = <<>> /\ UNCHANGED <<word, hint, tasks>> BY DEF StartTurn
<1>3. offered' \subseteq Words BY DEF StartTurn
<1>4. QED BY <1>1, <1>2, <1>3 DEF WordInv, Typed, HintIsHonest
-----------------------------------------------------------------------------
\* Nothing is offered at the start.
LEMMA WordInit ==
    WInit => WordInv
BY DEF WInit, WordInv, Typed, HintIsHonest

\* Every step keeps the invariant.
LEMMA WordStep ==
    WordInv /\ [WNext]_wvars => WordInv'
<1> SUFFICES ASSUME WordInv, [WNext]_wvars PROVE WordInv' OBVIOUS
<1> DEFINE Same == UNCHANGED <<offered, word, hint, tasks>>
           Over == word' = <<>> /\ tasks' = {} /\ UNCHANGED offered
<1>1. CASE Same
  BY <1>1 DEF WordInv, Typed, HintIsHonest
<1>2. CASE Over
  BY <1>2 DEF WordInv, Typed, HintIsHonest
<1>3. CASE UNCHANGED wvars BY <1>1, <1>3 DEF wvars
<1>4. CASE StartTurn BY <1>4, StartTurnKeeps
<1>5. ASSUME NEW w \in Words, SelectWord(w) PROVE WordInv'
  BY <1>5, SelectWordKeeps
<1>6. ASSUME NEW task \in tasks, RevealHint(task) PROVE WordInv'
  BY <1>6, RevealHintKeeps
<1>7. CASE EndTurn BY <1>2, <1>7 DEF EndTurn, TurnOver
<1>8. CASE Rematch
  BY <1>8 DEF Rematch, WordInv, Typed, HintIsHonest
<1>9. ASSUME NEW p, NEW text, NEW shown, Broadcast(p, text, shown) PROVE Same
  BY <1>9 DEF Broadcast
<1>10. ASSUME NEW p \in Guessers, NEW text \in Texts, Guess(p, text) PROVE WordInv'
  <2> DEFINE shown == IF IsClose(Lower(Strip(text))) THEN TooClose ELSE FilterProfanity(text)
  <2>1. Same \/ TurnOver(Guessers) \/ Broadcast(p, text, shown) BY <1>10 DEF Guess
  <2> HIDE DEF shown
  <2>2. Same \/ Over BY <1>9, <2>1 DEF TurnOver
  <2>3. QED BY <1>1, <1>2, <2>2
<1>11. ASSUME NEW text \in Texts, SpectatorGuess(text) PROVE WordInv'
  BY <1>1, <1>9, <1>11 DEF SpectatorGuess
<1>12. ASSUME NEW p \in Speakers, NEW text \in Texts, Chat(p, text) PROVE WordInv'
  BY <1>1, <1>9, <1>12 DEF Chat
<1>13. QED BY <1>3, <1>4, <1>5, <1>6, <1>7, <1>8, <1>10, <1>11, <1>12 DEF WNext

\* WordInv holds throughout, for any words, texts and number of turns.
THEOREM WordsAreInductive ==
    WSpec => []WordInv
BY WordInit, WordStep, PTL DEF WSpec

\* generate_initial_hint and reveal_hint_char: a hint is true, hides a letter to the
\* end of the turn and shows no more letters than hint tasks have run.
THEOREM HintsAlwaysHonest ==
    WSpec => []HintIsHonest
<1>1. WordInv => HintIsHonest BY DEF WordInv
<1>2. QED BY <1>1, WordsAreInductive, PTL
=============================================================================
