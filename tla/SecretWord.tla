------------------------------ MODULE SecretWord ------------------------------
(***************************************************************************)
(* The secret word of a turn (backend/game_engine.py): how it is offered   *)
(* and chosen, what the hints show of it, and what the server lets through *)
(* of the talk around it.  Who may draw and when a turn ends is in module  *)
(* GameRoom, what a guess pays in module Match.                            *)
(*                                                                         *)
(* A text is a sequence of characters, since the properties are about what *)
(* the server's conversions do to it: strip, lower, the edit distance, the *)
(* replacement of the word and the profanity filter.                       *)
(***************************************************************************)
EXTENDS Integers, SequencesExt, FiniteSetsExt

CONSTANTS
    Guessers,       \* active players other than the drawer
    Packs,          \* WORD_PACKS: a set of sets of words
    Customs,        \* what config.custom_words may be: a set of sets of words
    Texts,          \* what clients may send
    Profanity,      \* PROFANITY_WORDS
    UpperCase,      \* upper-case characters and their lower-case forms
    NumPacks,       \* packs offered, 3 in the code
    WordsPerPack,   \* words offered of a pack, 3 in the code
    MaxGuess,       \* longest guess looked at, 100 in the code
    MaxTurns        \* bound: turns played

ASSUME WordAssumption ==
    /\ {NumPacks, WordsPerPack, MaxGuess, MaxTurns} \subseteq Nat \ {0}
    /\ {} \notin Packs
    /\ \A w \in UNION (Packs \cup Customs) :    \* update_settings strips custom words
          w \in Seq(STRING) /\ \E i \in DOMAIN w : w[i] # " "

VARIABLES
    custom,    \* config.custom_words, set in the lobby
    used,      \* room.used_words
    offered,   \* room._pending_word_choices; {}: none
    word,      \* room.turn.word; <<>>: no turn
    hint,      \* room.turn.hint
    tasks,     \* the hint tasks still sleeping
    guessed,   \* guessers with has_guessed
    said,      \* the last chat_message of this turn: who, what was sent, what was shown
    turns      \* bound: turns so far

wvars == <<custom, used, offered, word, hint, tasks, guessed, said, turns>>

Silence == [by |-> "nobody", sent |-> <<>>, shown |-> <<>>]
TooClose == <<"very close!">>   \* the system message in place of a close guess

Words == UNION (Packs \cup Customs)
Speakers == Guessers \cup {"drawer", "spectator"}

WTypeOK ==
    /\ custom \in Customs /\ used \subseteq Words /\ offered \subseteq Words
    /\ word \in Words \cup {<<>>} /\ Len(hint) = Len(word)
    /\ tasks \subseteq {"hint40", "hint70"} /\ guessed \subseteq Guessers
    /\ said = Silence \/ (said.by \in Speakers /\ said.sent \in Texts)
    /\ turns \in 0..MaxTurns
-----------------------------------------------------------------------------
(* Texts.                                                                  *)

Space == " "
Hidden == "_"
Stars(n) == [i \in 1..n |-> "*"]

Lower(s) ==
    [i \in DOMAIN s |-> IF s[i] \in DOMAIN UpperCase THEN UpperCase[s[i]] ELSE s[i]]

Inked(s) == {i \in DOMAIN s : s[i] # Space}

\* str.strip
Strip(s) == IF Inked(s) = {} THEN <<>> ELSE SubSeq(s, Min(Inked(s)), Max(Inked(s)))

OccursAt(s, t, i) == i + Len(t) - 1 <= Len(s) /\ SubSeq(s, i, i + Len(t) - 1) = t

Occurs(s, t) == \E i \in DOMAIN s : OccursAt(s, t, i)

\* str.split: the runs of characters between spaces.
Split(s) ==
    LET Grow(tokens, c) == IF c = Space THEN Append(tokens, <<>>)
                           ELSE [tokens EXCEPT ![Len(tokens)] = Append(@, c)]
    IN  SelectSeq(FoldLeft(Grow, << <<>> >>, s), LAMBDA t : t # <<>>)

\* str.join with one space between the tokens.
Join(tokens) ==
    FoldLeft(LAMBDA s, t : IF s = <<>> THEN t ELSE s \o <<Space>> \o t, <<>>, tokens)

\* filter_profanity: a token is masked if its letters make a listed word.
FilterProfanity(s) ==
    LET Letters(t) == SelectSeq(Lower(t), LAMBDA c : c # "*")
        Masked(t)  == IF Letters(t) \in Profanity THEN Stars(Len(t)) ELSE t
        tokens     == Split(s)
    IN  Join([k \in DOMAIN tokens |-> Masked(tokens[k])])

\* re.sub(re.escape(word), "***", text, IGNORECASE): from the left, each
\* occurrence that does not overlap the one before it.
Sanitize(s, w) ==
    LET rest[i \in 1..(Len(s) + Len(w))] ==
            IF i > Len(s) THEN <<>>
            ELSE IF OccursAt(Lower(s), Lower(w), i) THEN Stars(3) \o rest[i + Len(w)]
            ELSE <<s[i]>> \o rest[i + 1]
    IN  rest[1]
-----------------------------------------------------------------------------
(* _levenshtein_distance: the table row by row, over the longer text.      *)

\* Mutant of NextRow: two different characters are exchanged for free.
NextRowFree(prev, c1, s2) ==
    LET cell[j \in 0..Len(s2)] ==
            IF j = 0 THEN prev[0] + 1
            ELSE Min({prev[j] + 1, cell[j - 1] + 1, prev[j - 1]})
    IN  cell

NextRow(prev, c1, s2) ==
    LET cell[j \in 0..Len(s2)] ==
            IF j = 0 THEN prev[0] + 1
            ELSE Min({prev[j] + 1, cell[j - 1] + 1,
                      prev[j - 1] + (IF c1 # s2[j] THEN 1 ELSE 0)})
    IN  cell

Levenshtein(s, t) ==
    LET s1 == IF Len(s) < Len(t) THEN t ELSE s
        s2 == IF Len(s) < Len(t) THEN s ELSE t
        row[i \in 0..Len(s1)] == IF i = 0 THEN [j \in 0..Len(s2) |-> j]
                                 ELSE NextRow(row[i - 1], s1[i], s2)
    IN  row[Len(s1)][Len(s2)]

IsClose(guess) == Len(guess) >= 3 /\ Levenshtein(guess, Lower(word)) <= 2
-----------------------------------------------------------------------------
(* Choosing the word.                                                      *)

\* The words of a pack that may be offered: the unused ones while there are
\* enough of them, otherwise all.
Available(pack) ==
    IF Cardinality(pack \ used) < WordsPerPack THEN pack ELSE pack \ used

\* random.sample(available, min(words_per_pack, len(available)))
Samples(pack) ==
    kSubset(Min({WordsPerPack, Cardinality(Available(pack))}), Available(pack))

\* draw_word_pack_choices: the custom words, if any, and packs at random.
Drawn == IF custom = {} THEN kSubset(Min({NumPacks, Cardinality(Packs)}), Packs)
         ELSE {{custom} \cup more :
                  more \in kSubset(Min({NumPacks - 1, Cardinality(Packs)}), Packs)}

InitialHint(w) == [i \in DOMAIN w |-> IF w[i] = Space THEN Space ELSE Hidden]

WInit ==
    /\ custom \in Customs
    /\ used = {} /\ offered = {} /\ word = <<>> /\ hint = <<>>
    /\ tasks = {} /\ guessed = {} /\ said = Silence /\ turns = 0

StartTurn ==
    /\ word = <<>> /\ offered = {} /\ turns < MaxTurns
    /\ \E packs \in Drawn :
          \E pick \in {f \in [packs -> SUBSET Words] :
                          \A pack \in packs : f[pack] \in Samples(pack)} :
              offered' = UNION {pick[pack] : pack \in packs}
    /\ turns' = turns + 1
    /\ UNCHANGED <<custom, used, word, hint, tasks, guessed, said>>

\* handle_word_selection, from the drawer or from auto_select.
SelectWord(w) ==
    /\ w \in offered
    /\ used' = used \cup {w}
    /\ word' = w /\ hint' = InitialHint(w)
    /\ tasks' = {"hint40", "hint70"}
    /\ offered' = {} /\ guessed' = {}
    /\ UNCHANGED <<custom, said, turns>>

\* Mutant of Revealable: the last hidden character is revealed as well.
RevealableAll == {i \in DOMAIN hint : hint[i] = Hidden}

\* reveal_hint_char never takes the last hidden character.
Revealable ==
    LET hidden == {i \in DOMAIN hint : hint[i] = Hidden}
    IN  IF Cardinality(hidden) <= 1 THEN {} ELSE hidden

\* reveal_hint_40 and reveal_hint_70, in this order.
RevealHint(task) ==
    /\ word # <<>> /\ task \in tasks
    /\ task = "hint70" => "hint40" \notin tasks
    /\ tasks' = tasks \ {task}
    /\ IF Revealable = {} THEN UNCHANGED hint
       ELSE \E i \in Revealable : hint' = [hint EXCEPT ![i] = word[i]]
    /\ said' = Silence
    /\ UNCHANGED <<custom, used, offered, word, guessed, turns>>

\* end_turn, for whatever reason.
TurnOver(all) ==
    /\ word' = <<>> /\ hint' = <<>> /\ tasks' = {} /\ said' = Silence
    /\ guessed' = all
    /\ UNCHANGED <<custom, used, offered, turns>>

EndTurn == word # <<>> /\ TurnOver(guessed)

\* The words start again with a rematch (the game is over, no turn is on).
Rematch ==
    /\ word = <<>> /\ offered = {} /\ used # {}
    /\ used' = {} /\ guessed' = {}
    /\ UNCHANGED <<custom, offered, word, hint, tasks, said, turns>>
-----------------------------------------------------------------------------
(* Talking.                                                                *)

\* A message changes nothing but said, and every other step clears said, so
\* that messages need not be followed by messages: the states are the same.
Broadcast(who, sent, shown) ==
    /\ said = Silence
    /\ said' = [by |-> who, sent |-> sent, shown |-> shown]
    /\ UNCHANGED <<custom, used, offered, word, hint, tasks, guessed, turns>>

\* Mutant of MayGuess: one who has guessed may go on.
MayGuessAgain(p, text) == word # <<>> /\ Len(text) <= MaxGuess

MayGuess(p, text) == word # <<>> /\ Len(text) <= MaxGuess /\ p \notin guessed

\* handle_guess of a player.
Guess(p, text) ==
    /\ MayGuess(p, text)
    /\ LET guess == Lower(Strip(text))
       IN  IF guess = Lower(word)
           THEN IF guessed \cup {p} = Guessers THEN TurnOver(Guessers)
                ELSE /\ guessed' = guessed \cup {p} /\ said' = Silence
                     /\ UNCHANGED <<custom, used, offered, word, hint, tasks, turns>>
           ELSE Broadcast(p, text, IF IsClose(guess) THEN TooClose
                                   ELSE FilterProfanity(text))

\* handle_guess of a spectator: the word is taken out, nothing is guessed.
SpectatorGuess(text) ==
    /\ word # <<>> /\ Len(text) <= MaxGuess
    /\ Broadcast("spectator", text, FilterProfanity(Sanitize(text, word)))

\* handle_chat, open to the drawer and to spectators.
Chat(p, text) ==
    /\ word # <<>>
    /\ p \in {"drawer", "spectator"}
    /\ Broadcast(p, text, FilterProfanity(Sanitize(text, word)))

WNext ==
    \/ StartTurn
    \/ \E w \in Words : SelectWord(w)
    \/ \E task \in tasks : RevealHint(task)
    \/ EndTurn
    \/ Rematch
    \/ \E p \in Guessers, text \in Texts : Guess(p, text)
    \/ \E text \in Texts : SpectatorGuess(text)
    \/ \E p \in Speakers, text \in Texts : Chat(p, text)

WSpec == WInit /\ [][WNext]_wvars
-----------------------------------------------------------------------------
(* Properties.                                                             *)

\* Every text that n insertions, deletions or exchanges of one character make
\* of s: the definition _levenshtein_distance has to agree with.
Characters == UNION {ToSet(Lower(t)) : t \in Texts \cup Words}
Edited(s) ==
    {RemoveAt(s, i) : i \in DOMAIN s}
    \cup {InsertAt(s, i, c) : i \in 1..(Len(s) + 1), c \in Characters}
    \cup {ReplaceAt(s, i, c) : i \in DOMAIN s, c \in Characters}
TwoEditsFrom(s) == {s} \cup UNION {Edited(t) : t \in {s} \cup Edited(s)}
NearWord == [w \in Words |-> TwoEditsFrom(Lower(w))]

\* A guess of three characters or more is shown to the room if and only if it
\* takes more than two edits to make it the word.
CloseIsWithheld ==
    said.by \in Guessers =>
        LET guess == Lower(Strip(said.sent))
        IN  (Len(guess) >= 3 /\ guess \in NearWord[word]) <=> said.shown = TooClose

\* Whoever knows the word: the drawer, the spectators, those who guessed it.
Knowing == {"drawer", "spectator"} \cup guessed

\* What those who know a word of one token say never shows it, in no case of
\* its letters and next to nothing else they type.
WordIsKept ==
    said.by \in Knowing /\ Space \notin ToSet(word) =>
        ~Occurs(Lower(said.shown), Lower(word))

\* Nothing the server lets through gives the word away: neither a guess that
\* comes close nor the talk of those who know.
TalkKeepsWord == WTypeOK /\ CloseIsWithheld /\ WordIsKept

\* Hints agree with the word, show its spaces, never all of its letters, and
\* no more letters than hint tasks have run.
HintIsHonest ==
    word # <<>> =>
        /\ \A i \in DOMAIN word : hint[i] = word[i] \/ (hint[i] = Hidden /\ word[i] # Space)
        /\ \E i \in DOMAIN word : hint[i] = Hidden
        /\ Cardinality({i \in Inked(word) : hint[i] # Hidden}) + Cardinality(tasks) <= 2

-----------------------------------------------------------------------------
(* What the tests say and the code does not do. *)

\* backend/tests/test_property_word_uniqueness.py:19-21: "a word SHALL NOT be
\* selected for a turn if it has already been used in that session, unless all
\* words in the pool have been exhausted".  The packs run out one by one.
WordsRunOutFirst ==
    [][ (word = <<>> /\ word' # <<>> /\ word' \in used) =>
            UNION (Packs \cup {custom}) \subseteq used ]_wvars

\* backend/tests/test_property_word_not_revealed.py:129: "For any chat message
\* sent by the drawer, the broadcast message text SHALL NOT contain the current
\* word as a case-insensitive substring."
DrawerKeepsWord ==
    said.by = "drawer" => ~Occurs(Lower(said.shown), Lower(word))
=============================================================================
