------------------------------ MODULE MatchRules ------------------------------
(***************************************************************************)
(* How user_matcher.py tells whether an account of Matrix is a person of   *)
(* Redmine.  A word stands for all its spellings (case, with e or yo); how *)
(* words are transliterated is given by the pairs Heard and Read and by    *)
(* the field "within" of an account.  Pure operators, used by UserImport.  *)
(***************************************************************************)
EXTENDS Integers, FiniteSets

CONSTANTS
  Persons,   \* what Redmine lists: people, and entries that are not people
  NameOf,    \* the words of a person's name
  Humans,    \* those with two or three words, none of them a word of services
  Accounts,  \* the accounts of the homeserver
  Profile,   \* their display name, the parts of their localpart, the words within it
  Heard,     \* <<part, word>>: the part is a spelling of the word, or contains its first
  Read,      \* <<token, word>>: a token of a display name contains a spelling of the word
  None

\* A word that a part of a localpart sounds like is within the localpart.
ASSUME MatchAssumption ==
  /\ Humans \subseteq Persons
  /\ \A p \in Humans : IsFiniteSet(NameOf[p]) /\ Cardinality(NameOf[p]) \in 2..3
  /\ None \notin Accounts
  /\ \A a \in Accounts : IsFiniteSet(DOMAIN Profile[a].parts)
  /\ \A a \in Accounts : \A i \in DOMAIN Profile[a].parts :
       {x[2] : x \in {x \in Heard : x[1] = Profile[a].parts[i]}} \subseteq Profile[a].within

WordsShown(p, a) == NameOf[p] \cap Profile[a].display

\* Parts, not words: two parts that sound like one word are two.
PartsHeard(p, a) ==
  {i \in DOMAIN Profile[a].parts : \E w \in NameOf[p] : <<Profile[a].parts[i], w>> \in Heard}

\* count_translit_matches: the words within the localpart without its separators.
WordsWithin(p, a) == NameOf[p] \cap Profile[a].within

WordsRead(p, a) == {w \in NameOf[p] : \E token \in Profile[a].display : <<token, w>> \in Read}

\* A way of matching counts from two up.
FromTwo(n, weight) == IF n >= 2 THEN n * weight ELSE 0

TooLittle(shown, heard, within) == shown < 2 /\ heard < 2 /\ within < 2

\* score_matrix_candidate, in halves.
Score(p, a) ==
  LET shown  == Cardinality(WordsShown(p, a))
      heard  == Cardinality(PartsHeard(p, a))
      within == Cardinality(WordsWithin(p, a))
  IN IF TooLittle(shown, heard, within) /\ Cardinality(NameOf[p]) >= 2
       THEN 0
       ELSE FromTwo(shown, 4)
              + (IF heard = 1 THEN 1 ELSE FromTwo(heard, 4))
              + (IF within > heard THEN FromTwo(within, 3) ELSE 0)
              + FromTwo(Cardinality(WordsRead(p, a)), 2)

MinScore == 1

\* find_best_match: any of the best, for their order is the directory's.
BestMatches(p, found) ==
  {a \in found : Score(p, a) >= MinScore /\ \A b \in found : Score(p, b) <= Score(p, a)}
=============================================================================
