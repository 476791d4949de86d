-------------------------- MODULE SubBlockMatcher --------------------------
(***************************************************************************)
(* SubBlockMatcher.locate (coordinates/sub_block_matcher.py): where a      *)
(* value stands in the text of a block, directly, with runs of whitespace  *)
(* collapsed, or with both strings in normal form NFKC and then collapsed. *)
(* A text is a sequence of characters.  Positions count from 0, as in the  *)
(* code, and a range includes its first position and excludes its second.  *)
(***************************************************************************)
EXTENDS Integers, Sequences, SequencesExt

\* No range (the code's None).
NoMatch == <<>>

IsSpace(c) == c \in {" ", "tab", "nbsp"}

\* unicodedata.category(c).startswith("M")
IsMark(c) == c = "acute"

\* What one character becomes under NFKC: a ligature is two characters.
Compatible(c) == CASE c = "fi" -> <<"f", "i">> [] c = "nbsp" -> <<" ">> [] OTHER -> <<c>>

\* NFKC of a character and the marks after it.
NFKC(segment) ==
  LET parts == FlattenSeq([k \in DOMAIN segment |-> Compatible(segment[k])])
  IN IF Len(parts) > 1 /\ parts[1] = "e" /\ parts[2] = "acute"
     THEN <<"e-acute">> \o SubSeq(parts, 3, Len(parts))
     ELSE parts

\* The members of S among the first n positions, in order.
InOrder(S, n) ==
  LET upTo[k \in 0 .. n] ==
        IF k = 0 THEN <<>> ELSE IF k \in S THEN Append(upTo[k - 1], k) ELSE upTo[k - 1]
  IN upTo[n]

Positions(seq, Test(_)) == InOrder({k \in DOMAIN seq : Test(k)}, Len(seq))

\* A normal form: its characters, and for each of them the position of the
\* character of the text that it stems from.
Collapsed(text) ==
  LET kept == Positions(text, LAMBDA k : k = 1 \/ ~IsSpace(text[k]) \/ ~IsSpace(text[k - 1]))
  IN [chars  |-> [j \in DOMAIN kept |-> IF IsSpace(text[kept[j]]) THEN " " ELSE text[kept[j]]],
      origin |-> [j \in DOMAIN kept |-> kept[j] - 1]]

NfkcOf(text) ==
  LET first == Positions(text, LAMBDA k : k = 1 \/ ~IsMark(text[k]))
      last(j) == IF j = Len(first) THEN Len(text) ELSE first[j + 1] - 1
      normal(j) == NFKC(SubSeq(text, first[j], last(j)))
      inside(j, n) == IF n <= last(j) - first[j] THEN n ELSE last(j) - first[j]
  IN [chars  |-> FlattenSeq([j \in DOMAIN first |-> normal(j)]),
      origin |-> FlattenSeq([j \in DOMAIN first |->
                   [n \in DOMAIN normal(j) |-> first[j] - 1 + inside(j, n - 1)]])]

\* Mutant of NfkcCollapsed: the map of the whitespace is not composed with that of NFKC.
NfkcCollapsedUnmapped(text) == Collapsed(NfkcOf(text).chars)

NfkcCollapsed(text) ==
  LET nfkc == NfkcOf(text)
      collapsed == Collapsed(nfkc.chars)
  IN [chars  |-> collapsed.chars,
      origin |-> [j \in DOMAIN collapsed.origin |-> nfkc.origin[collapsed.origin[j] + 1]]]

\* str.find: the positions at which the needle stands; the code takes the first.
Occurrences(hay, needle) ==
  {k \in 0 .. Len(hay) - Len(needle) : SubSeq(hay, k + 1, k + Len(needle)) = needle}

FirstOf(positions) == CHOOSE k \in positions : \A j \in positions : k <= j

\* The end of a match is where the next character of the normal form stems from.
TranslateRange(start, end, origin, length) ==
  <<origin[start + 1], IF end >= Len(origin) THEN length ELSE origin[end + 1]>>

\* A value of which nothing is left in normal form is not looked for.
LocateNormalized(text, value, Normal(_)) ==
  LET wanted == Normal(value).chars
      normal == Normal(text)
      found == Occurrences(normal.chars, wanted)
  IN IF wanted = <<>> \/ found = {} THEN NoMatch
     ELSE TranslateRange(FirstOf(found), FirstOf(found) + Len(wanted), normal.origin, Len(text))

Locate(text, value) ==
  LET direct == Occurrences(text, value)
      collapsed == LocateNormalized(text, value, Collapsed)
  IN CASE value = <<>> -> <<0, 0>>
       [] value # <<>> /\ text = <<>> -> NoMatch
       [] OTHER -> IF direct # {} THEN <<FirstOf(direct), FirstOf(direct) + Len(value)>>
                   ELSE IF collapsed # NoMatch THEN collapsed
                   ELSE LocateNormalized(text, value, NfkcCollapsed)

=============================================================================
