------------------------------ MODULE MCSpans ------------------------------
(***************************************************************************)
(* Documents of up to three short items, where the positions of the spans  *)
(* matter, and of one item, where its characters do.                       *)
(***************************************************************************)
EXTENDS Spans

UpTo(n, alphabet) == UNION {[1 .. m -> alphabet] : m \in 0 .. n}

\* The second item stands on a page of its own and is measured from the bottom,
\* the third is back on the first and has no height.
Item(k, text, prov) ==
  [text |-> text, prov |-> prov, page |-> IF k = 2 THEN 2 ELSE 1,
   origin |-> IF k = 2 THEN "BOTTOMLEFT" ELSE "TOPLEFT",
   t |-> IF k = 2 THEN 5 ELSE k, b |-> IF k = 2 THEN 2 ELSE 3]

Document(items) == [pdf |-> "plain", heights |-> <<10, 20>>, items |-> items]

SpanDocuments ==
  {Document([k \in DOMAIN texts |-> Item(k, texts[k], TRUE)]) : texts \in UpTo(3, {<<>>, <<"a">>, <<"a", "b">>})}

Ligatures == {"f", "i", "fi", " ", "tab"}
Accents == {"e", "acute", "e-acute", "nbsp"}
Marked == {"fi", "i", "acute"}
Alphabets == {Ligatures, Accents, Marked}
TextDocuments ==
  {Document(<<Item(1, text, TRUE)>>) : text \in UNION {UpTo(3, alphabet) : alphabet \in Alphabets} \ {<<>>}}

\* Without a place, an item does not count, nor does its box if that is inverted.
OddDocuments ==
  {Document(<<Item(1, <<"a">>, p), Item(2, <<"b">>, q)>>) : p, q \in BOOLEAN}
    \cup {Document(<<Item(1, <<"a">>, TRUE), [Item(2, <<"b">>, q) EXCEPT !.t = 1]>>) : q \in BOOLEAN}
    \cup {[pdf |-> pdf, heights |-> heights, items |-> <<>>] :
             pdf \in {"plain", "malformed", "encrypted", "missing", "unrecognized"}, heights \in {<<10>>, <<10, 20, 10>>}}

MCDocuments == SpanDocuments \cup TextDocuments \cup OddDocuments

Intervals == {<<>>} \cup ((-1 .. 11) \X (-1 .. 11))

\* The first extraction has any span; what comes after it is about the names.
MCExtractions(d, n) ==
  IF d \in TextDocuments
  THEN {[class |-> "f", value |-> v, interval |-> <<0, Len(d.items[1].text)>>] :
          v \in UNION {UpTo(IF n = 0 THEN 3 ELSE -1, alphabet) :
                         alphabet \in {a \in Alphabets : ToSet(d.items[1].text) \subseteq a}}}
  ELSE {[class |-> c, value |-> IF n = 0 THEN <<"a">> ELSE <<"b">>, interval |-> i] :
          c \in {"f", "g", "x"}, i \in IF n = 0 THEN Intervals ELSE {<<>>, <<0, 1>>}}
MCDeclared == <<"f", "g">>

=============================================================================
