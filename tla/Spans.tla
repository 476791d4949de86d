------------------------------- MODULE Spans -------------------------------
(***************************************************************************)
(* What a request computes between Docling and the response: the items of  *)
(* the document become blocks, their texts are joined for LangExtract, and *)
(* what LangExtract reports becomes one field for each declared name, with *)
(* the boxes of the blocks its span touches (extraction_engine.py,         *)
(* span_resolver.py, offset_index.py, text_concatenator.py, steps 3 to 9   *)
(* of ExtractionService._run_pipeline).  LangExtract is not trusted: it    *)
(* reports any class, more than once, with any interval.                   *)
(***************************************************************************)
EXTENDS SubBlockMatcher, FiniteSetsExt

CONSTANTS
  Documents,        \* bound: what Docling may return
  MaxPages,         \* Settings.max_pdf_pages
  Declared,         \* the properties of the skill's output schema, in order
  Extractions(_,_), \* bound: what LangExtract may report for a document after n others
  MaxExtractions    \* bound: how many extractions it reports

\* A text is a sequence of characters.  LangExtract's value is a text, and its
\* interval anything or missing.
Items ==
  [text : Seq(STRING), prov : BOOLEAN, page : Nat, origin : {"TOPLEFT", "BOTTOMLEFT"}, t : Int, b : Int]
Reportable ==
  [class : STRING, value : Seq(STRING) \ {<<"None">>}, interval : {<<>>} \cup (Int \X Int)]

\* Docling places items on the pages it has read.
ASSUME SpansAssumption ==
  /\ MaxPages \in Nat /\ MaxExtractions \in Nat /\ Declared \in Seq(STRING)
  /\ \A d \in Documents :
       /\ d.pdf \in {"plain", "malformed", "encrypted", "missing", "unrecognized"}
       /\ d.heights \in Seq(Int) /\ d.items \in Seq(Items)
       /\ \A k \in DOMAIN d.items : d.items[k].page \in DOMAIN d.heights
       /\ \A n \in 0 .. MaxExtractions : Extractions(d, n) \subseteq Reportable

VARIABLES
  document,  \* how the libraries take it (pdf), the heights of its pages, and the items
             \* Docling finds: their text, provenance (prov), page, and the top and the
             \* bottom of their box (t, b), measured from its origin
  mode,      \* OutputMode
  blocks,    \* ParsedDocument.blocks
  index,     \* OffsetIndex.entries
  reported,  \* AnnotatedDocument.extractions
  raws,      \* what ExtractionEngine.extract returns
  fields,    \* what SpanResolver.resolve returns
  highlights, \* the boxes drawn on the annotated PDF
  answer,    \* the response or the error of the request
  stage
spanVars == <<document, mode, blocks, index, reported, raws, fields, highlights, answer, stage>>

None == <<>>
NoValue == <<"None">>
SeparatorLength == 2

----------------------------------------------------------------------------
\* The parser, the concatenator and the index.

\* What PyMuPDF says of the bytes, before Docling sees them.
PreflightErrors == [malformed |-> "PDF_INVALID", encrypted |-> "PDF_PASSWORD_PROTECTED"]

\* Docling is not installed, or its document has no way to iterate over items.
DoclingErrors == [missing |-> "PDF_PARSER_UNAVAILABLE", unrecognized |-> "PDF_PARSER_UNAVAILABLE"]

\* The items in reading order that have a text and a place.
TextItems(items) ==
  LET kept == Positions(items, LAMBDA k : items[k].text # <<>> /\ items[k].prov)
  IN [j \in DOMAIN kept |-> items[kept[j]]]

\* The distance of an edge from the bottom of the page, for one from its top, and back.
Flipped(page, y) == document.heights[page] - y

\* Docling measures from the top by default; the box is measured from the bottom.
BoxOf(i) ==
  [page |-> i.page, y0 |-> IF i.origin = "TOPLEFT" THEN Flipped(i.page, i.b) ELSE i.b,
                    y1 |-> IF i.origin = "TOPLEFT" THEN Flipped(i.page, i.t) ELSE i.t]

\* BoundingBox.__post_init__ raises ValueError for such a box (the sides are left out).
Inverted(box) == box.y0 > box.y1

ToParsedDocument(items) ==
  [k \in DOMAIN items |->
     [text |-> items[k].text, box |-> BoxOf(items[k]),
      id   |-> <<items[k].page, Cardinality({j \in 1 .. k - 1 : items[j].page = items[k].page})>>]]

\* Where each block starts in the joined text.
Starts(bs) ==
  LET cursor[k \in 1 .. Len(bs)] ==
        IF k = 1 THEN 0 ELSE cursor[k - 1] + Len(bs[k - 1].text) + SeparatorLength
  IN cursor

Concatenate(bs) ==
  LET start == Starts(bs)
  IN [k \in DOMAIN bs |-> [id |-> bs[k].id, start |-> start[k], end |-> start[k] + Len(bs[k].text)]]

\* The block and the offset in it; bisect_right finds the last start <= offset.
LookupOffset(offset) ==
  LET before == {k \in DOMAIN index : index[k].start <= offset}
      e == index[Max(before)]
  IN IF offset < 0 \/ before = {} THEN None
     ELSE IF offset >= e.end THEN None ELSE <<e.id, offset - e.start>>

----------------------------------------------------------------------------
\* The engine: what LangExtract reported, as one row for each declared name.

Sanitized(interval) ==
  IF interval # None /\ interval[1] >= 0 /\ interval[2] >= 0 /\ interval[1] < interval[2]
  THEN interval ELSE None

\* RawExtraction.__post_init__ raises ValueError for any other row.
Constructible(raw) ==
  IF raw.grounded THEN raw.interval # None /\ raw.interval[1] >= 0 /\ raw.interval[1] < raw.interval[2]
                  ELSE raw.interval = None

\* Mutant of Winner: a later extraction of the same class replaces the first.
LastWinner(name, found) == found[Max({k \in DOMAIN found : found[k].class = name})]

Winner(name, found) == found[Min({k \in DOMAIN found : found[k].class = name})]

RawOf(name, found) ==
  IF \E k \in DOMAIN found : found[k].class = name
  THEN LET x == Winner(name, found) IN
       [name |-> name, value |-> x.value, interval |-> Sanitized(x.interval),
        grounded |-> Sanitized(x.interval) # None]
  ELSE [name |-> name, value |-> NoValue, interval |-> None, grounded |-> FALSE]

----------------------------------------------------------------------------
\* The resolver.

BlockOf(id) == CHOOSE b \in ToSet(blocks) : b.id = id

\* Mutant of AtBlockBoundary: the end is clamped however far it lies behind the block.
AtBlockBoundaryFromAfar(interval) ==
  LET k == CHOOSE k \in DOMAIN index : index[k].start <= interval[1] /\ interval[1] < index[k].end
  IN LookupOffset(index[k].end - 1)

\* The end of the span lies in the gap after the block it starts in: it counts
\* as that block's last character, if a block with text follows the gap.
AtBlockBoundary(interval) ==
  LET k == CHOOSE k \in DOMAIN index : index[k].start <= interval[1] /\ interval[1] < index[k].end
      later == {j \in DOMAIN index : j > k /\ index[j].start < index[j].end}
  IN IF later # {} /\ interval[2] - 1 >= index[k].end /\ interval[2] - 1 < index[Min(later)].start
     THEN LookupOffset(index[k].end - 1) ELSE None

EndLookup(interval) ==
  IF LookupOffset(interval[1]) # None /\ LookupOffset(interval[2] - 1) = None
  THEN AtBlockBoundary(interval) ELSE LookupOffset(interval[2] - 1)

\* The boxes from the entry of one block to the first entry of the other after it.
MultiBlockBoxes(startId, endId) ==
  LET from == Min({k \in DOMAIN index : index[k].id = startId})
      ends == {k \in DOMAIN index : k >= from /\ index[k].id = endId}
      order == Positions(index, LAMBDA k : /\ k \in from .. Min(ends) /\ index[k].start < index[k].end
                                           /\ \A j \in from .. k - 1 : index[j].id # index[k].id)
  IN IF ends = {} THEN <<BlockOf(startId).box>>
     ELSE [j \in DOMAIN order |-> BlockOf(index[order[j]].id).box]

\* Where the value stands in its block: where the offsets say, or where the
\* matcher finds it.  The box is the block's in any case.
MatchIn(text, value, start, end) ==
  IF SubSeq(text, start + 1, end) = value THEN <<start, end>> ELSE Locate(text, value)

Ungrounded(raw, status, source) ==
  [name |-> raw.name, value |-> raw.value, status |-> status, source |-> source,
   grounded |-> FALSE, boxes |-> <<>>, match |-> NoMatch]

Grounded(raw, start, end) ==
  LET block == BlockOf(start[1])
      single == start[1] = end[1]
  IN [name |-> raw.name, value |-> raw.value, status |-> "extracted", source |-> "document", grounded |-> TRUE,
      boxes |-> IF single THEN <<block.box>> ELSE MultiBlockBoxes(start[1], end[1]),
      match |-> IF single THEN MatchIn(block.text, raw.value, start[2], end[2] + 1) ELSE NoMatch]

ResolveOne(raw) ==
  IF raw.value = NoValue THEN Ungrounded(raw, "failed", "document")
  ELSE IF ~raw.grounded THEN Ungrounded(raw, "extracted", "inferred")
  ELSE IF LookupOffset(raw.interval[1]) = None \/ EndLookup(raw.interval) = None
  THEN Ungrounded(raw, "extracted", "inferred")
  ELSE Grounded(raw, LookupOffset(raw.interval[1]), EndLookup(raw.interval))

----------------------------------------------------------------------------
SpansInit ==
  /\ document \in Documents /\ mode \in {"JSON_ONLY", "BOTH"}
  /\ blocks = <<>> /\ index = <<>> /\ reported = <<>> /\ raws = <<>> /\ fields = <<>>
  /\ highlights = <<>> /\ answer = "none" /\ stage = "parse"

Fail(error) == answer' = error /\ stage' = "done"

\* DoclingDocumentParser.parse and TextConcatenator.concatenate
Parse ==
  /\ stage = "parse"
  /\ LET valid == document.pdf \notin DOMAIN PreflightErrors /\ Len(document.heights) <= MaxPages
         items == TextItems(document.items)
         boxed == \A i \in ToSet(items) : ~Inverted(BoxOf(i))
     IN \/ /\ document.pdf \in DOMAIN PreflightErrors
           /\ Fail(PreflightErrors[document.pdf]) /\ UNCHANGED <<blocks, index>>
        \/ /\ document.pdf \notin DOMAIN PreflightErrors /\ ~valid
           /\ Fail("PDF_TOO_MANY_PAGES") /\ UNCHANGED <<blocks, index>>
        \/ /\ valid /\ document.pdf \in DOMAIN DoclingErrors
           /\ Fail(DoclingErrors[document.pdf]) /\ UNCHANGED <<blocks, index>>
        \/ /\ valid /\ document.pdf = "plain" /\ items = <<>>
           /\ Fail("PDF_NO_TEXT_EXTRACTABLE") /\ UNCHANGED <<blocks, index>>
        \/ /\ valid /\ document.pdf = "plain" /\ ~boxed
           /\ Fail("INVALID_BOX") /\ UNCHANGED <<blocks, index>>
        \/ /\ valid /\ document.pdf = "plain" /\ items # <<>> /\ boxed
           /\ blocks' = ToParsedDocument(items) /\ index' = Concatenate(blocks')
           /\ stage' = "extract" /\ UNCHANGED answer
  /\ UNCHANGED <<document, mode, reported, raws, fields, highlights>>

\* An empty text is not sent to LangExtract.
Report ==
  /\ stage = "extract" /\ index[Len(index)].end > 0 /\ Len(reported) < MaxExtractions
  /\ \E x \in Extractions(document, Len(reported)) : reported' = Append(reported, x)
  /\ UNCHANGED <<document, mode, blocks, index, raws, fields, highlights, answer, stage>>

ToRawExtractions ==
  /\ stage = "extract"
  /\ LET rows == [k \in DOMAIN Declared |-> RawOf(Declared[k], reported)]
     IN IF \A k \in DOMAIN rows : Constructible(rows[k])
        THEN raws' = rows /\ stage' = "resolve" /\ UNCHANGED answer
        ELSE Fail("ValueError") /\ UNCHANGED raws
  /\ UNCHANGED <<document, mode, blocks, index, reported, fields, highlights>>

\* One row for a name, the first one; a declared name without a row is a failed field.
Resolve ==
  /\ stage = "resolve"
  /\ fields' = [k \in DOMAIN Declared |->
       LET rows == {j \in DOMAIN raws : raws[j].name = Declared[k]}
       IN ResolveOne(IF rows = {} THEN RawOf(Declared[k], <<>>) ELSE raws[Min(rows)])]
  /\ stage' = "assemble"
  /\ UNCHANGED <<document, mode, blocks, index, reported, raws, highlights, answer>>

\* The boxes of all fields in turn, measured from the top, without those that
\* have no area.
Annotate ==
  LET boxes == FlattenSeq([k \in DOMAIN fields |-> fields[k].boxes])
      drawn == Positions(boxes, LAMBDA k : boxes[k].y0 # boxes[k].y1)
  IN [j \in DOMAIN drawn |->
        LET box == boxes[drawn[j]]
        IN [page |-> box.page, top |-> Flipped(box.page, box.y1), bottom |-> Flipped(box.page, box.y0)]]

Assemble ==
  /\ stage = "assemble" /\ stage' = "done"
  /\ \/ /\ \A k \in DOMAIN fields : fields[k].status # "extracted"
        /\ answer' = "STRUCTURED_OUTPUT_FAILED" /\ UNCHANGED highlights
     \/ /\ \E k \in DOMAIN fields : fields[k].status = "extracted"
        /\ answer' = "response"
        /\ highlights' = IF mode = "JSON_ONLY" THEN <<>> ELSE Annotate
  /\ UNCHANGED <<document, mode, blocks, index, reported, raws, fields>>

SpansNext == Parse \/ Report \/ ToRawExtractions \/ Resolve \/ Assemble

SpansSpec == SpansInit /\ [][SpansNext]_spanVars

----------------------------------------------------------------------------
(***************************************************************************)
(* Properties.  Their reference is the joined text itself: the item that   *)
(* each of its characters belongs to, 0 for the separators.                *)
(***************************************************************************)
Owners ==
  FlattenSeq([k \in DOMAIN blocks |->
    (IF k = 1 THEN <<>> ELSE <<0, 0>>) \o [j \in DOMAIN blocks[k].text |-> k]])

OwnersIn(interval) ==
  {Owners[j] : j \in interval[1] + 1 .. Min({interval[2], Len(Owners)})} \ {0}

\* The span starts on a character of an item and ends on one, or in the
\* separators between that same item and more text.
OnText(interval) ==
  /\ interval[1] < Len(Owners) /\ interval[2] <= Len(Owners) /\ Owners[interval[1] + 1] # 0
  /\ \/ Owners[interval[2]] # 0
     \/ /\ OwnersIn(interval) = {Owners[interval[1] + 1]}
        /\ \E j \in interval[2] + 1 .. Len(Owners) : Owners[j] # 0

\* A field claims the document as its source with exactly the boxes of the
\* items its span has characters of, in their order and each once; a span that
\* is not on text has no box and is inferred (issues #288, #338, #382).
GroundedOnTouchedItems ==
  stage = "assemble" => \A k \in DOMAIN fields :
    LET f == fields[k]
        grounded == raws[k].grounded /\ OnText(raws[k].interval)
    IN /\ f.grounded = grounded
       /\ f.boxes = IF ~grounded THEN <<>>
                    ELSE LET touched == Positions(blocks, LAMBDA b : b \in OwnersIn(raws[k].interval))
                         IN [j \in DOMAIN touched |-> blocks[touched[j]].box]
       /\ f.status = "extracted" => (f.source = "document") = grounded

\* Where an item stands on its page, measured from the top.
Standing(i) ==
  IF i.origin = "TOPLEFT" THEN [page |-> i.page, top |-> i.t, bottom |-> i.b]
  ELSE [page |-> i.page, top |-> Flipped(i.page, i.t), bottom |-> Flipped(i.page, i.b)]

\* Whatever LangExtract reports, a response has the declared names, all of them
\* and in their order, each with the value it reported first for that name; it
\* comes if and only if a declared name was reported, no row breaks the request,
\* and what is highlighted is the text of the grounded fields, where it stands
\* on the page (issue #133).
AnswerFollowsSkill ==
  stage = "done" =>
    /\ answer # "ValueError"
    /\ fields # <<>> =>
         /\ (answer = "response") = (\E x \in ToSet(reported) : x.class \in ToSet(Declared))
         /\ \A k \in DOMAIN Declared :
              LET own == Positions(reported, LAMBDA j : reported[j].class = Declared[k])
              IN /\ fields[k].name = Declared[k]
                 /\ fields[k].value = IF own = <<>> THEN NoValue ELSE reported[own[1]].value
    /\ ToSet(highlights) =
         IF answer # "response" \/ mode = "JSON_ONLY" THEN {}
         ELSE LET drawn == UNION {OwnersIn(raws[k].interval) : k \in {k \in DOMAIN fields : fields[k].grounded}}
              IN {Standing(i) : i \in {i \in {TextItems(document.items)[b] : b \in drawn} : i.t # i.b}}

\* What the matcher locates in the text of a block says the value, up to the
\* normal forms: the positions it translates back are the right ones.  Only what
\* the value starts or ends within falls off the range: a ligature, or a letter
\* or ligature with marks (position maps of _nfkc_with_map, which for a ligature
\* with a mark gives the mark's position to the ligature's second letter).
LocatedTextMatches ==
  stage = "assemble" => \A k \in DOMAIN fields :
    LET f == fields[k]
        text == blocks[1].text
        located == SubSeq(text, f.match[1] + 1, f.match[2])
    IN (Len(f.boxes) = 1 /\ Len(blocks) = 1 /\ f.match # NoMatch) =>
         \/ NfkcCollapsed(located).chars = NfkcCollapsed(f.value).chars
         \/ f.match[1] < Len(text) /\ text[f.match[1] + 1] = "fi" /\ f.value[1] = "i"
         \/ f.match[2] < Len(text) /\ text[f.match[2] + 1] = "fi" /\ f.value[Len(f.value)] = "f"
         \/ \E edge \in ToSet(f.match) : edge < Len(text) /\ IsMark(text[edge + 1])

=============================================================================
