----------------------------- MODULE MCRequests -----------------------------
(***************************************************************************)
(* Directories of up to three files, one of them with any one defect, and  *)
(* requests around every threshold.                                        *)
(***************************************************************************)
EXTENDS Requests

Good(name, stem, version) ==
  [place |-> "layout", dir |-> name, stem |-> stem, defect |-> "none", name |-> name, version |-> version,
   type |-> "object", properties |-> {"f"}, closed |-> FALSE, composed |-> FALSE, examples |-> <<{"f"}>>]

InvoiceOne == Good("invoice", "1", 1)
InvoiceTwo == Good("invoice", "2", 2)

Odd ==
  {InvoiceOne, InvoiceTwo, Good("invoice", "01", 1), Good("receipt", "1", 1), Good("invoice", "2", 1),
   Good("invoice", "x", 1),
   [InvoiceOne EXCEPT !.place = "stray"], [InvoiceOne EXCEPT !.dir = "receipt"],
   [InvoiceOne EXCEPT !.defect = "unreadable"], [InvoiceOne EXCEPT !.defect = "broken"],
   [InvoiceOne EXCEPT !.composed = TRUE],
   [InvoiceOne EXCEPT !.type = "string", !.properties = {}, !.examples = <<>>]}
  \cup {[InvoiceOne EXCEPT !.type = t, !.properties = p, !.closed = c, !.examples = <<e>>] :
          t \in {"object", "none", "string"}, p \in {{}, {"f"}}, c \in BOOLEAN, e \in {{}, {"f"}, {"g"}}}

MCDirectories ==
  {<<>>} \cup {<<f>> : f \in Odd} \cup {<<f, g>> : f \in Odd, g \in Odd}
  \cup {<<InvoiceOne, f, Good("receipt", "1", 1)>> : f \in Odd}

Request(kind, client, framing, pdf, overhead, valid, skill, version) ==
  [kind |-> kind, client |-> client, framing |-> framing, pdf |-> pdf, overhead |-> overhead,
   valid |-> valid, skill |-> skill, version |-> version]

MCArrivals ==
  {Request("extract", "hex", f, p, o, TRUE, "invoice", "latest") :
     f \in {"length", "chunked", "ambiguous"}, p \in 0 .. 8, o \in 1 .. 3}
  \cup {Request("extract", "none", "length", 2, 1, valid, skill, version) :
          valid \in BOOLEAN, skill \in {"invoice", "receipt"}, version \in {"latest", "1", "2", "99999"}}
  \cup {Request(kind, client, f, p, 1, FALSE, "", "") :
          kind \in {"extract/", "ready", "other", "preflight"}, client \in {"none", "other", "hex"},
          f \in {"length", "chunked"}, p \in {0, 8}}

=============================================================================
