----------------------------- MODULE Extraction -----------------------------
(***************************************************************************)
(* app/documents/extraction.py: which files are refused, when, and what    *)
(* text is made of the others.  Of a character only its kind matters.      *)
(***************************************************************************)
EXTENDS Integers, Sequences, SequencesExt

CONSTANTS MaxPages,   \* max_document_pages
          Raws,       \* bound: what decoding a file can give
          PageTexts   \* bound: of the files below, the texts of their pages

Blanks  == {"space", "tab"}
Strips  == Blanks \cup {"newline"}

\* The bytes of a file: do they begin with the signature of a PDF, are they
\* UTF-8, what does the PDF library make of them, and the text of each page (a
\* file that is no PDF is one page).
Files == [extension : {".txt", ".md", ".pdf", ".doc"}, signature : BOOLEAN, decodes : BOOLEAN,
          pdf : {"readable", "encrypted", "broken"},
          pages : BoundedSeq(PageTexts, MaxPages + 1) \ {<<>>}]

\* detect_type: the name and, of a PDF, the first bytes.
Unsupported(f) ==
  \/ f.extension \notin {".txt", ".md", ".pdf"}
  \/ f.extension = ".pdf" /\ ~ f.signature

\* The characters at some places of a text.
Kept(t, places) ==
  LET order == SetToSortSeq(places, <)
  IN [k \in DOMAIN order |-> t[order[k]]]

At(t, i) == IF i \in DOMAIN t THEN t[i] ELSE "none"

WithoutNul(t) == SelectSeq(t, LAMBDA c : c # "nul")

\* CR LF and CR become LF.
OneEnding(t) ==
  LET first == Kept(t, {i \in DOMAIN t : ~ (t[i] = "cr" /\ At(t, i + 1) = "newline")})
  IN [i \in DOMAIN first |-> IF first[i] = "cr" THEN "newline" ELSE first[i]]

\* Blanks before a newline.
WithoutTrailing(t) ==
  Kept(t, {i \in DOMAIN t : ~ \E j \in DOMAIN t : /\ i < j /\ t[j] = "newline"
                                                  /\ \A k \in i..(j - 1) : t[k] \in Blanks})

\* Two newlines of three and more.
Paragraphs(t) ==
  Kept(t, {i \in DOMAIN t :
             ~ (t[i] = "newline" /\ At(t, i - 1) = "newline" /\ At(t, i - 2) = "newline")})

Stripped(t) ==
  Kept(t, {i \in DOMAIN t :
             \E a, b \in DOMAIN t : a <= i /\ i <= b /\ t[a] \notin Strips /\ t[b] \notin Strips})

\* normalize_text
NormalizeText(raw) == Stripped(Paragraphs(WithoutTrailing(OneEnding(WithoutNul(raw)))))

\* _extract_pdf refuses, or decoding does.
Unreadable(f) ==
  IF f.extension = ".pdf"
  THEN f.pdf # "readable" \/ Len(f.pages) > MaxPages
  ELSE ~ f.decodes

\* A blank line between two pages.
Joined(pages) ==
  FoldLeft(LAMBDA all, page : all \o <<"newline", "newline">> \o page, Head(pages), Tail(pages))

\* extract_text: the text, or why not.
Extracted(f) ==
  CASE Unsupported(f) -> [refused |-> "unsupported", text |-> <<>>]
    [] ~ Unsupported(f) /\ Unreadable(f) -> [refused |-> "unreadable", text |-> <<>>]
    [] OTHER -> LET text == NormalizeText(IF f.extension = ".pdf" THEN Joined(f.pages) ELSE Head(f.pages))
                IN [refused |-> IF text = <<>> THEN "no text" ELSE "no", text |-> text]

---------------------------------------------------------------------------
(* The reference: what chunk_text and the database rely on.                *)

\* No white space at the edges, no blank before a newline, no three newlines,
\* nothing that is stored with difficulty.
Normalized(t) ==
  /\ t # <<>> => t[1] \notin Strips /\ t[Len(t)] \notin Strips
  /\ \A i \in DOMAIN t :
       /\ t[i] \notin {"nul", "cr"}
       /\ t[i] \in Blanks => At(t, i + 1) # "newline"
       /\ ~ (t[i] = "newline" /\ At(t, i + 1) = "newline" /\ At(t, i + 2) = "newline")

Solid(t) == SelectSeq(t, LAMBDA c : c \notin Strips \cup {"nul", "cr"})

\* normalize_text leaves a normalised text with every character that is no white
\* space, in order, and does nothing to it when it is called again.
ASSUME NormalizeTextIsRight ==
  \A raw \in Raws :
    LET t == NormalizeText(raw)
    IN /\ Normalized(t)
       /\ Solid(t) = Solid(raw)
       /\ NormalizeText(t) = t

\* A file is refused or has a text, never both and never neither; and what ends
\* one page is never glued to what begins the next.
ASSUME RefusedOrText ==
  \A f \in Files :
    LET e == Extracted(f)
    IN /\ e.refused = "no" <=> e.text # <<>>
       /\ e.refused = "no" /\ f.extension = ".pdf" /\ Len(f.pages) = 2
            /\ Solid(f.pages[1]) # <<>> /\ Solid(f.pages[2]) # <<>> =>
            \E i \in DOMAIN e.text :
              /\ e.text[i] = "newline" /\ At(e.text, i + 1) = "newline"
              /\ Solid(SubSeq(e.text, 1, i)) = Solid(f.pages[1])

=============================================================================
