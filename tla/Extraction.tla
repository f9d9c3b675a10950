----------------------------- MODULE Extraction -----------------------------
(***************************************************************************)
(* What a reader makes of a file, what the server stores of it, what the   *)
(* reading of pictures (OCR) changes, and the four places that report how  *)
(* much of the document can be read: the parse, the row of the document    *)
(* list, the opened document and the client's report on it.                *)
(*                                                                         *)
(* A file is [format, pages, kept]: pages in order, each [text, shows] -   *)
(* whether it holds text and the pictures drawn on it, those of the        *)
(* paragraphs that reach pagination whole - and the pictures the reader    *)
(* can decode and its media budget admits.  A reading is [kinds, media]:   *)
(* the kind of each page and the stored rows <<page, picture>>, page 0 for *)
(* a picture no page is known for.                                         *)
(***************************************************************************)
EXTENDS Naturals, Sequences, SequencesExt, FiniteSetsExt

CONSTANTS
    MaxFigurePages,     \* pages of a PDF that are searched for pictures
    BusyPageTerms,      \* terms a figure must share on a page with others
    LoneFigureTerms     \* terms the only figure of a page must share

ASSUME ExtractionAssumption ==
    /\ MaxFigurePages \in Nat \ {0}
    /\ LoneFigureTerms \in Nat \ {0}
    /\ BusyPageTerms \in Nat
    /\ BusyPageTerms >= LoneFigureTerms

PageKinds == {"text", "ocr-text", "blank", "image-only"}
Formats   == {"pdf", "docx", "pptx", "text", "image"}

PicturesOf(file) == file.kept \cup UNION {page.shows : page \in ToSet(file.pages)}

-----------------------------------------------------------------------------
(* The readers *)

\* A page of a PDF is searched for pictures up to a limit.
PaintedImages(file, p) == IF p <= MaxFigurePages THEN file.pages[p].shows ELSE {}

\* Beside text the pictures that can be decoded are stored as figures.
PageFigures(painted, kept) == painted \cap kept

\* A page without text is made of one of its pictures, if any can be decoded.
DominantImage(painted, kept) ==
    IF painted \cap kept = {} THEN {} ELSE {CHOOSE picture \in painted \cap kept : TRUE}

\* A page with no text is a gap when something is painted on it, stored or not.
PdfReading(file) ==
    LET painted(p) == PaintedImages(file, p)
        kind(p)    == IF file.pages[p].text THEN "text"
                      ELSE IF painted(p) # {} THEN "image-only" ELSE "blank"
        stored(p)  == IF file.pages[p].text
                      THEN PageFigures(painted(p), file.kept)
                      ELSE DominantImage(painted(p), file.kept)
    IN  [kinds |-> [p \in DOMAIN file.pages |-> kind(p)],
         media |-> UNION {{p} \X stored(p) : p \in DOMAIN file.pages}]

\* The first page that shows a picture has it; one no page shows is stored
\* without a page.
AnchorOf(pages, picture) ==
    LET on == {p \in DOMAIN pages : picture \in pages[p].shows}
    IN  IF on = {} THEN 0 ELSE Min(on)

\* Slides and stated pages of a document: a page with no text is a gap when
\* a picture is anchored to it.
AnchoredReading(pages, kept) ==
    LET media   == {<<AnchorOf(pages, picture), picture>> : picture \in kept}
        kind(p) == IF pages[p].text THEN "text"
                   ELSE IF \E row \in media : row[1] = p THEN "image-only" ELSE "blank"
    IN  [kinds |-> [p \in DOMAIN pages |-> kind(p)], media |-> media]

PptxReading(file) == AnchoredReading(file.pages, file.kept)

\* Page breaks before the first content and after the last are not pages.
Trimmed(pages) ==
    LET stated == {p \in DOMAIN pages : pages[p].text \/ pages[p].shows # {}}
    IN  IF stated = {}
        THEN <<[text |-> FALSE, shows |-> {}]>>
        ELSE SubSeq(pages, Min(stated), Max(stated))

DocxReading(file) == AnchoredReading(Trimmed(file.pages), file.kept)

\* Text, Markdown and notes hold no pictures; with no text at all they are
\* one blank page.
TextReading(file) ==
    LET pages == Cardinality({p \in DOMAIN file.pages : file.pages[p].text})
    IN  [kinds |-> IF pages = 0 THEN <<"blank">> ELSE [p \in 1 .. pages |-> "text"],
         media |-> {}]

\* An uploaded picture is one page that is nothing but the picture.
ImageReading(file) ==
    [kinds |-> <<"image-only">>, media |-> {<<1, CHOOSE picture \in file.kept : TRUE>>}]

ReadingOf(file) ==
    CASE file.format = "pdf"   -> PdfReading(file)
      [] file.format = "docx"  -> DocxReading(file)
      [] file.format = "pptx"  -> PptxReading(file)
      [] file.format = "text"  -> TextReading(file)
      [] file.format = "image" -> ImageReading(file)

-----------------------------------------------------------------------------
(* Storing a reading, and reading its pictures *)

\* The payload states a kind only for a page without text.
UploadedPage(kind) ==
    [text |-> kind \in {"text", "ocr-text"},
     kind |-> IF kind \in {"text", "ocr-text"} THEN "none stated" ELSE kind]

\* Text wins over a label that denies it; a page is readable only with text.
ReadPageKind(page) ==
    IF page.text
    THEN IF page.kind = "ocr-text" THEN "ocr-text" ELSE "text"
    ELSE IF page.kind = "image-only" THEN "image-only" ELSE "blank"

StoredBlocks(reading) ==
    [p \in DOMAIN reading.kinds |-> ReadPageKind(UploadedPage(reading.kinds[p]))]

\* Pages whose picture a run may have read: a page with words becomes
\* readable, a page without any stays what it was.
OcrCandidates(blocks, media) ==
    {p \in DOMAIN blocks : blocks[p] = "image-only" /\ \E row \in media : row[1] = p}

AfterOcr(blocks, worded) ==
    [p \in DOMAIN blocks |-> IF p \in worded THEN "ocr-text" ELSE blocks[p]]

-----------------------------------------------------------------------------
(* Counting what can be read *)

PagesOfKind(kinds, wanted) == Cardinality({p \in DOMAIN kinds : kinds[p] \in wanted})

Counts(readable, ocr, blank, unread) ==
    [readable |-> readable, ocr |-> ocr, blank |-> blank, unread |-> unread]

SummariseExtraction(reading) ==
    LET text == PagesOfKind(reading.kinds, {"text"})
        ocr  == PagesOfKind(reading.kinds, {"ocr-text"})
    IN  Counts(text + ocr, ocr,
               PagesOfKind(reading.kinds, {"blank"}),
               PagesOfKind(reading.kinds, {"image-only"}))

\* Variant: a page read off a picture is not a page cards can come from.
NativePagesOnly(blocks) ==
    Counts(PagesOfKind(blocks, {"text"}),
           PagesOfKind(blocks, {"ocr-text"}),
           PagesOfKind(blocks, {"blank"}),
           PagesOfKind(blocks, {"image-only"}))

\* The row of the document list, counted by the query.
ListedCounts(blocks) ==
    Counts(PagesOfKind(blocks, {"text", "ocr-text"}),
           PagesOfKind(blocks, {"ocr-text"}),
           PagesOfKind(blocks, {"blank"}),
           PagesOfKind(blocks, {"image-only"}))

\* The opened document, counted one block after the other.
PageKindCounts(blocks) ==
    FoldLeft(LAMBDA counts, kind :
                CASE kind = "ocr-text"   -> [counts EXCEPT !.readable = @ + 1, !.ocr = @ + 1]
                  [] kind = "text"       -> [counts EXCEPT !.readable = @ + 1]
                  [] kind = "blank"      -> [counts EXCEPT !.blank = @ + 1]
                  [] kind = "image-only" -> [counts EXCEPT !.unread = @ + 1],
             Counts(0, 0, 0, 0), blocks)

\* What opening a document is answered with.
OpenedDocument(blocks, media) ==
    [blocks |-> blocks, media |-> media, counts |-> PageKindCounts(blocks)]

\* The client's report: the served counts, and the unread pages split by
\* whether a picture of them is stored.
ReadReportFromStored(opened) ==
    LET unread   == {p \in DOMAIN opened.blocks : opened.blocks[p] = "image-only"}
        pictured == {p \in unread : \E row \in opened.media : row[1] = p}
        readable == PagesOfKind(opened.blocks, {"text", "ocr-text"})
    IN  [counts  |-> [opened.counts EXCEPT
                         !.readable = IF @ = 0 THEN readable ELSE @,
                         !.ocr = PagesOfKind(opened.blocks, {"ocr-text"})],
         unreadPictures       |-> Cardinality(pictured),
         unreadWithoutPicture |-> Cardinality(unread \ pictured)]

-----------------------------------------------------------------------------
(* Which figures a citation shows *)

\* A figure is [page, scan, terms] and a citation [page, terms].
\* Variant: the exception for a lone figure ignores the other citations.
AnyCitationOfALoneFigure(figure, citation, figuresOnPage, citationsOnPage) ==
    LET shared == Cardinality(figure.terms \cap citation.terms)
    IN  /\ figure.page # 0
        /\ figure.page = citation.page
        /\ \/ figure.scan
           \/ shared >= (IF figuresOnPage > 1 THEN BusyPageTerms ELSE LoneFigureTerms)
           \/ shared = 0 /\ figuresOnPage = 1

\* Shared terms decide; the only figure of a page may also go to the only
\* citation of that page.
FigureSupportsEvidence(figure, citation, figuresOnPage, citationsOnPage) ==
    LET shared == Cardinality(figure.terms \cap citation.terms)
    IN  /\ figure.page # 0
        /\ figure.page = citation.page
        /\ \/ figure.scan
           \/ shared >= (IF figuresOnPage > 1 THEN BusyPageTerms ELSE LoneFigureTerms)
           \/ shared = 0 /\ figuresOnPage = 1 /\ citationsOnPage = 1

\* Figures and citations are sequences; the result gives the figures of each.
\* The code keeps the first MAX_FIGURES_PER_CARD of them (figures.ts:263): that
\* takes figures off a card and puts none on one.
FiguresByEvidence(figures, citations) ==
    LET on(rows, page) == Cardinality({i \in DOMAIN rows : rows[i].page = page})
    IN  [c \in DOMAIN citations |->
            {f \in DOMAIN figures :
                FigureSupportsEvidence(figures[f], citations[c],
                                       on(figures, citations[c].page),
                                       on(citations, citations[c].page))}]

=============================================================================
