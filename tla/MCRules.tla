------------------------------- MODULE MCRules -------------------------------
(***************************************************************************)
(* An instance of Rules for TLC: documents of three pages with up to three *)
(* entries, files of three pages with two pictures, two sentences on a     *)
(* page, decks of four cards to compare and of three to study, every       *)
(* exchange with a provider, and two processes that apply two migrations.  *)
(***************************************************************************)
EXTENDS Rules

MCLevels == UNION {[1 .. n -> 1 .. 3] : n \in 0 .. 3}

\* An outline nests one level at a time.
MCNested == {l \in MCLevels : \A i \in DOMAIN l : l[i] <= (IF i = 1 THEN 1 ELSE l[i - 1] + 1)}

MCEntries(levels, pages) ==
    {[i \in DOMAIN levels |-> [page |-> at[i], level |-> levels[i]]] : at \in [DOMAIN levels -> pages]}

MCOutlines == UNION {MCEntries(levels, 0 .. 3) : levels \in MCNested}

\* Headings come in the order of their pages.
MCHeadings ==
    {e \in UNION {MCEntries(levels, 1 .. 3) : levels \in MCLevels} :
        \A i, j \in DOMAIN e : i < j => e[i].page <= e[j].page}

MCDocuments ==
    LET documents == [reader : {"outline"}, entries : MCOutlines, chars : [1 .. 3 -> {0, 4}]]
                     \cup [reader : {"headings"}, entries : MCHeadings, chars : [1 .. 3 -> {0, 4}]]
    IN  [document : documents, ticked : SUBSET (1 .. 3)]

MCPictures == {"a", "b"}
MCPages == UNION {[1 .. n -> [text : BOOLEAN, shows : SUBSET MCPictures]] : n \in 1 .. 3}
MCFiles ==
    {asked \in [file   : [format : {"pdf", "docx", "pptx", "text", "image"},
                          pages  : MCPages,
                          kept   : SUBSET MCPictures],
                worded : {{}, {1}, {2}, {1, 2, 3}}] :
        asked.file.format = "image" => /\ asked.file.kept = {"a"}
                                       /\ asked.file.pages = <<[text |-> FALSE, shows |-> {"a"}]>>}

MCTerms == {"x", "y"}
MCFigurePages ==
    LET figure   == [page : 0 .. 2, scan : BOOLEAN, terms : SUBSET MCTerms]
        citation == [page : 1 .. 2, terms : SUBSET MCTerms]
    IN  [figures : UNION {[1 .. n -> figure] : n \in 0 .. 2},
         citations : UNION {[1 .. n -> citation] : n \in 1 .. 2}]

MCSides == [negated : BOOLEAN, figures : {{}, {1}, {2}}]
MCSentences == [words : {"w", "v"}, negated : BOOLEAN, figures : {{}, {1}}, hedged : BOOLEAN]
MCCards ==
    {card \in [format   : {"qa", "cloze"},
               words    : {"w"},
               prompt   : MCSides,
               answer   : MCSides,
               absolute : BOOLEAN,
               cites    : {{}, {1}, {1, 2}}] :
        card.format = "cloze" => card.answer = [negated |-> FALSE, figures |-> {}]}
MCCandidates == [card : MCCards, page : [1 .. 2 -> MCSentences], judge : {"supported", "unsupported"}]

\* u is like v and v like w, but not u like w.
MCWordings == {"u", "v", "w"}
MCAlike == {<<a, b>> \in MCWordings \X MCWordings : a = b \/ a = "v" \/ b = "v"}
MCDecks == [1 .. 4 -> [words : MCWordings, prompt : [negated : BOOLEAN, figures : {{}, {1}}]]]

MCStudyCards == 1 .. 3
MCCreatedAt == [card \in MCStudyCards |-> IF card = 2 THEN 1 ELSE 2]
=============================================================================
