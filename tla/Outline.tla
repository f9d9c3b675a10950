------------------------------- MODULE Outline -------------------------------
(***************************************************************************)
(* From the headings of a document to the pages a run sends.  A reader     *)
(* turns an outline or headings into a tree of sections with page ranges,  *)
(* the tree is stored as rows with parent links, the owner ticks sections, *)
(* and the worker expands the selection, takes the pages of chosen         *)
(* subsections away from their parents and packs the rest into calls.      *)
(*                                                                         *)
(* A document is [reader, entries, chars]: which reader made it, its       *)
(* outline entries or headings in reading order, [page, level] each (page  *)
(* 0: the destination does not resolve), and the number of characters of   *)
(* text on each page (0: no text).  A section is [id, parent, start, end]; *)
(* its id is the place of its entry, and parent 0 means a root.            *)
(***************************************************************************)
EXTENDS Naturals, Sequences, SequencesExt, FiniteSetsExt

CONSTANTS
    MaxSelected,    \* how many section ids of a request are read
    CharsPerCall    \* MAX_SOURCE_CHARS_PER_CALL

ASSUME OutlineAssumption ==
    /\ MaxSelected \in Nat \ {0}
    /\ CharsPerCall \in Nat \ {0}

PagesIn(section) == section.start .. section.end
PageCount(document) == Len(document.chars)

CeilDiv(a, b) == (a + b - 1) \div b

\* The members of a sequence that are in S, in their order: SelectSeq with a
\* set for its test.
KeptOf(S, seq) ==
    LET kept[n \in 0 .. Len(seq)] ==
            IF n = 0 THEN <<>>
            ELSE IF seq[n] \in S THEN Append(kept[n - 1], seq[n]) ELSE kept[n - 1]
    IN  kept

Only(S, seq) == KeptOf(S, seq)[Len(seq)]

\* The sums of the first numbers, and of all.
Totals(seq) ==
    LET total[n \in 0 .. Len(seq)] == IF n = 0 THEN 0 ELSE total[n - 1] + seq[n]
    IN  total

SumOf(seq) == Totals(seq)[Len(seq)]

-----------------------------------------------------------------------------
(* Sections of a document *)

\* The nearest earlier entry of a smaller level, which an outline nests the
\* entry in and a stack of headings leaves on top; 0 when there is none.
Enclosing(entries, i) ==
    LET shallower == {j \in 1 .. (i - 1) : entries[j].level < entries[i].level}
    IN  IF shallower = {} THEN 0 ELSE Max(shallower)

\* Later entries that are not nested in entry i.
Following(entries, i) ==
    {j \in (i + 1) .. Len(entries) : entries[j].level <= entries[i].level}

\* An outline entry runs to the page before the next one outside it that
\* opens on a later page.  Entries that do not resolve are not there.
OutlineEnd(entries, i, pageCount) ==
    LET later == {j \in Following(entries, i) : entries[j].page > entries[i].page}
    IN  IF later = {} THEN pageCount ELSE entries[Min(later)].page - 1

\* A heading runs to the page before the next one outside it, but at least
\* to the end of its own page.
HeadingEnd(entries, i, pageCount) ==
    LET next == Following(entries, i)
    IN  IF next = {}
        THEN pageCount
        ELSE Max({entries[Min(next)].page - 1, entries[i].page})

\* Spans of equal length, for a document with no outline of its own.
Chunks(pageCount, size) ==
    [k \in 1 .. CeilDiv(pageCount, size) |->
        [id     |-> k,
         parent |-> 0,
         start  |-> (k - 1) * size + 1,
         end    |-> Min({k * size, pageCount})]]

\* An entry whose parent does not resolve becomes a root.
OutlineSections(document) ==
    LET entries  == document.entries
        resolved == {i \in DOMAIN entries : entries[i].page # 0}
        section(i) ==
            [id     |-> i,
             parent |-> IF Enclosing(entries, i) \in resolved
                        THEN Enclosing(entries, i) ELSE 0,
             start  |-> entries[i].page,
             end    |-> OutlineEnd(entries, i, PageCount(document))]
        order == Only(resolved, [i \in DOMAIN entries |-> i])
    IN  IF resolved = {}
        THEN Chunks(PageCount(document), Max({5, CeilDiv(PageCount(document), 6)}))
        ELSE [k \in DOMAIN order |-> section(order[k])]

HeadingSections(document) ==
    LET entries == document.entries
    IN  IF entries = <<>>
        THEN Chunks(PageCount(document), Max({1, CeilDiv(PageCount(document), 6)}))
        ELSE [i \in DOMAIN entries |->
                 [id     |-> i,
                  parent |-> Enclosing(entries, i),
                  start  |-> entries[i].page,
                  end    |-> HeadingEnd(entries, i, PageCount(document))]]

SectionsOf(document) ==
    IF document.reader = "outline"
    THEN OutlineSections(document)
    ELSE HeadingSections(document)

\* The tree, parents before children and siblings in their order: the order
\* rows are stored in, and the order the client lists them in again.
Under(sections, id) == Only({s \in ToSet(sections) : s.parent = id}, sections)

Listed(sections) ==
    LET listed[id \in {0} \cup {s.id : s \in ToSet(sections)}] ==
            LET under == Under(sections, id)
            IN  FlattenSeq([k \in DOMAIN under |-> <<under[k]>> \o listed[under[k].id]])
    IN  listed

Flattened(sections) == Listed(sections)[0]

StoredRows(document) == Flattened(SectionsOf(document))

-----------------------------------------------------------------------------
(* The selection, and the calls that carry it *)

\* The ids the client sends, in the order of its tree, and what is read.
SelectedIds(rows, ticked) ==
    LET shown == Flattened(rows)
        ids   == Only(ticked, [k \in DOMAIN shown |-> shown[k].id])
    IN  ToSet(SubSeq(ids, 1, Min({MaxSelected, Len(ids)})))

\* A chosen section brings everything below it; choosing none chooses all.
Children(rows, ids) == {r.id : r \in {q \in ToSet(rows) : q.parent \in ids}}

Growth(rows, ids) ==
    LET grown[got \in SUBSET (ids \cup {r.id : r \in ToSet(rows)})] ==
            IF Children(rows, got) \subseteq got THEN got ELSE grown[got \cup Children(rows, got)]
    IN  grown

Below(rows, ids) == Growth(rows, ids)[ids]

ExpandSelectedSections(rows, ids) ==
    IF ids = {} THEN {r.id : r \in ToSet(rows)} ELSE Below(rows, ids)

\* Variant: only the children of a section are taken from its pages.
ScopesLessChildren(rows, ids) ==
    LET chosen == Only({r \in ToSet(rows) : r.id \in ids}, rows)
        claimed(row) == UNION {PagesIn(r) : r \in {q \in ToSet(chosen) : q.parent = row.id}}
        scopes == [k \in DOMAIN chosen |->
                      [id    |-> chosen[k].id,
                       pages |-> PagesIn(chosen[k]) \ claimed(chosen[k])]]
    IN  Only({scope \in ToSet(scopes) : scope.pages # {}}, scopes)

\* The pages of a section that no chosen section below it covers.
BuildSectionScopes(rows, ids) ==
    LET chosen == Only({r \in ToSet(rows) : r.id \in ids}, rows)
        under(row) == {r \in ToSet(chosen) : r.id \in Below(chosen, {row.id}) \ {row.id}}
        claimed(row) == UNION {PagesIn(r) : r \in under(row)}
        scopes == [k \in DOMAIN chosen |->
                      [id    |-> chosen[k].id,
                       pages |-> PagesIn(chosen[k]) \ claimed(chosen[k])]]
    IN  Only({scope \in ToSet(scopes) : scope.pages # {}}, scopes)

CharsOf(document, pages) ==
    SumOf([p \in DOMAIN document.chars |-> IF p \in pages THEN document.chars[p] ELSE 0])

\* Variant: the call that is full is not kept.
ForgetFullCall(plan, scope) ==
    IF plan.current # <<>> /\ plan.characters + scope.characters > CharsPerCall
    THEN [batches    |-> plan.batches,
          current    |-> <<scope>>,
          characters |-> scope.characters]
    ELSE [plan EXCEPT !.current = Append(@, scope),
                      !.characters = @ + scope.characters]

\* Whole sections are packed into a call until the next would not fit.
AddScope(plan, scope) ==
    IF plan.current # <<>> /\ plan.characters + scope.characters > CharsPerCall
    THEN [batches    |-> Append(plan.batches, plan.current),
          current    |-> <<scope>>,
          characters |-> scope.characters]
    ELSE [plan EXCEPT !.current = Append(@, scope),
                      !.characters = @ + scope.characters]

Packed(scopes) ==
    LET packed[n \in 0 .. Len(scopes)] ==
            IF n = 0 THEN [batches |-> <<>>, current |-> <<>>, characters |-> 0]
            ELSE AddScope(packed[n - 1], scopes[n])
    IN  packed

PlanConceptBatches(document, scopes) ==
    LET readable(scope) == {p \in scope.pages : document.chars[p] > 0}
        worded == Only({scope \in ToSet(scopes) : readable(scope) # {}}, scopes)
        loaded == [k \in DOMAIN worded |->
                      [id         |-> worded[k].id,
                       pages      |-> readable(worded[k]),
                       characters |-> CharsOf(document, readable(worded[k]))]]
        plan == Packed(loaded)[Len(loaded)]
    IN  IF plan.current = <<>> THEN plan.batches ELSE Append(plan.batches, plan.current)

\* What a run of the ticked sections of the document sends.
PlanOf(document, ticked) ==
    LET rows == StoredRows(document)
        ids  == ExpandSelectedSections(rows, SelectedIds(rows, ticked))
    IN  PlanConceptBatches(document, BuildSectionScopes(rows, ids))

=============================================================================
