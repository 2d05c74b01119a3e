------------------------------- MODULE PdfText -------------------------------
(* pdf-filter: a PDF as Markdown.  The text comes from two passes: over the  *)
(* tag tree, if the document has one, and over the pages.                    *)
(*                                                                           *)
(* A page is [lines, images, few, table]: has it images, fewer letters than  *)
(* prose has, a table that shows in the layout?  A line is [word, mark,      *)
(* long]: its text, "" if it is blank, the marked content it belongs to or   *)
(* 0, and whether it is too long to be a running header.                     *)
(*                                                                           *)
(* knob is [file, tree, depth, cap]: what kind of file it is, "plain",       *)
(* "encrypted" or "unreadable", the tag tree, and the bounds on its depth    *)
(* and on the pages.  A tree is [tagged, top, elements]; an element is       *)
(* [role, page, kids, lone] with the page 0 if it names none, and lone if    *)
(* its kid is not in an array.  A kid is <<"mark", id, page>>, <<"object">>  *)
(* or <<"element", its number>>.  Roles that the code treats alike are one:  *)
(* "block", "part", "Table", "rows", "TR" and "cell".  That the walk also     *)
(* ends after 100,000 elements is left out.                                  *)
EXTENDS SequencesExt

PageOf(e, inherited) == IF e.page = 0 THEN inherited ELSE e.page

\* mcidSpans: the marked content an element names itself.
OwnMarks(e, inherited) ==
  LET page == PageOf(e, inherited)
      Mark(kid) == <<IF kid[3] = 0 THEN page ELSE kid[3], kid[2]>>
      IsMark(kid) == kid[1] = "mark"
      marks == SelectSeq(e.kids, IsMark)
  IN [n \in DOMAIN marks |-> Mark(marks[n])]

Unseen(kid, s) == kid[1] = "element" /\ kid[2] \notin s.seen
See(s, kid) == [s EXCEPT !.seen = @ \cup {kid[2]}]

\* subtreeSpans: all text below e, its own first.
RECURSIVE Subtree(_, _, _, _, _)
Subtree(knob, s, e, depth, inherited) ==
  LET Descend(t, kid) ==
        IF ~Unseen(kid, t) THEN t
        ELSE Subtree(knob, See(t, kid), knob.tree.elements[kid[2]], depth + 1, PageOf(e, inherited))
  IN IF depth > knob.depth THEN s
     ELSE FoldLeft(Descend, [s EXCEPT !.marks = @ \o OwnMarks(e, inherited)], e.kids)

\* row: cells are not marked as seen, but what is in them is.
CellsOf(knob, s, tr, inherited) ==
  LET Cell(t, kid) ==
        IF kid[1] # "element" \/ knob.tree.elements[kid[2]].role # "cell" THEN t
        ELSE Subtree(knob, t, knob.tree.elements[kid[2]], 0, PageOf(tr, inherited))
  IN IF tr.lone THEN s ELSE FoldLeft(Cell, s, tr.kids)

\* collectRows: the rows of a table, in groups or not; nothing else in it counts.
RECURSIVE RowsBelow(_, _, _, _, _)
RowsBelow(knob, s, e, depth, inherited) ==
  LET Collect(t, kid) ==
        IF ~Unseen(kid, t) THEN t
        ELSE LET child == knob.tree.elements[kid[2]]
                 page == PageOf(child, inherited)
             IN CASE child.role = "TR" -> [CellsOf(knob, See(t, kid), child, page) EXCEPT !.rows = @ + 1]
                  [] child.role = "rows" -> RowsBelow(knob, See(t, kid), child, depth + 1, page)
                  [] OTHER -> See(t, kid)
  IN IF depth > knob.depth \/ e.lone THEN s ELSE FoldLeft(Collect, s, e.kids)

\* walk: a table as a grid, a block with all its text, a part with what it holds
\* itself and then what is in it.
RECURSIVE Walk(_, _, _, _, _)
Walk(knob, s, kid, depth, inherited) ==
  LET e == knob.tree.elements[kid[2]]
      t == See(s, kid)
      Into(u, k) == Walk(knob, u, k, depth + 1, PageOf(e, inherited))
  IN IF depth > knob.depth \/ ~Unseen(kid, s) THEN s
     ELSE CASE e.role = "Table" -> RowsBelow(knob, t, e, depth, PageOf(e, inherited))
            [] e.role = "block" -> Subtree(knob, t, e, depth, inherited)
            [] OTHER -> FoldLeft(Into, [t EXCEPT !.marks = @ \o OwnMarks(e, inherited)], e.kids)

HasText(pages, mark) ==
  /\ mark[1] \in DOMAIN pages
  /\ \E i \in DOMAIN pages[mark[1]].lines :
       LET line == pages[mark[1]].lines[i] IN line.mark = mark[2] /\ line.word # ""

\* StructuredMarkdown: the marked text in the tree's order; says is FALSE if
\* there is no tree or nothing came of it.
Structured(pages, knob) ==
  LET Top(s, kid) == Walk(knob, s, kid, 0, 1)
      all == FoldLeft(Top, [seen |-> {}, marks |-> <<>>, rows |-> 0], knob.tree.top)
      Says(mark) == HasText(pages, mark)
      text == SelectSeq(all.marks, Says)
  IN IF ~knob.tree.tagged THEN [says |-> FALSE, marks |-> <<>>]
     ELSE [says |-> text # <<>> \/ all.rows > 0, marks |-> text]

-----------------------------------------------------------------------------
(* The pages.                                                                *)

Written(page) == {i \in DOMAIN page.lines : page.lines[i].word # ""}

\* pageStrategy.
Strategy(page) ==
  IF Written(page) = {} THEN IF page.images THEN "scanned" ELSE "blank"
  ELSE IF page.few /\ page.images THEN "chart" ELSE "text"

\* findFurniture: short lines on 60% of the pages, of four or more.
Furniture(pages) ==
  LET Words(p) == {pages[p].lines[i].word :
                    i \in {j \in Written(pages[p]) : ~pages[p].lines[j].long}}
      On(w) == {p \in DOMAIN pages : w \in Words(p)}
  IN IF Len(pages) < 4 THEN {}
     ELSE {w \in UNION {Words(p) : p \in DOMAIN pages} : 5 * Cardinality(On(w)) >= 3 * Len(pages)}

\* stripFurniture; a page with nothing else on it keeps its lines.
Body(page, furniture) ==
  LET rest == {i \in Written(page) : page.lines[i].word \notin furniture}
  IN SetToSortSeq(IF rest = {} THEN Written(page) ELSE rest, <)

\* renderPages: one entry for each page that has something to say.
RenderPages(pages, structured) ==
  LET furniture == Furniture(pages)
      Entry(n) ==
        LET page == pages[n]
            kind == Strategy(page)
        IN [page |-> n, kind |-> kind, table |-> kind = "text" /\ page.table,
            images |-> kind = "text" /\ page.images,
            lines |-> CASE kind = "text" /\ ~structured -> Body(page, furniture)
                        [] kind = "chart" -> SetToSortSeq(Written(page), <)
                        [] OTHER -> <<>>]
      Kept(e) == structured => e.kind # "text" \/ e.table \/ e.images
  IN SelectSeq([n \in DOMAIN pages |-> Entry(n)], Kept)

\* pdfFilter and pdfMarkdown: a file that says nothing for certain stays as it is.
PdfText(pages, knob) ==
  LET shown == SubSeq(pages, 1, Min({Len(pages), knob.cap}))
      structure == Structured(pages, knob)
  IN IF knob.file # "plain" \/ pages = <<>> THEN [verbatim |-> TRUE]
     ELSE [verbatim |-> FALSE,
           structure |-> structure.marks,
           pages |-> RenderPages(shown, structure.says),
           cut |-> Len(shown) < Len(pages),
           lowValue |-> ~structure.says /\ \A n \in DOMAIN shown : Strategy(shown[n]) # "text"]
=============================================================================
