------------------------------- MODULE Listing -------------------------------
(***************************************************************************)
(* The arithmetic of list pages: list_query and list_context of            *)
(* framework/src/models/routes.rs, fetch_page of                           *)
(* fse-orm/runtime/src/builder.rs, total_pages of models/resource.rs.      *)
(***************************************************************************)
EXTENDS Integers, Sequences, SequencesExt

CONSTANTS MaxInt,      \* bound: i64::MAX
          MaxPerPage,  \* MAX_PER_PAGE
          Default      \* what stands for a parameter that is not a number

ASSUME ListingAssumption == MaxInt \in Nat /\ MaxPerPage \in 1..MaxInt /\ Default \notin Int

Least(a, b) == IF a < b THEN a ELSE b
Most(a, b) == IF a > b THEN a ELSE b

\* list_query: per_page is clamped, page is not.
PerPage(asked, declared) ==
  Least(Most(IF asked = Default THEN declared ELSE asked, 1), MaxPerPage)
PageNo(asked) == Most(IF asked = Default THEN 1 ELSE asked, 1)

\* fetch_page: OFFSET (page - 1) * per_page, saturating, and LIMIT per_page.
Offset(page, per) == Least((page - 1) * per, MaxInt)
PageRows(rows, page, per) == SubSeq(rows, Offset(page, per) + 1, Least(Offset(page, per) + per, Len(rows)))
\* Mutant: the last, partly filled page is not counted.
TotalPagesDown(total, per) == total \div per
TotalPages(total, per) == (total + per - 1) \div per

\* list_context: the neighbours of a page.
HasNext(page, total, per) == page < TotalPages(total, per)
HasPrev(page) == page > 1
NextPage(page, total, per) == Least(page + 1, Most(TotalPages(total, per), 1))
PrevPage(page) == Most(page - 1, 1)

\* The rows a visitor sees who starts at a page and follows "next" to the end.
Walk(rows, per) ==
  LET from[p \in 1..(Len(rows) + 1)] ==
        PageRows(rows, p, per) \o
          IF HasNext(p, Len(rows), per) THEN from[NextPage(p, Len(rows), per)] ELSE <<>>
  IN  from[1]
==============================================================================
