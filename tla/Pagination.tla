------------------------------ MODULE Pagination ------------------------------
(***************************************************************************)
(* Pagination of vitrine (pagination.py): a page of a list, and the row of *)
(* buttons under it.  The source is read twice, count and then fetch, and  *)
(* may change in between.  A page source is the sequence of its items.     *)
(***************************************************************************)
EXTENDS Integers, Sequences

\* Python's max and min of two integers.
Larger(a, b) == IF a >= b THEN a ELSE b
Smaller(a, b) == IF a <= b THEN a ELSE b

\* Mutant: floor instead of ceiling.
PagesRoundedDown(total, perPage) == Larger(1, total \div perPage)

\* Page.pages: -(-total // per_page), and never less than one page.
Pages(total, perPage) == Larger(1, -((-total) \div perPage))

\* A number out of range is clamped.
Clamped(number, total, perPage) == Smaller(Larger(1, number), Pages(total, perPage))

\* ListSource.fetch: a slice, which Python cuts at the end of the list.
Fetch(items, offset, limit) ==
    SubSeq(items, offset + 1, Smaller(offset + limit, Len(items)))

\* Paginator.page: the list is counted, then, as it is by then, fetched.
Page(counted, fetched, perPage, number) ==
    LET total == Len(counted)
        n == Clamped(number, total, perPage)
    IN [items |-> Fetch(fetched, (n - 1) * perPage, perPage),
        number |-> n, perPage |-> perPage, total |-> total]

HasPrev(page) == page.number > 1
HasNext(page) == page.number < Pages(page.total, page.perPage)

\* What a button of the row does: nothing, or open another page.
Noop == 0

\* nav_row: Prev, the counter, Next; at an edge a filler takes the place.
NavRow(page) ==
    <<IF HasPrev(page) THEN page.number - 1 ELSE Noop, Noop,
      IF HasNext(page) THEN page.number + 1 ELSE Noop>>
=============================================================================
