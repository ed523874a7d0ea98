----------------------------- MODULE Pagination -----------------------------
(* Pages of an answer: altrepo_api/libs/pagination.py. *)
EXTENDS Integers, Sequences

(* A limit that is None, zero or negative stands for the whole list. *)
Limit(list, limit) == IF limit > 0 THEN limit ELSE Len(list)

(* Mutant of NumPages: the last page is not counted unless it is full. *)
NumPagesFull(list, limit) ==
    IF Len(list) = 0 THEN 0 ELSE Len(list) \div Limit(list, limit)

NumPages(list, limit) ==
    IF Len(list) = 0 THEN 0
    ELSE (Len(list) + Limit(list, limit) - 1) \div Limit(list, limit)

ValidNumber(list, limit, number) ==
    LET n == IF number < 1 THEN 1 ELSE number
    IN  IF n > NumPages(list, limit) /\ n # 1 THEN NumPages(list, limit) ELSE n

(* The slice; an empty list has a page 0, which is empty. *)
GetPage(list, limit, number) ==
    LET bottom == (ValidNumber(list, limit, number) - 1) * Limit(list, limit)
        top == bottom + Limit(list, limit)
    IN  IF bottom < 0 THEN <<>>
        ELSE SubSeq(list, bottom + 1, IF top >= Len(list) THEN Len(list) ELSE top)

(* One page after the other, as far as beyond the last one. *)
Pages(list, limit) == [n \in 1..(Len(list) + 1) |-> GetPage(list, limit, n)]

(* Asking for one page after the other shows the whole list in its order:  *)
(* each page is as long as the first one and begins where the one before   *)
(* it has ended, and the last one ends with the list.  Numbers beyond the  *)
(* last page repeat it (pagination.py:27-62).                              *)
PagesAreTheList(list, pages) ==
    LET length == Len(pages[1])
    IN  \E last \in DOMAIN pages :
            /\ \A n \in 1..last : \A k \in 1..Len(pages[n]) :
                  pages[n][k] = list[(n - 1) * length + k]
            /\ \A n \in 1..(last - 1) : Len(pages[n]) = length
            /\ (last - 1) * length + Len(pages[last]) = Len(list)
            /\ \A n \in DOMAIN pages : n > last => pages[n] = pages[last]
=============================================================================
