------------------------------ MODULE Comments ------------------------------
(***************************************************************************)
(* Comments on vulnerabilities, tasks and packages:                        *)
(* altrepo_api/api/management/endpoints/comments.py and the transaction    *)
(* of common/comments_transaction.py.  A comment is a row of the table     *)
(* Comments, and every change of it a row of CommentsChangeHistory; the    *)
(* newest change says whether the comment is discarded.  Creating one is   *)
(* two inserts.  Texts and references are left out.                        *)
(***************************************************************************)
EXTENDS Requests, Sequences

CONSTANTS
    Entities,     \* what is commented on
    MaxSecond,    \* bound on the clock
    LowCount      \* numbers for the lower 32 bits of an id

ASSUME CommentsAssumption ==
    /\ MaxSecond \in Nat
    /\ LowCount \in Nat \ {0}

VARIABLES
    comments,  \* the rows of Comments
    history,   \* the rows of CommentsChangeHistory, oldest first
    second     \* when the newest id was made

commentVars == <<comments, history, second>>

Ids == 0..((MaxSecond + 1) * LowCount - 1)

Comment == [id : Ids, pid : Ids, rid : Ids, entity : Entities]
Actions == {"create", "update", "discard"}

(* Methods of a request are named as the changes they register. *)
CommentRequests == [method : Actions, action : Actions, comment : Comment]

CommentsInit == comments = {} /\ history = <<>> /\ second = 0

(* Mutant of IdAt: the hash is not cut to its 32 bits. *)
IdAtUncut(time, low) == time * LowCount + low + LowCount

(* make_comment: an id is the second it is made in and a hash plus the     *)
(* microseconds, so that comments of one second are in no order; a comment *)
(* is its own parent and root at first.  That two ids of one second are    *)
(* the same, one case in 2^32, is left out.                                *)
IdAt(time, low) == time * LowCount + low
Fresh(id) ==
    /\ \A c \in comments : c.id # id
    /\ \A w \in Workers : place[w] # "idle" => request[w].comment.id # id

NewComment(w, method, e, p) ==
    \E time \in second..MaxSecond, low \in 0..(LowCount - 1) :
        LET id == IdAt(time, low)
        IN  /\ Fresh(id)
            /\ Begin(w, [method |-> method, action |-> "create",
                         comment |-> [id |-> id, pid |-> id, rid |-> id, entity |-> e]], p)
            /\ second' = time
            /\ UNCHANGED <<comments, history>>

CommentPost(w, e) == NewComment(w, "create", e, "lastComment")

(* put and delete load a comment that exists; the action of the payload is *)
(* not compared with the method.                                           *)
CommentChange(w, method, action, c) ==
    /\ method # "create" /\ action # "create"
    /\ Begin(w, [method |-> method, action |-> action, comment |-> c], "record")
    /\ UNCHANGED commentVars

(* Mutant of CommentChangeCreates: only post stores what it creates. *)
CommentChangeCreatesNothing(w, method, e) ==
    /\ method # "create" /\ comments # {}
    /\ NewComment(w, method, e, "record")

(* put or delete of a comment that exists, with the action "create": a new *)
(* comment is made and stored, and the method's change recorded for it.    *)
CommentChangeCreates(w, method, e) ==
    /\ method # "create" /\ comments # {}
    /\ NewComment(w, method, e, "storeComment")

OnEntity(e) == {c \in comments : c.entity = e}
Last(e) == CHOOSE c \in OnEntity(e) : \A d \in OnEntity(e) : d.id <= c.id

(* Mutants of Reply: the last comment becomes the root; it is ignored. *)
ReplyAsRoot(c) ==
    IF OnEntity(c.entity) = {} THEN c
    ELSE [c EXCEPT !.pid = Last(c.entity).id, !.rid = Last(c.entity).id]
ReplyNever(c) == c

(* The entity's last comment becomes the parent, its root the root. *)
Reply(c) ==
    IF OnEntity(c.entity) = {} THEN c
    ELSE [c EXCEPT !.pid = Last(c.entity).id, !.rid = Last(c.entity).rid]

(* post: get_last_comment *)
FindLast(w) ==
    /\ place[w] = "lastComment"
    /\ Goto(w, "storeComment")
    /\ request' = [request EXCEPT ![w].comment = Reply(@)]
    /\ overtaken' = [overtaken EXCEPT ![w] = FALSE]
    /\ UNCHANGED <<seen, left>>
    /\ UNCHANGED commentVars

StoreComment(w) ==
    /\ place[w] = "storeComment"
    /\ comments' = comments \cup {request[w].comment}
    /\ StoreAndGo(w, "record")
    /\ UNCHANGED <<history, second>>

(* The change record has the action of the method. *)
StoreChange(w) ==
    /\ place[w] = "record"
    /\ history' = Append(history, [id |-> request[w].comment.id,
                                   action |-> request[w].method])
    /\ StoreAndAnswer(w)
    /\ UNCHANGED <<comments, second>>

CommentStep(w) ==
    \/ FindLast(w)
    \/ StoreComment(w)
    \/ StoreChange(w)

CommentsNext ==
    \E w \in Workers :
        \/ \E e \in Entities : CommentPost(w, e)
        \/ \E m, a \in Actions, c \in comments : CommentChange(w, m, a, c)
        \/ \E m \in Actions, e \in Entities : CommentChangeCreates(w, m, e)
        \/ CommentStep(w)
        \/ Fail(w) /\ UNCHANGED commentVars

CommentsTypeOK ==
    /\ RequestsTypeOK({"lastComment", "storeComment", "record"},
                      CommentRequests, {})
    /\ comments \subseteq Comment
    /\ history \in Seq([id : Ids, action : Actions])
    /\ second \in 0..MaxSecond

-----------------------------------------------------------------------------
Root(c) == c.pid = c.id

(* A reply and its parent are comments on one entity with one root, the    *)
(* root is a comment that has no parent, and ids are not used twice        *)
(* (comments.py:227-248), whatever creates comments at the same time.      *)
RepliesFormTrees ==
    /\ \A c, d \in comments : c.id = d.id => c = d
    /\ \A c \in comments :
          /\ \E p \in comments : /\ p.id = c.pid /\ p.entity = c.entity
                                 /\ p.rid = c.rid
          /\ \E r \in comments : r.id = c.rid /\ Root(r) /\ r.entity = c.entity
    /\ \A S \in SUBSET comments :   \* no circle of replies
          S # {} => \E c \in S : Root(c) \/ \A p \in S : p.id # c.pid

(* A change is recorded after its comment is stored, so that a failure in  *)
(* between (comments.py:273-279) leaves no record of a comment that is not *)
(* there.                                                                  *)
RecordsHaveComments ==
    \A i \in 1..Len(history) : \E c \in comments : c.id = history[i].id

(* "use parent and root IDs if possible" (comments.py:232): a comment that *)
(* post stores begins another tree on its entity only if it was overtaken. *)
OneTreeUnlessOvertaken ==
    [][\A w \in Workers :
          (/\ place[w] = "storeComment" /\ place'[w] = "record"
           /\ request[w].method = "create" /\ ~overtaken[w]
           /\ OnEntity(request[w].comment.entity) # {})
              => ~Root(request[w].comment)]_<<commentVars, requestVars>>
=============================================================================
