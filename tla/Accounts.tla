------------------------------ MODULE Accounts ------------------------------
(***************************************************************************)
(* What the billing requests promise about the books, whatever document    *)
(* and route is involved: a document (an invoice or a payment) is posted   *)
(* in one step, with at most one item per learner, and only once; it is    *)
(* withdrawn in one step, all its items together, and never comes back.    *)
(***************************************************************************)
VARIABLES
  open,     \* items in force:   [doc, learner, amount]
  closed    \* items withdrawn

Docs(items) == {x.doc : x \in items}

Init == open = {} /\ closed = {}

Post ==
  /\ open \subseteq open'
  /\ open' # open
  /\ \E doc \in Docs(open') \ Docs(open \cup closed) : \A x \in open' \ open : x.doc = doc
  /\ \A x, y \in open' \ open : x.learner = y.learner => x = y
  /\ closed' = closed

Withdraw ==
  \E doc \in Docs(open) :
    LET items == {x \in open : x.doc = doc}
    IN /\ open' = open \ items
       /\ closed' = closed \cup items

Next == Post \/ Withdraw

Spec == Init /\ [][Next]_<<open, closed>>
=============================================================================
