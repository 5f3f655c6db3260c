----------------------------- MODULE UnitOfWork -----------------------------
(***************************************************************************)
(* What IUow promises its callers, without connections, queue or cache: a  *)
(* query takes effect as a whole, at most once, and never after or before  *)
(* it was answered with an error.                                          *)
(***************************************************************************)
EXTENDS Sequences

CONSTANT Queries

VARIABLES
  committed,   \* the queries that took effect, in order
  answer       \* what each caller was told

Rejections == {"error", "notFound"}

Init ==
  /\ committed = <<>>
  /\ answer = [q \in Queries |-> "none"]

HasEffect(q) == \E i \in DOMAIN committed : committed[i] = q

TakeEffect(q) ==
  /\ answer[q] \notin Rejections
  /\ ~HasEffect(q)
  /\ committed' = Append(committed, q)
  /\ UNCHANGED answer

Answer(q, a) ==
  /\ answer[q] = "none"
  /\ a \in Rejections => ~HasEffect(q)
  /\ answer' = [answer EXCEPT ![q] = a]
  /\ UNCHANGED committed

Next ==
  \E q \in Queries :
     \/ TakeEffect(q)
     \/ \E a \in Rejections \cup {"value"} : Answer(q, a)

Spec == Init /\ [][Next]_<<committed, answer>>

=============================================================================
