------------------------------- MODULE MCDesk -------------------------------
(***************************************************************************)
(* Desk for TLC: which batches scanners send, who is registered.           *)
(***************************************************************************)
EXTENDS Desk, TLC

CONSTANTS u1, u2, guest, w1, w2, h1, h2, laptop

Item(w, u) == [band |-> w, user |-> u]

\* One band twice in a batch; a batch with a user who is not registered.
ManyAssignments == {<<Item(w1, u1)>>, <<Item(w1, u1), Item(w1, u2)>>,
                    <<Item(w1, guest), Item(w2, u2)>>}
ManyScans       == {<<>>, <<[band |-> w1]>>, <<[band |-> w2], [band |-> w1]>>}
RegisteredIn    == {<<u1, h1>>, <<u2, h1>>}
AtTheDesk       == {<<w1, Nobody>>, <<w2, u1>>, <<NoBand, guest>>, <<NoBand, Nobody>>}

\* A loan by name takes one request: it leaves two to return and to list.
ByName          == {<<NoBand, u1>>}
OnePieceEach    == [item \in Items |-> 1]

Symmetry == Permutations(Requests) \cup Permutations(Devices)
=============================================================================
