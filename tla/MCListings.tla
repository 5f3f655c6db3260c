---- MODULE MCListings ----
(***************************************************************************)
(* Listings with two users, events and hackathons: each table has a row of *)
(* each user in the first hackathon and one in the second, so that pages,   *)
(* hackathons and persons tell the results of two queries apart.           *)
(***************************************************************************)
EXTENDS Listings

CONSTANTS u1, u2, e1, e2

RowOf(i, u, e, h) == [id |-> i, user |-> u, event |-> e, hackathon |-> h, with |-> <<>>]
SmallTable ==
  <<RowOf(1, u1, e1, First), RowOf(2, u2, e1, First), RowOf(3, u1, e2, First),
    RowOf(4, u1, e2, Second)>>
SmallTables ==
  [t \in Tables |-> CASE t \in {"rsvps", "preregistrations"} -> SubSeq(SmallTable, 1, 2)
                      [] t = "registrations" -> <<SmallTable[1], SmallTable[2], SmallTable[4]>>
                      [] OTHER -> SmallTable]

Plain == [limit |-> None, offset |-> None, hackathon |-> None, all |-> FALSE, who |-> None,
          ignoreCache |-> FALSE]
\* Two of the pages have numbers with the same digits in a row: 1, 11 and 11, 1.
SmallQueries ==
  {Plain,
   [Plain EXCEPT !.limit = 1, !.who = e1],
   [Plain EXCEPT !.limit = 1, !.offset = 11],
   [Plain EXCEPT !.limit = 11, !.offset = 1, !.who = u1, !.ignoreCache = TRUE],
   [Plain EXCEPT !.hackathon = Second, !.who = 3],
   [Plain EXCEPT !.all = TRUE, !.limit = 2, !.who = u1],
   [Plain EXCEPT !.offset = 1, !.who = e1, !.ignoreCache = TRUE],
   [Plain EXCEPT !.limit = 0]}

SmallInserted == {<<u1, e1>>}

Symmetry == Permutations(Requests)
====
