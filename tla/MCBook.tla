------------------------------- MODULE MCBook -------------------------------
(***************************************************************************)
(* A small instance of Book: two clients, two advisors, and the keys of a  *)
(* folder marker, the two records and a copy of the first in a folder.      *)
(***************************************************************************)
EXTENDS Book

CONSTANTS c1, c2, a1, a2, r1

TwoClients == {c1, c2}
TwoAdvisors == {a1, a2}
OneRequest == {r1}
FirstAdvisor == [r \in Requests |-> a1]
KeyNames == <<NotJson, c1, c2, c1>>
RecordKeys == [i \in Clients |-> IF i = c1 THEN 2 ELSE 3]
=============================================================================
