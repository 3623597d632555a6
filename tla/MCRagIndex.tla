----------------------------- MODULE MCRagIndex -----------------------------
EXTENDS RagIndex
CONSTANTS r1, r2
\* The second file of r2 has an oversized definition until it is changed.
MCUnchunkable == {<<r2, 2, 1>>}
\* Pushes bring either repository to the front; begin with one order.
MCInit == Init /\ recent = <<r1, r2>>
\* Bounds: the teardown comes before r2 is pushed to, and pushes to r1 change its
\* first file.
MCNext ==
  /\ Next
  /\ torn' = "no" \/ \A r \in Repo \ {r1} : head[r] = 1
  /\ \A f \in File \ {1} : rev'[r1][f] = 1
MCSpec == MCInit /\ [][MCNext]_vars /\ Fairness
=============================================================================
