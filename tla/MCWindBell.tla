----------------------------- MODULE MCWindBell -----------------------------
(* Three vertices on a two by two matrix.  Vertex 1 has both row hashes    *)
(* and both column hashes equal, so its edge to itself has one cell only,  *)
(* and the others two or four.  The edges form one triangle, with a        *)
(* second way through vertex 1.                                            *)
EXTENDS WindBell, TLC

CONSTANTS n1, n2, n3, n4

Addresses == Permutations(Node)
MCEdge == {<<1, 1>>, <<1, 2>>, <<2, 3>>, <<3, 1>>, <<2, 1>>}
MCRowOf == <<<<1, 1>>, <<1, 2>>, <<2, 1>>>>
MCColOf == <<<<1, 1>>, <<2, 1>>, <<1, 2>>>>
=============================================================================
