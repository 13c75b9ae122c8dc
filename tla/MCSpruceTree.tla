---- MODULE MCSpruceTree ----
(***************************************************************************)
(* Two threads on two sources of one middle block.  s1 has three edges, so *)
(* that its block grows and merges; s2 has one, so that it comes and goes. *)
(***************************************************************************)
EXTENDS SpruceTree, TLC

CONSTANTS t1, t2, s1, s2, d1, d2, d3

MCEdges == {<<s1, d1>>, <<s1, d3>>, <<s2, d1>>}
Plain(h) == [head |-> h, array |-> {}]
MCLoads == {(s1 :> Plain({}) @@ s2 :> Plain({})),
            (s1 :> Plain({d1, d2}) @@ s2 :> Plain({d1})),
            (s1 :> [head |-> {d3}, array |-> {d1}] @@ s2 :> Plain({}))}
====
