----------------------------- MODULE MCReports -----------------------------
(* A server of two GPUs and two model directories, and what may become of it. *)
EXTENDS ReportSystem, TLC

CONSTANTS g1, g2, g3, d1, d2

Server(a, b) == [gpus |-> (0 :> a @@ 1 :> b), advertised |-> {d1, d2}, reachable |-> {d1, d2},
                 found |-> {d1}, default |-> d1]

Healthy == Server(g1, g2)
MCWorlds ==
  {Healthy,
   \* a GPU is lost and a directory not mounted
   [Server(g1, NoDevice) EXCEPT !.reachable = {d2}],
   \* the GPUs are renumbered and the model is removed
   [Server(g2, g1) EXCEPT !.found = {}],
   \* a GPU is replaced and they are renumbered
   Server(g2, g3),
   \* the settings name the other directory
   [Healthy EXCEPT !.advertised = {d2}, !.default = d2]}

MCFirstWorlds == {Healthy}
=============================================================================
