--------------------------------- MODULE MCPush --------------------------------
(* Instances of Push for TLC. *)
EXTENDS Push, TLC

CONSTANTS a, b, m1, m2, s1, s2

(* A group message to a and b, whose places and ids differ, and a private *)
(* one to b.                                                              *)
TwoPeers == (m1 :> <<a, b>>) @@ (m2 :> <<b>>)
MixedIds == (m1 :> <<1, 2>>) @@ (m2 :> <<3>>)

(* Two private messages to b. *)
OnlyB   == (m1 :> <<b>>) @@ (m2 :> <<b>>)
IdsOfB  == (m1 :> <<1>>) @@ (m2 :> <<2>>)

(* The servers differ only by their clients, so that the first to start may *)
(* take s1; a stays there, and m1 is saved first.                           *)
FirstAtS1 == /\ starts = 1 => client[b].server # s2
             /\ client[a].server # s2
             /\ task[m1].stage = "new" => task[m2].stage = "new"
================================================================================
