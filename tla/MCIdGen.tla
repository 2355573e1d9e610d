-------------------------------- MODULE MCIdGen --------------------------------
(***************************************************************************)
(* IdGen on a small instance: users 1 and 3 share a bucket, user 2 has the *)
(* other one, a block holds two ids.                                       *)
(***************************************************************************)
EXTENDS IdGen

Item1(u, n) == [user |-> u, need |-> n]

(* One user, two users in different buckets or in the order of the other   *)
(* bucket first, a request that can cross the end of a block and one that  *)
(* is larger than a block.                                                 *)
MixedRequests ==
    { <<Item1(1, 1)>>,
      <<Item1(1, 1), Item1(2, 1)>>,
      <<Item1(2, 1), Item1(3, 2)>>,
      <<Item1(1, 2)>>,
      <<Item1(1, 3)>> }

(* What logic sends: one id for each user of the message. *)
LogicRequests == { <<Item1(1, 1)>>, <<Item1(1, 1), Item1(2, 1)>> }

================================================================================
