------------------------------- MODULE MCSendPath ------------------------------
(***************************************************************************)
(* SendPath on small instances: one client that sends private messages,    *)
(* group messages, or both.                                                *)
(***************************************************************************)
EXTENDS SendPath, TLC

CONSTANTS a, b, c

PrivatePeers == { [kind |-> "private", to |-> <<b>>] }
GroupPeers   == { [kind |-> "group", to |-> <<b, c>>] }
MixedPeers   == { [kind |-> "private", to |-> <<b>>],
                  [kind |-> "group", to |-> <<b>>] }

(* Every message the clients can come to send. *)
SentMessages ==
    { [sender |-> u, no |-> n, time |-> t, kind |-> p.kind, rcpts |-> <<u>> \o p.to] :
        u \in Senders, n \in 1 .. MaxMsgs, t \in 1 .. MaxTime + 1, p \in Peers }

(* Three messages with one fault, two with two, and a tick instead of one. *)
Budget == client[a].sent + faults + clock <= 5

(* Handlers and savers are alike: the first one that nobody uses is taken. *)
Busy(w) == Awaited(w) \/ save[w].stage \in {"insert", "cache"}

FirstFree ==
    /\ \A h, g \in Handlers :
          g < h /\ call[h].stage = "free" /\ call'[h].stage # "free"
             => call[g].stage # "free"
    /\ \A w, v \in Savers : v < w /\ ~Busy(w) /\ Busy(w)' => Busy(v)

Symmetry == Permutations(Handlers) \union Permutations(Savers)
================================================================================
