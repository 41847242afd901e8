---------------------------- MODULE MCForwarding ----------------------------
(* Small instances of Forwarding. *)
EXTENDS Forwarding

\* In order, all but the last packet of a frame may be lost, the last of two
\* receivers adapts; or out of order, nothing lost and nobody adapts, while the
\* frame numbers wrap around; or in order, any packet may be lost, with one
\* receiver that adapts.
MCPaths ==
    {[receivers |-> 2, first |-> 0, frames |-> 3, lens |-> {1, 2, 3}, window |-> 1,
      loses |-> {"start", "inter"}, adaptive |-> {2}],
     [receivers |-> 2, first |-> FrameMod - 2, frames |-> 3, lens |-> {2, 3}, window |-> 2,
      loses |-> {}, adaptive |-> {}],
     [receivers |-> 1, first |-> 2, frames |-> 4, lens |-> {3}, window |-> 1,
      loses |-> {"start", "inter", "end"}, adaptive |-> {1}]}

\* Nothing lost, the first of two receivers adapts.
MCFirstAdapts ==
    {[receivers |-> 2, first |-> 2, frames |-> 4, lens |-> {1, 2}, window |-> 1,
      loses |-> {}, adaptive |-> {1}]}

=============================================================================
