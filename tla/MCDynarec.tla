------------------------------ MODULE MCDynarec ------------------------------
(***************************************************************************)
(* Small guest programs for Dynarec, one for each way in which code and    *)
(* its recorded copy can come apart.                                       *)
(***************************************************************************)
EXTENDS Dynarec

LOCAL Ops(kind, to) == [kind |-> kind, to |-> to]
Alu == Ops("alu", 0)
Nop == Ops("nop", 0)
Mem == Ops("mem", 0)
Dma == Ops("dma", 0)
Eret == Ops("eret", 0)
Jr == Ops("jr", 0)
Branch(to) == Ops("branch", to)
Likely(to) == Ops("likely", to)
Jump(to) == Ops("jump", to)

\* A forward branch inside a loop, whose slot loads code of the loop that lies on
\* another page than its first op.
Loop ==
    [code |-> <<Alu, Branch(4), Dma, Mem, Jump(2), Nop, Eret>>,
     vector |-> 7, returns |-> {2}, reload |-> [from |-> 5, len |-> 1], loop |-> TRUE]

\* A likely branch backwards whose slot is also the target of a branch.
LikelyLoop ==
    [code |-> <<Alu, Alu, Likely(2), Mem, Branch(4), Alu, Jump(2), Nop, Eret>>,
     vector |-> 9, returns |-> {2}, reload |-> [from |-> 2, len |-> 1], loop |-> FALSE]

\* A jump through a register, and a load over code that a trace has followed
\* beyond the pages it covers.
Subroutine ==
    [code |-> <<Alu, Jump(6), Nop, Jr, Dma, Mem, Jump(4), Alu, Eret>>,
     vector |-> 9, returns |-> {2, 4}, reload |-> [from |-> 8, len |-> 1], loop |-> FALSE]

\* A handler that loops, and returns from a fragment.
Polling ==
    [code |-> <<Alu, Mem, Branch(2), Alu, Jump(2), Nop, Branch(7), Nop, Eret>>,
     vector |-> 7, returns |-> {2}, reload |-> [from |-> 2, len |-> 1], loop |-> TRUE]

\* Code that loads over itself.
Overlay ==
    [code |-> <<Alu, Dma, Alu, Likely(2), Alu, Jr, Nop, Eret>>,
     vector |-> 8, returns |-> {2, 3}, reload |-> [from |-> 2, len |-> 3], loop |-> TRUE]

MCGames == {Loop, LikelyLoop, Subroutine, Polling, Overlay}
==============================================================================
