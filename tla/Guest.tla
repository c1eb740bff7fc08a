--------------------------------- MODULE Guest ---------------------------------
(***************************************************************************)
(* What a guest program may do, an op at a time: the control flow of the   *)
(* R4300 with its delay slots, interrupts, faults and returns from them.   *)
(* The interpreter and the recompiled fragments of Dynarec must follow it. *)
(*                                                                         *)
(* An address counts ops.  Whether a conditional branch is taken, where a  *)
(* jump through a register leads and which op is interrupted are choices,  *)
(* as are the values they depend on.                                       *)
(***************************************************************************)
EXTENDS Integers

CONSTANT Games          \* the programs: [code, vector, returns, reload, loop]

VARIABLES
    game,               \* the program that runs
    gpc, pending,       \* the next op, and where to after it if it is a slot
    gexl, gepc          \* in an exception handler, and where it returns to

gvars == <<game, gpc, pending, gexl, gepc>>

None == 0               \* no address

Straight == {"alu", "nop", "mem", "dma"}
Conditional == {"branch", "likely"}

Kind(a) == game.code[a].kind
Target(a) == game.code[a].to

Step ==
    /\ Kind(gpc) \in Straight
    /\ gpc' = IF pending = None THEN gpc + 1 ELSE pending
    /\ pending' = None
    /\ UNCHANGED <<game, gexl, gepc>>

\* A branch that is taken is pending while its delay slot runs.
Take(to) ==
    /\ pending = None /\ gpc' = gpc + 1 /\ pending' = to
    /\ UNCHANGED <<game, gexl, gepc>>

Branch == Kind(gpc) \in Conditional \cup {"jump"} /\ Take(Target(gpc))
JumpRegister == Kind(gpc) = "jr" /\ \E to \in game.returns : Take(to)

\* A likely branch that is not taken skips its delay slot.
FallThrough ==
    /\ Kind(gpc) \in Conditional /\ pending = None
    /\ gpc' = IF Kind(gpc) = "likely" THEN gpc + 2 ELSE gpc + 1
    /\ UNCHANGED <<game, pending, gexl, gepc>>

Return ==
    /\ Kind(gpc) = "eret" /\ pending = None
    /\ gpc' = gepc /\ gexl' = FALSE
    /\ UNCHANGED <<game, pending, gepc>>

\* An interrupt or a fault; a slot whose branch was taken is run again with it.
Interrupt ==
    /\ ~gexl /\ gexl' = TRUE
    /\ gpc' = game.vector /\ pending' = None
    /\ \/ pending = None /\ gepc' = gpc
       \/ pending # None /\ gepc' = gpc - 1
    /\ UNCHANGED game

Init ==
    /\ game \in Games
    /\ gpc = 1 /\ pending = None /\ gexl = FALSE /\ gepc = None

Next == Step \/ Branch \/ JumpRegister \/ FallThrough \/ Return \/ Interrupt

Spec == Init /\ [][Next]_gvars
================================================================================
