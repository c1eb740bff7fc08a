---------------------------- MODULE MCInterrupts ----------------------------
(***************************************************************************)
(* Save states for Interrupts: their vertical blank is masked or not, alone *)
(* or beside another interrupt, and STATUS lets it through or not.          *)
(***************************************************************************)
EXTENDS Interrupts

LOCAL SavedStatus(enabled, handling) ==
    [ie |-> enabled, exl |-> handling, erl |-> FALSE, im |-> Lines]

LOCAL Shown(pending, through) == IF pending \cap through = {} THEN {} ELSE {"IP3"}

MCSaved ==
    {[intr |-> i, mask |-> m, cause |-> Shown(i, m), sr |-> s] :
        i \in {{"VI"}, {"VI", "DP"}}, m \in {{"VI"}, {"DP"}},
        s \in {SavedStatus(TRUE, FALSE), SavedStatus(FALSE, FALSE), SavedStatus(TRUE, TRUE)}}
=============================================================================
