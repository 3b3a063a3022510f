----------------------------- MODULE MCConsole -----------------------------
(***************************************************************************)
(* The texts written, and the cells changed behind old_screen, in the      *)
(* checked instance of Console; processes are only compared.               *)
(***************************************************************************)
EXTENDS Console, TLC

Texts == {<<"a">>, <<"LF">>, <<"BS">>, <<"a", "CR", "a">>}

\* One in the last line, which screen_scroll rewrites.
BypassedCells == {2 * SCREEN_WIDTH}

Symmetric == Permutations(Proc)
=============================================================================
