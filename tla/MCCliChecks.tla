----------------------------- MODULE MCCliChecks -----------------------------
(* CliChecks for TLC: region arguments of up to six characters over digits, *)
(* '.', '+' and '-', and prompt replies of up to three characters.          *)
EXTENDS CliChecks

MCChars == {"0", "1", ".", "+", "-"}

MCReplies == UNION {[1..n -> {"y", "Y", "e", "s", "n", " "}] : n \in 0..3}

MCSizes == {0, 4095, 4096, 40959, 40960}
=============================================================================
