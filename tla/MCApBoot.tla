------------------------------ MODULE MCApBoot ------------------------------
(***************************************************************************)
(* ApBoot for TLC: answers of fw_cfg.                                      *)
(***************************************************************************)
EXTENDS ApBoot

\* At most one CPU is wanted besides the boot CPU.
MCOneAp == {<<0, 0>>, <<1, 1>>, <<1, 2>>, <<2, 2>>, <<2, 1>>, <<2, 3>>}

MCTwoAps == {<<3, 3>>}
=============================================================================
