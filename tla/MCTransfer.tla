------------------------------ MODULE MCTransfer ------------------------------
(* Transfer for TLC: every constant is given by the cfg.                        *)
EXTENDS Transfer
===============================================================================
