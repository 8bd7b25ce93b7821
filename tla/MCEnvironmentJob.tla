---------------------------- MODULE MCEnvironmentJob ----------------------------
(* Small instances of EnvironmentJob for TLC. *)
EXTENDS EnvironmentJob
====
