------------------------------- MODULE MCRoutePage -------------------------------
(* Small instances of RoutePage for TLC. *)
EXTENDS RoutePage
====
