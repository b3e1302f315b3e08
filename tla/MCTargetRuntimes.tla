-------------------------- MODULE MCTargetRuntimes --------------------------
(***************************************************************************)
(* Instances of TargetRuntimes for TLC.                                    *)
(***************************************************************************)
EXTENDS TargetRuntimes

Wants(scope, mode) == [scope |-> scope, mode |-> mode]

\* A writer, and a target that keeps its records and accepts others that do.
MCSpecs == {Wants({"a"}, "write"), Wants({"a", "b"}, "keep")}

\* Writers of one scope.
MCWriters == {Wants({"a"}, "write")}
=============================================================================
