-------------------------- MODULE MCBoundaryProbe --------------------------
(* Records and machines for BoundaryProbe.                                 *)
EXTENDS BoundaryProbe

Recorded(handled) == [literals |-> TRUE, handled |-> handled,
                      allowed |-> {"write_file"}, scratch |-> {"write_file"}]

Published == {"write_file", "make_reg", "make_dir", "make_sym", "remove_file",
              "remove_dir"}

\* The published record, records that handle less of it, one that handles a right
\* of later kernels, and records that load_boundary refuses.
MCHandling == {Recorded(Published), Recorded(Published \ {"make_dir"}),
               Recorded(Published \ {"make_sym"}), Recorded(Published \ {"remove_file"}),
               Recorded(Published \ {"remove_file", "remove_dir"}),
               Recorded(Published \cup {"truncate"}), Recorded({"write_file"})}
MCRefused == {[Recorded(Published) EXCEPT !.literals = FALSE],
              Recorded(Published \ {"write_file"}), Recorded(Published \cup {"unknown"}),
              [Recorded(Published) EXCEPT !.allowed = {"write_file", "make_reg"}],
              [Recorded({"write_file"}) EXCEPT !.scratch = {"write_file", "make_reg"}]}
MCPassports == MCHandling \cup MCRefused \cup {Recorded(Published \ {"make_reg"})}

Modern == [linux |-> TRUE, machine |-> TRUE, abi |-> "some", rights |-> Right, room |-> TRUE]
MCHosts == {Modern, [Modern EXCEPT !.rights = Published], [Modern EXCEPT !.room = FALSE],
            [Modern EXCEPT !.abi = "absent"], [Modern EXCEPT !.abi = "refused"],
            [Modern EXCEPT !.machine = FALSE], [Modern EXCEPT !.linux = FALSE]}
=============================================================================
