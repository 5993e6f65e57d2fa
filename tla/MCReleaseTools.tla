--------------------------- MODULE MCReleaseTools ----------------------------
(* A small repository for the release scripts. *)
EXTENDS ReleaseTools

GivenNumbers == << 3, 4, 1 >>

\* Number 2 was merged when the file was written, 4 does not match --base.
DataFile == << [number |-> 1, state |-> "open", matches |-> TRUE],
               [number |-> 2, state |-> "merged", matches |-> TRUE],
               [number |-> 3, state |-> "open", matches |-> TRUE],
               [number |-> 4, state |-> "open", matches |-> FALSE],
               [number |-> 2, state |-> "open", matches |-> TRUE] >>

\* Two titles of DEFAULT_ISSUES, and one that no rule matches.
SomeTitles == << {1}, {5, 6}, {} >>

AllLabels == << "AI/ML", "Observability", "Security", "Scalability", "UX" >>
=============================================================================
