---------------------------- MODULE MCPublication ----------------------------
(***************************************************************************)
(* Small trees for TLC: two run numbers, a passport that publishes, one    *)
(* whose twin the verifier does not refuse and one that does not verify,   *)
(* and a corpus that was edited once.                                      *)
(***************************************************************************)
EXTENDS Publication, TLC

\* Three cases, two of which provoke one reason.
MCProvokes ==
  [c \in {"case1", "case2", "case3"} |-> IF c = "case1" THEN "block_a" ELSE "block_b"]

\* The corpus, the corpus with a case put in front of the others, which moves
\* each of them to the next file, and with two cases of one reason swapped,
\* which the survey of reasons cannot tell from the version before.
MCSuite ==
  [v \in {"v1", "v2", "v3"} |->
     CASE v = "v1" -> <<"case1", "case2">>
       [] v = "v2" -> <<"case3", "case1", "case2">>
       [] v = "v3" -> <<"case2", "case1", "case3">>]

\* A corpus of one case that nobody edits.
MCFixedProvokes == [c \in {"case1"} |-> "block_a"]
MCFixedSuite == [v \in {"v1"} |-> <<"case1">>]

\* No corpus at all: every reason is out of its reach.
MCNoProvokes == [c \in {} |-> "block_a"]
MCNoSuite == [v \in {"v1"} |-> <<>>]

\* Two publishers are alike, and so are two runs.
MCPublishers == Permutations(Publishers) \cup Permutations(Runs)
==============================================================================
