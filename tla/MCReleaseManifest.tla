------------------------- MODULE MCReleaseManifest -------------------------
(* Two commits over two listed files, one of which git never looks at, and *)
(* one that may be extra.                                                  *)
EXTENDS ReleaseManifest, TLC

MCTwo == <<"manifest", "verifier">>

\* c1 changes the verifier.
MCTree == [c \in Commits |-> [f \in Files |->
  IF f \in Extra THEN Absent ELSE IF f = "verifier" /\ c = "c1" THEN "v2" ELSE "v1"]]

\* Two builders are alike.
MCBuilders == Permutations(Builders)
=============================================================================
