--------------------------- MODULE MCBrowserDemo ---------------------------
(***************************************************************************)
(* Instances of BrowserDemo: two published runs of three and two bytes, an *)
(* empty file, and a verifier that one flip of the first run gets past.    *)
(***************************************************************************)
EXTENDS BrowserDemo

File(o, f) == [origin |-> o, flips |-> f]

MCOrigins == {"run1", "run2", "empty"}
MCLength == [o \in MCOrigins |-> CASE o = "run1" -> 3 [] o = "run2" -> 2 [] OTHER -> 0]
MCPassing == {File("run1", {}), File("run2", {}), File("run1", {0})}
MCPublished ==
  << [passport |-> File("run1", {}), tampered |-> File("run1", {1})],
     [passport |-> File("run2", {}), tampered |-> File("run2", {1})] >>

\* The other files of the checkout, a truncated one among them.
MCReplacements ==
  {File("run1", {}), File("run1", {1}), File("empty", {})}
MCLoadsOrNot == BOOLEAN
MCActivations == 1 .. 2
=============================================================================
