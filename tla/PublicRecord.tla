---------------------------- MODULE PublicRecord ----------------------------
(***************************************************************************)
(* What the publication of runs promises its readers: a record that only   *)
(* ever grows, one claim at a time, each claim about a run whose passport  *)
(* verifies and whose twin is refused, each backed by evidence of that     *)
(* very run.  A crash inside the one write that publishes loses the record *)
(* whole; it never changes or drops a single claim of it.                  *)
(***************************************************************************)
EXTENDS Naturals

CONSTANTS Provable,  \* the passports that verify and whose twin is refused
          Initial    \* the claims published before the first step

VARIABLES published, \* the claims a reader finds, each with its evidence
          lost       \* did a crash cut the record short?

\* Evidence about the run of passport p: it names p and the twin of p, and
\* reports that the twin was refused.
About(e, p) == e.passport = p /\ e.twin = p /\ e.twinRefused

Init == published = Initial /\ lost = FALSE

\* One new claim, numbered after every other, about a provable run.
Publish ==
  /\ ~ lost /\ ~ lost'
  /\ \E c \in published' :
       /\ published' = published \cup {c}
       /\ \A d \in published : d.id < c.id
       /\ c.passport \in Provable
       /\ About(c.evidence, c.passport)

Lose == lost' /\ published' = {}

Next == Publish \/ Lose

Spec == Init /\ [][Next]_<<published, lost>>
==============================================================================
