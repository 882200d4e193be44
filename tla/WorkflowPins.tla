---------------------------- MODULE WorkflowPins ----------------------------
(***************************************************************************)
(* tools/validate_public_record.py, the scan of a workflow file: which of  *)
(* its lines are structure and which the text of a block scalar, which     *)
(* lines pin an Action to a commit, and which commit-shaped values are     *)
(* therefore not refused.  It reads line by line and knows no YAML; beside *)
(* it runs what YAML says of the same lines.  RecordGate composes this     *)
(* module: the gate opens a workflow and reads it before all other files.  *)
(*                                                                         *)
(* A line: its indent; dash, whether a sequence item begins in it; kind,   *)
(* what it is to YAML where it is structure: "block" (a key whose value is *)
(* a scalar that goes on over the next lines), "item" (such a scalar with  *)
(* no key), "uses" (an entry that names an Action), "other" or "blank";    *)
(* plain, whether it is written the one way the scan's patterns look for,  *)
(* `uses: a` and `key: |`, and not `{uses: a}`, `"uses": a`, `uses : a`,   *)
(* `key: |2-` or a quoted scalar left open; for "uses", the ref ("commit", *)
(* "loose", "local" or "unreadable"); and strays, the number of            *)
(* commit-shaped values besides the ref.                                   *)
(***************************************************************************)
EXTENDS Integers, Sequences

VARIABLES text,    \* the workflow opened
          number,  \* lines read
          block,   \* block_indent, or None
          pins,    \* workflow_action_pins: the lines that pin an Action
          refused, \* the lines with a violation
          scalar,  \* YAML: column of the parent of the scalar begun, or None
          structure  \* YAML: the lines that are no text of a scalar begun before

vars == <<text, number, block, pins, refused, scalar, structure>>

None == -1  \* no indent

Init ==
  /\ text = <<>> /\ number = 0 /\ block = None /\ scalar = None
  /\ pins = {} /\ refused = {} /\ structure = {}

\* A workflow is opened, the only one the gate reads.
Open(workflow) ==
  /\ text' = workflow
  /\ UNCHANGED <<number, block, pins, refused, scalar, structure>>

\* The next line.
Line == text[number + 1]

\* Fault: a blank line ends a block.
InBlockUnlessBlank(l) == block # None /\ l.kind # "blank" /\ l.indent > block

\* workflow_structure_lines drops the line as text of the block.
InBlock(l) == block # None /\ (l.kind = "blank" \/ l.indent > block)

\* ACTION_USES_KEY_RE and BLOCK_SCALAR_LINE_RE: what the scan makes of a line.
MatchesUses(l) == l.kind = "uses" /\ l.plain
MatchesBlock(l) == l.kind = "block" /\ l.plain

\* Fault: a line may carry a second commit.
PinsLoosely(l) == MatchesUses(l) /\ l.ref = "commit"

\* workflow_action_pins
Pins(l) == MatchesUses(l) /\ l.ref = "commit" /\ l.strays = 0

\* An Action that is not pinned to a commit, however it is written.
Loose(l) == l.kind = "uses" /\ l.ref \in {"loose", "unreadable"}

\* workflow_pin_violations
Violates(l) == MatchesUses(l) /\ Loose(l)

\* disclosure_violation: every commit-shaped value must be the pin of its line.
Commits(l) == l.strays + IF l.kind = "uses" /\ l.ref = "commit" THEN 1 ELSE 0
Discloses(l, pinned) == Commits(l) > 0 /\ ~pinned

\* YAML: the text of such a scalar is indented more than the mapping or the sequence
\* it is a value of; a mapping begun after a dash is two columns to the right of it.
Column(l) == l.indent + IF l.dash /\ l.kind # "item" THEN 2 ELSE 0
Begins(l) == l.kind \in {"block", "item"}
InScalar(l) == scalar # None /\ (l.kind = "blank" \/ l.indent > scalar)

Read ==
  /\ number < Len(text)
  /\ number' = number + 1
  /\ LET pinned == ~InBlock(Line) /\ Pins(Line)
     IN /\ pins' = IF pinned THEN pins \cup {number'} ELSE pins
        /\ refused' = IF (~InBlock(Line) /\ Violates(Line)) \/ Discloses(Line, pinned)
                      THEN refused \cup {number'} ELSE refused
  /\ block' = IF InBlock(Line) THEN block
              ELSE IF MatchesBlock(Line) THEN Line.indent ELSE None
  /\ scalar' = IF InScalar(Line) THEN scalar
               ELSE IF Begins(Line) THEN Column(Line) ELSE None
  /\ structure' = IF InScalar(Line) THEN structure ELSE structure \cup {number'}
  /\ UNCHANGED text

\* Where the scan and YAML part.  A scalar the scan does not see begin: its text is
\* structure to the scan.  A key with a block scalar after a dash: to the scan the lines
\* in the column of the key are text.  An Action not written as `uses: a`: to the scan it
\* is none.
Overlooked(l) == l.kind = "item" \/ (l.kind = "block" /\ ~l.plain)
Overreaches(l) == MatchesBlock(l) /\ l.dash
OtherForm(l) == l.kind = "uses" /\ ~l.plain

\* Line k may be text of an overlooked scalar, or lie in the reach of a key after a dash.
MayBeText(k) == \E j \in 1..(k - 1) : Overlooked(text[j]) /\ text[k].indent > Column(text[j])
MayBeSkipped(k) == \E j \in 1..(k - 1) : Overreaches(text[j]) /\ text[k].indent > text[j].indent

\* No line read so far makes them part.
Seen == {text[k] : k \in 1..number}
Unread == \E l \in Seen : Overlooked(l) \/ Overreaches(l) \/ OtherForm(l)
=============================================================================
