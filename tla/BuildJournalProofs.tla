------------------------- MODULE BuildJournalProofs -------------------------
(***************************************************************************)
(* The supersession search of BuildJournal, for every set of journals,     *)
(* every recursion limit and every size: what is accepted has no cycle,    *)
(* what is refused for a cycle has one.  How many calls and steps that     *)
(* takes, and what an accepted journal says of its pages and sources.      *)
(***************************************************************************)
EXTENDS BuildJournal, FiniteSetTheorems, TLAPS

\* The journal is one of the candidates, the state is typed, the search in order.
Inv == journal \in Journals /\ TypeOK /\ SearchInv

LEMMA Shape ==
  ASSUME journal \in Journals
  PROVE  /\ Len(Entries) \in Nat /\ DOMAIN Entries = 1..Len(Entries)
         /\ \A i \in DOMAIN Entries : Entries[i].id \in Ids
         /\ \A id \in Ids : Targets(id) \in Seq(STRING)
<1>1. Len(Entries) \in Nat /\ DOMAIN Entries = 1..Len(Entries)
  BY JournalAssumption DEF Entries
<1>2. \A id \in Ids : Targets(id) \in Seq(STRING)
  <2> TAKE id \in Ids
  <2>1. \E i \in DOMAIN Entries : Entries[i].id = id
    BY DEF Ids
  <2>2. PICK i \in DOMAIN Entries : EntryOf(id) = Entries[i]
    BY <2>1 DEF EntryOf
  <2> QED
    BY <2>2, JournalAssumption DEF Targets, Entries
<1> QED
  BY <1>1, <1>2 DEF Ids

-----------------------------------------------------------------------------
(* Frames.                                                                 *)

\* The frames after the top one has taken its next target.
Advanced == Append(Below, [Top EXCEPT !.next = @ + 1])

LEMMA BelowIsPrefix ==
  ASSUME stack \in Seq(Frames), stack # <<>>
  PROVE  /\ Below \in Seq(Frames) /\ Len(Below) = Len(stack) - 1
         /\ \A k \in 1..(Len(stack) - 1) : Below[k] = stack[k]
         /\ Top \in Frames /\ Len(stack) \in Nat \ {0}
<1>1. Len(stack) \in Nat \ {0} /\ DOMAIN stack = 1..Len(stack)
  OBVIOUS
<1>2. Top \in Frames
  BY <1>1 DEF Top
<1>3. /\ SubSeq(stack, 1, Len(stack) - 1) \in Seq(Frames)
      /\ Len(SubSeq(stack, 1, Len(stack) - 1)) = Len(stack) - 1
      /\ \A k \in 1..(Len(stack) - 1) : SubSeq(stack, 1, Len(stack) - 1)[k] = stack[k]
  BY <1>1
<1> QED
  BY <1>1, <1>2, <1>3 DEF Below

LEMMA AdvancedFrames ==
  ASSUME stack \in Seq(Frames), stack # <<>>
  PROVE  /\ Advanced \in Seq(Frames) /\ Len(Advanced) = Len(stack)
         /\ \A k \in 1..(Len(stack) - 1) : Advanced[k] = stack[k]
         /\ Advanced[Len(stack)].id = Top.id
         /\ Advanced[Len(stack)].next = Top.next + 1
<1>1. Top \in Frames /\ Len(stack) \in Nat \ {0}
  BY BelowIsPrefix
<1> DEFINE f == [Top EXCEPT !.next = @ + 1]
<1>2. f \in Frames /\ f.id = Top.id /\ f.next = Top.next + 1
  BY <1>1 DEF Frames
<1> HIDE DEF f
<1>3. Append(Below, f) \in Seq(Frames) /\ Len(Append(Below, f)) = Len(stack)
      /\ (\A k \in 1..(Len(stack) - 1) : Append(Below, f)[k] = stack[k])
      /\ Append(Below, f)[Len(stack)] = f
  BY <1>1, <1>2, BelowIsPrefix
<1> QED
  BY <1>2, <1>3 DEF Advanced, f

LEMMA PushedFrames ==
  ASSUME NEW frames \in Seq(Frames), NEW id \in Ids
  PROVE  LET pushed == Append(frames, [id |-> id, next |-> 1])
         IN /\ pushed \in Seq(Frames) /\ Len(pushed) = Len(frames) + 1
            /\ \A k \in 1..Len(frames) : pushed[k] = frames[k]
            /\ pushed[Len(frames) + 1].id = id /\ pushed[Len(frames) + 1].next = 1
<1>1. [id |-> id, next |-> 1] \in Frames
  BY DEF Frames
<1> QED
  BY <1>1

-----------------------------------------------------------------------------
(* Cycles.                                                                 *)

\* A target of the top frame that is being visited closes a cycle.
LEMMA TopCloses ==
  ASSUME Path, stack \in Seq(Frames), stack # <<>>,
         Top.next \in DOMAIN Targets(Top.id), Targets(Top.id)[Top.next] \in visiting
  PROVE  ~Acyclic
<1> DEFINE n == Len(stack)
<1>0. n \in Nat \ {0} /\ DOMAIN stack = 1..n /\ Top = stack[n]
  BY DEF Top
<1>1. PICK m \in 1..n : stack[m].id = Targets(Top.id)[Top.next]
  BY <1>0 DEF Path
<1> HIDE DEF n
<1>r. m \in Nat /\ n \in m..n /\ m..n \subseteq 1..n
  BY <1>0, <1>1
<1> DEFINE S == {stack[k].id : k \in m..n}
<1>2. S \in (SUBSET Ids) \ {{}}
  <2>1. \A k \in m..n : stack[k].id \in Ids
    <3>1. \A k \in 1..n : stack[k] \in Frames
      BY <1>0
    <3> QED
      BY <3>1, <1>r DEF Frames
  <2>2. stack[m].id \in S
    BY <1>r
  <2> QED
    BY <2>1, <2>2
<1>3. ASSUME NEW x \in S PROVE Successors(x) \cap S # {}
  <2>1. PICK k \in m..n : x = stack[k].id
    BY <1>3
  <2>2. CASE k = n
    <3>1. stack[m].id \in Successors(x)
      BY <1>0, <1>1, <2>1, <2>2 DEF Successors
    <3> QED
      BY <3>1, <1>r
  <2>3. CASE k # n
    <3>1. k \in DOMAIN stack /\ k + 1 \in DOMAIN stack /\ k + 1 \in m..n
      BY <1>0, <1>r, <2>1, <2>3
    <3>2. stack[k + 1].id \in Successors(x)
      BY <2>1, <3>1 DEF Path, Successors
    <3> QED
      BY <3>1, <3>2
  <2> QED
    BY <2>2, <2>3
<1> HIDE DEF S
<1>4. ~HasSink(S)
  BY <1>3 DEF HasSink
<1> QED
  BY <1>2, <1>4 DEF Acyclic

\* Leaving an entry whose targets have all been left closes no cycle.
LEMMA LeavingClosesNothing ==
  ASSUME NEW V \in SUBSET Ids, NEW x \in Ids, x \notin V,
         Successors(x) \subseteq V,
         \A id \in V : Successors(id) \subseteq V,
         \A S \in (SUBSET V) \ {{}} : HasSink(S)
  PROVE  \A S \in (SUBSET (V \cup {x})) \ {{}} : HasSink(S)
<1> TAKE S \in (SUBSET (V \cup {x})) \ {{}}
<1>1. CASE S \cap V = {}
  <2>1. S = {x}
    BY <1>1
  <2> QED
    BY <2>1 DEF HasSink
<1>2. CASE S \cap V # {}
  <2>1. PICK y \in S \cap V : Successors(y) \cap (S \cap V) = {}
    BY <1>2 DEF HasSink
  <2> QED
    BY <2>1 DEF HasSink
<1> QED
  BY <1>1, <1>2

-----------------------------------------------------------------------------
(* A call of walk.                                                         *)

\* walk(id) is called above the frames given, within the walk of root number r.
Calling(id, frames, r) ==
  /\ visiting = {frames[k].id : k \in DOMAIN frames}
  /\ \A k, l \in DOMAIN frames : frames[k].id = frames[l].id => k = l
  /\ \A k \in DOMAIN frames :
       /\ frames[k].next - 1 \in DOMAIN Targets(frames[k].id)
       /\ Targets(frames[k].id)[frames[k].next - 1]
            = IF k = Len(frames) THEN id ELSE frames[k + 1].id
       /\ \A n \in DOMAIN Targets(frames[k].id) :
            n < frames[k].next - 1 => Targets(frames[k].id)[n] \in visited
  /\ r \in 1..Len(Entries)
  /\ Entries[r].id = IF frames = <<>> THEN id ELSE frames[1].id
  /\ \A i \in 1..(r - 1) : Entries[i].id \in visited

\* The invariant of the search, of frames, sets and a root not yet those of the state.
PathOf(frames, entered) ==
  /\ entered = {frames[k].id : k \in DOMAIN frames}
  /\ \A k, l \in DOMAIN frames : frames[k].id = frames[l].id => k = l
  /\ \A k \in DOMAIN frames : k + 1 \in DOMAIN frames =>
       /\ frames[k].next - 1 \in DOMAIN Targets(frames[k].id)
       /\ Targets(frames[k].id)[frames[k].next - 1] = frames[k + 1].id
BehindOf(frames, entered, left) ==
  /\ entered \cap left = {}
  /\ \A k \in DOMAIN frames : \A n \in DOMAIN Targets(frames[k].id) :
       n < frames[k].next =>
         \/ Targets(frames[k].id)[n] \in left
         \/ k + 1 \in DOMAIN frames /\ n = frames[k].next - 1
  /\ \A id \in left : Successors(id) \subseteq left
  /\ \A S \in (SUBSET left) \ {{}} : HasSink(S)
CoveredOf(frames, left, r) ==
  /\ frames # <<>> => r # 0 /\ frames[1].id = Entries[r].id
  /\ \A i \in 1..r : Entries[i].id \in left \/ (i = r /\ frames # <<>>)

LEMMA SameJournal ==
  ASSUME journal' = journal
  PROVE  /\ Entries' = Entries /\ Ids' = Ids /\ Frames' = Frames
         /\ (\A id \in Ids : Successors(id) \subseteq Ids)' = (\A id \in Ids : Successors(id) \subseteq Ids)
         /\ Path' = PathOf(stack', visiting')
         /\ Behind' = BehindOf(stack', visiting', visited')
         /\ Covered' = CoveredOf(stack', visited', root')
         /\ Acyclic' = Acyclic
<1>1. Entries' = Entries /\ Ids' = Ids /\ Frames' = Frames
  BY DEF Entries, Ids, Frames
<1>2. (\A id \in Ids : Successors(id) \subseteq Ids)' = (\A id \in Ids : Successors(id) \subseteq Ids)
  BY DEF Successors, Targets, EntryOf, Entries, Ids
<1>3. Path' = PathOf(stack', visiting')
  BY DEF Path, PathOf, Targets, EntryOf, Entries
<1>4. Behind' = BehindOf(stack', visiting', visited')
  BY DEF Behind, BehindOf, HasSink, Successors, Targets, EntryOf, Entries
<1>5. Covered' = CoveredOf(stack', visited', root')
  BY DEF Covered, CoveredOf, Entries
<1>6. Acyclic' = Acyclic
  BY DEF Acyclic, HasSink, Successors, Targets, EntryOf, Entries, Ids
<1> QED
  BY <1>1, <1>2, <1>3, <1>4, <1>5, <1>6

\* A call keeps the order of the search and ends it only with a true verdict.
LEMMA CallKeepsSearch ==
  ASSUME journal \in Journals, TypeOK, SearchInv, stage = "search", Behind,
         \A i \in Ids : Successors(i) \subseteq Ids,
         NEW id \in Ids, NEW frames \in Seq(Frames), NEW r, root' = r,
         Calling(id, frames, r), id \in visiting => ~Acyclic,
         Walk(id, frames), UNCHANGED <<journal, visited, network>>
  PROVE  TypeOK' /\ SearchInv'
\* A target below a frame is left, or it is the one called above the frame.
<1>0. \A k \in DOMAIN frames : \A n \in DOMAIN Targets(frames[k].id) :
        n < frames[k].next =>
          \/ Targets(frames[k].id)[n] \in visited
          \/ n = frames[k].next - 1 /\ k + 1 \in DOMAIN frames
          \/ n = frames[k].next - 1 /\ k = Len(frames) /\ Targets(frames[k].id)[n] = id
  <2> TAKE k \in DOMAIN frames
  <2> TAKE n \in DOMAIN Targets(frames[k].id)
  <2> HAVE n < frames[k].next
  <2>1. frames[k].id \in Ids /\ frames[k].next \in Nat \ {0}
    <3>1. frames[k] \in Frames
      OBVIOUS
    <3> QED
      BY <3>1 DEF Frames
  <2>2. n \in Nat
    BY <2>1, Shape
  <2>3. CASE n < frames[k].next - 1
    BY <2>3 DEF Calling
  <2>4. CASE n = frames[k].next - 1
    BY <2>4 DEF Calling
  <2> QED
    BY <2>1, <2>2, <2>3, <2>4
<1>1. CASE Len(frames) >= Depth /\ End("traceback") /\ stack' = frames /\ visiting' = visiting
  <2>1. TypeOK'
    BY <1>1, SameJournal DEF TypeOK, End, Walk, Calling, Stages, Outcomes, network
  <2>2. SearchInv'
    BY <1>1, SameJournal DEF SearchInv, End, NoCycleAccepted, CycleIsReal
  <2> QED
    BY <2>1, <2>2
<1>2. CASE id \in visiting /\ End("cycle") /\ stack' = frames /\ visiting' = visiting
  <2>1. TypeOK'
    BY <1>2, SameJournal DEF TypeOK, End, Walk, Calling, Stages, Outcomes, network
  <2>2. SearchInv'
    BY <1>2, SameJournal DEF SearchInv, End, NoCycleAccepted, CycleIsReal
  <2> QED
    BY <2>1, <2>2
<1>3. CASE id \in visited /\ id \notin visiting /\ stack' = frames
           /\ UNCHANGED <<visiting, stage, outcome>>
  <2>1. PathOf(frames, visiting)
    BY DEF PathOf, Calling, Frames
  <2>2. BehindOf(frames, visiting, visited)
    <3>1. \A k \in DOMAIN frames : \A n \in DOMAIN Targets(frames[k].id) :
            n < frames[k].next =>
              \/ Targets(frames[k].id)[n] \in visited
              \/ k + 1 \in DOMAIN frames /\ n = frames[k].next - 1
      BY <1>0, <1>3
    <3> QED
      BY <3>1 DEF Behind, BehindOf
  <2>3. CoveredOf(frames, visited, r)
    BY <1>3 DEF CoveredOf, Calling
  <2>4. TypeOK'
    BY <1>3, SameJournal DEF TypeOK, Walk, Calling, network
  <2>5. SearchInv'
    BY <1>3, <2>1, <2>2, <2>3, SameJournal DEF SearchInv, NoCycleAccepted, CycleIsReal
  <2> QED
    BY <2>4, <2>5
<1> DEFINE pushed == Append(frames, [id |-> id, next |-> 1])
<1>4. CASE id \notin visited /\ id \notin visiting /\ stack' = pushed
           /\ visiting' = visiting \cup {id} /\ UNCHANGED <<stage, outcome>>
  <2>0. /\ pushed \in Seq(Frames) /\ Len(pushed) = Len(frames) + 1
        /\ DOMAIN pushed = 1..(Len(frames) + 1) /\ DOMAIN frames = 1..Len(frames)
        /\ Len(frames) \in Nat /\ \A k \in 1..Len(frames) : pushed[k] = frames[k]
        /\ pushed[Len(frames) + 1].id = id /\ pushed[Len(frames) + 1].next = 1
    BY PushedFrames
  <2> HIDE DEF pushed
  <2>1. PathOf(pushed, visiting \cup {id})
    <3>1. visiting \cup {id} = {pushed[k].id : k \in DOMAIN pushed}
      <4>1. DOMAIN pushed = DOMAIN frames \cup {Len(frames) + 1}
        BY <2>0
      <4> QED
        BY <2>0, <4>1, SMTT(30) DEF Calling
    <3>2. \A k \in 1..Len(frames) : pushed[k].id # id
      BY <1>4, <2>0 DEF Calling
    <3>3. ASSUME NEW k \in DOMAIN pushed, NEW l \in DOMAIN pushed, pushed[k].id = pushed[l].id
          PROVE  k = l
      <4>1. CASE k \in 1..Len(frames) /\ l \in 1..Len(frames)
        BY <2>0, <3>3, <4>1 DEF Calling
      <4>2. CASE k = Len(frames) + 1 \/ l = Len(frames) + 1
        BY <2>0, <3>2, <3>3, <4>2
      <4> QED
        BY <2>0, <4>1, <4>2
    <3>4. ASSUME NEW k \in DOMAIN pushed, k + 1 \in DOMAIN pushed
          PROVE  /\ pushed[k].next - 1 \in DOMAIN Targets(pushed[k].id)
                 /\ Targets(pushed[k].id)[pushed[k].next - 1] = pushed[k + 1].id
      <4>1. k \in DOMAIN frames /\ pushed[k] = frames[k]
        BY <2>0, <3>4
      <4>2. pushed[k + 1].id = IF k = Len(frames) THEN id ELSE frames[k + 1].id
        BY <2>0, <3>4
      <4> QED
        BY <4>1, <4>2 DEF Calling
    <3> QED
      BY <3>1, <3>3, <3>4 DEF PathOf
  <2>2. BehindOf(pushed, visiting \cup {id}, visited)
    <3>1. ASSUME NEW k \in DOMAIN pushed, NEW n \in DOMAIN Targets(pushed[k].id),
                 n < pushed[k].next
          PROVE  \/ Targets(pushed[k].id)[n] \in visited
                 \/ k + 1 \in DOMAIN pushed /\ n = pushed[k].next - 1
      <4>1. CASE k \in DOMAIN frames
        BY <1>0, <2>0, <3>1, <4>1
      <4>2. CASE k = Len(frames) + 1
        <5>1. DOMAIN Targets(id) \subseteq Nat \ {0}
          BY Shape
        <5> QED
          BY <2>0, <3>1, <4>2, <5>1
      <4> QED
        BY <2>0, <4>1, <4>2
    <3> QED
      BY <1>4, <3>1 DEF Behind, BehindOf
  <2>3. CoveredOf(pushed, visited, r)
    <3>1. pushed # <<>> /\ r \in 1..Len(Entries) /\ Len(Entries) \in Nat
      BY <2>0, Shape DEF Calling
    <3>2. pushed[1].id = Entries[r].id
      BY <2>0 DEF Calling
    <3>3. \A i \in 1..r : i \in 1..(r - 1) \/ i = r
      BY <3>1
    <3> QED
      BY <3>1, <3>2, <3>3 DEF CoveredOf, Calling
  <2>4. TypeOK'
    BY <1>4, <2>0, SameJournal DEF TypeOK, Walk, Calling, network
  <2>5. SearchInv'
    BY <1>4, <2>1, <2>2, <2>3, SameJournal DEF SearchInv, NoCycleAccepted, CycleIsReal
  <2> QED
    BY <2>4, <2>5
<1> QED
  BY <1>1, <1>2, <1>3, <1>4 DEF Walk

-----------------------------------------------------------------------------
(* The steps.                                                              *)

LEMMA WalkRootKeeps == Inv /\ WalkRoot => TypeOK' /\ SearchInv'
<1> SUFFICES ASSUME Inv, WalkRoot PROVE TypeOK' /\ SearchInv'
  OBVIOUS
<1> DEFINE id == Entries[root + 1].id
<1>1. Path /\ Behind /\ Covered /\ \A i \in Ids : Successors(i) \subseteq Ids
  BY DEF Inv, WalkRoot, SearchInv
<1>2. root \in Nat /\ root + 1 \in 1..Len(Entries) /\ id \in Ids
  BY Shape DEF Inv, WalkRoot, TypeOK
<1>3. visiting = {}
  BY <1>1 DEF Path, WalkRoot
<1>4. Calling(id, <<>>, root + 1)
  BY <1>1, <1>2, <1>3 DEF Calling, Covered, WalkRoot
<1>5. <<>> \in Seq(Frames)
  OBVIOUS
<1> QED
  BY <1>1, <1>2, <1>3, <1>4, <1>5, CallKeepsSearch DEF Inv, WalkRoot

LEMMA WalkTargetKeeps == Inv /\ WalkTarget => TypeOK' /\ SearchInv'
<1> SUFFICES ASSUME Inv, WalkTarget PROVE TypeOK' /\ SearchInv'
  OBVIOUS
<1> DEFINE id == Targets(Top.id)[Top.next]
           n == Len(stack)
<1>1. Path /\ Behind /\ Covered /\ \A i \in Ids : Successors(i) \subseteq Ids
  BY DEF Inv, WalkTarget, SearchInv
<1>2. /\ stack \in Seq(Frames) /\ stack # <<>> /\ n \in Nat \ {0} /\ DOMAIN stack = 1..n
      /\ Top = stack[n] /\ Top.id \in Ids /\ Top.next \in Nat \ {0}
  BY BelowIsPrefix DEF Inv, WalkTarget, TypeOK, Top, Frames
<1>r. Len(stack) = n
  OBVIOUS
<1> HIDE DEF n
<1>3. Top.next \in DOMAIN Targets(Top.id) /\ id \in Ids
  <2>1. Top.next \in DOMAIN Targets(Top.id)
    BY <1>2, Shape DEF Inv, WalkTarget
  <2> QED
    BY <1>1, <1>2, <2>1 DEF Successors
<1>4. /\ Advanced \in Seq(Frames) /\ Len(Advanced) = n /\ DOMAIN Advanced = 1..n
      /\ \A k \in 1..(n - 1) : Advanced[k] = stack[k]
      /\ Advanced[n].id = Top.id /\ Advanced[n].next = Top.next + 1
  BY <1>2, <1>r, AdvancedFrames
<1>5. \A k \in 1..n : Advanced[k].id = stack[k].id
  BY <1>2, <1>4
<1>6. Calling(id, Advanced, root)
  <2>1. visiting = {Advanced[k].id : k \in DOMAIN Advanced}
    BY <1>1, <1>2, <1>4, <1>5 DEF Path
  <2>2. \A k, l \in DOMAIN Advanced : Advanced[k].id = Advanced[l].id => k = l
    BY <1>1, <1>2, <1>4, <1>5 DEF Path
  <2>3. ASSUME NEW k \in DOMAIN Advanced
        PROVE  /\ Advanced[k].next - 1 \in DOMAIN Targets(Advanced[k].id)
               /\ Targets(Advanced[k].id)[Advanced[k].next - 1]
                    = IF k = Len(Advanced) THEN id ELSE Advanced[k + 1].id
               /\ \A m \in DOMAIN Targets(Advanced[k].id) :
                    m < Advanced[k].next - 1 => Targets(Advanced[k].id)[m] \in visited
    <3>1. CASE k = n
      <4>1. Advanced[k].next - 1 = Top.next /\ Advanced[k].id = Top.id
        BY <1>2, <1>4, <3>1
      <4>2. \A m \in DOMAIN Targets(Top.id) : m < Top.next => Targets(Top.id)[m] \in visited
        BY <1>1, <1>2 DEF Behind
      <4> QED
        BY <1>3, <1>4, <3>1, <4>1, <4>2
    <3>2. CASE k # n
      <4>1. k \in 1..(n - 1) /\ k + 1 \in 1..n /\ Advanced[k] = stack[k]
        BY <1>2, <1>4, <2>3, <3>2
      <4>2. /\ stack[k].next - 1 \in DOMAIN Targets(stack[k].id)
            /\ Targets(stack[k].id)[stack[k].next - 1] = Advanced[k + 1].id
        BY <1>1, <1>2, <1>5, <4>1 DEF Path
      <4>3. stack[k] \in Frames
        BY <1>2, <4>1
      <4>4. stack[k].next \in Nat \ {0} /\ DOMAIN Targets(stack[k].id) \subseteq Nat
        BY <4>3, Shape DEF Frames, Inv
      <4>5. \A m \in DOMAIN Targets(stack[k].id) :
              m < stack[k].next - 1 => Targets(stack[k].id)[m] \in visited
        <5> TAKE m \in DOMAIN Targets(stack[k].id)
        <5> HAVE m < stack[k].next - 1
        <5>1. m < stack[k].next /\ m # stack[k].next - 1 /\ k \in DOMAIN stack
          BY <1>2, <4>1, <4>4
        <5> QED
          BY <1>1, <5>1 DEF Behind
      <4> QED
        BY <1>4, <3>2, <4>1, <4>2, <4>5
    <3> QED
      BY <3>1, <3>2
  <2>4. root \in 1..Len(Entries) /\ Entries[root].id = Advanced[1].id /\ Advanced # <<>>
    BY <1>1, <1>2, <1>4, <1>5, Shape DEF Inv, TypeOK, Covered
  <2>5. \A i \in 1..(root - 1) : Entries[i].id \in visited
    BY <1>1, <2>4, Shape DEF Inv, Covered
  <2> QED
    BY <2>1, <2>2, <2>3, <2>4, <2>5 DEF Calling
<1>7. id \in visiting => ~Acyclic
  BY <1>1, <1>2, <1>3, TopCloses
<1>8. Walk(id, Advanced) /\ root' = root /\ stage = "search" /\ UNCHANGED <<journal, visited, network>>
  BY DEF WalkTarget, Advanced
<1> QED
  BY <1>1, <1>3, <1>4, <1>6, <1>7, <1>8, CallKeepsSearch DEF Inv

LEMMA ReturnKeeps == Inv /\ Return => TypeOK' /\ SearchInv'
<1> SUFFICES ASSUME Inv, Return PROVE TypeOK' /\ SearchInv'
  OBVIOUS
<1> DEFINE n == Len(stack)
           left == visited \cup {Top.id}
<1>1. Path /\ Behind /\ Covered /\ \A i \in Ids : Successors(i) \subseteq Ids
  BY DEF Inv, Return, SearchInv
<1>2. /\ stack \in Seq(Frames) /\ stack # <<>> /\ n \in Nat \ {0} /\ DOMAIN stack = 1..n
      /\ Top = stack[n] /\ Top.id \in Ids /\ Top.next \in Nat \ {0}
  BY BelowIsPrefix DEF Inv, Return, TypeOK, Top, Frames
<1>r. Len(stack) = n
  OBVIOUS
<1> HIDE DEF n
<1>3. /\ Below \in Seq(Frames) /\ Len(Below) = n - 1 /\ DOMAIN Below = 1..(n - 1)
      /\ \A k \in 1..(n - 1) : Below[k] = stack[k] /\ k \in 1..n
  <2>1. Below \in Seq(Frames) /\ Len(Below) = n - 1 /\ \A k \in 1..(n - 1) : Below[k] = stack[k]
    BY <1>2, <1>r, BelowIsPrefix
  <2>2. DOMAIN Below = 1..(n - 1)
    BY <2>1
  <2>3. \A k \in 1..(n - 1) : k \in 1..n
    BY <1>2
  <2> QED
    BY <2>1, <2>2, <2>3
<1>4. PathOf(Below, visiting \ {Top.id})
  <2>1. \A k \in 1..(n - 1) : stack[k].id # Top.id
    BY <1>1, <1>2, <1>3 DEF Path
  <2>2. visiting = {stack[k].id : k \in 1..(n - 1)} \cup {Top.id}
    <3>1. 1..n = 1..(n - 1) \cup {n}
      BY <1>2
    <3> QED
      <4>1. {stack[k].id : k \in 1..n} = {stack[k].id : k \in 1..(n - 1)} \cup {stack[n].id}
        BY <3>1
      <4> QED
        BY <1>1, <1>2, <4>1 DEF Path
  <2>3. visiting \ {Top.id} = {Below[k].id : k \in DOMAIN Below}
    BY <1>3, <2>1, <2>2
  <2> QED
    BY <1>1, <1>2, <1>3, <2>3 DEF Path, PathOf
<1>5. BehindOf(Below, visiting \ {Top.id}, left)
  <2>1. Successors(Top.id) \subseteq visited
    <3>1. DOMAIN Targets(Top.id) = 1..Len(Targets(Top.id)) /\ Len(Targets(Top.id)) \in Nat
      BY <1>2, Shape DEF Inv
    <3>2. \A m \in DOMAIN Targets(Top.id) : m < Top.next
      BY <1>2, <3>1 DEF Return
    <3>3. \A m \in DOMAIN Targets(Top.id) : Targets(Top.id)[m] \in visited
      BY <1>1, <1>2, <3>2 DEF Behind
    <3> QED
      BY <3>3 DEF Successors
  <2>2. Top.id \notin visited
    BY <1>1, <1>2 DEF Path, Behind
  <2>3. \A S \in (SUBSET left) \ {{}} : HasSink(S)
    BY <1>1, <1>2, <2>1, <2>2, LeavingClosesNothing DEF Behind, Inv, TypeOK
  <2>4. ASSUME NEW k \in DOMAIN Below, NEW m \in DOMAIN Targets(Below[k].id), m < Below[k].next
        PROVE  \/ Targets(Below[k].id)[m] \in left
               \/ k + 1 \in DOMAIN Below /\ m = Below[k].next - 1
    <3>1. k \in 1..(n - 1) /\ Below[k] = stack[k] /\ k \in 1..n /\ k + 1 \in 1..n
      BY <1>2, <1>3
    <3>2. CASE Targets(stack[k].id)[m] \in visited
      BY <3>1, <3>2
    <3>3. CASE m = stack[k].next - 1
      <4>1. Targets(stack[k].id)[m] = stack[k + 1].id
        BY <1>1, <1>2, <3>1, <3>3 DEF Path
      <4>2. k + 1 \in 1..(n - 1) \/ k + 1 = n
        BY <1>2, <3>1
      <4> QED
        BY <1>2, <1>3, <3>1, <3>3, <4>1, <4>2
    <3> QED
      BY <1>1, <1>2, <2>4, <3>1, <3>2, <3>3 DEF Behind
  <2> QED
    BY <1>1, <2>1, <2>3, <2>4 DEF Behind, BehindOf
<1>6. CoveredOf(Below, left, root)
  <2>1. root # 0 /\ stack[1].id = Entries[root].id
    BY <1>1, <1>2 DEF Covered
  <2>2. CASE n = 1
    BY <1>1, <1>2, <1>3, <2>1, <2>2 DEF CoveredOf, Covered
  <2>3. CASE n # 1
    <3>1. Below # <<>> /\ Below[1] = stack[1]
      BY <1>2, <1>3, <2>3
    <3> QED
      BY <1>1, <2>1, <3>1 DEF CoveredOf, Covered
  <2> QED
    BY <2>2, <2>3
<1>7. TypeOK'
  BY <1>2, <1>3, SameJournal DEF Inv, TypeOK, Return, network
<1>8. SearchInv'
  BY <1>1, <1>4, <1>5, <1>6, SameJournal
     DEF Inv, SearchInv, Return, NoCycleAccepted, CycleIsReal
<1> QED
  BY <1>7, <1>8

\* A stage passed or refused leaves the search alone.
LEMMA RequireKeeps ==
  ASSUME Inv, stage # "done", UNCHANGED <<journal, search, network>>,
         NEW ok, NEW next \in Stages \ {"done"}, NEW how \in Outcomes \ {"none", "cycle", "PASS"},
         Require(ok, next, how),
         (ok /\ next \in {"identifiers", "entries", "targets"}) =>
            stage \in {"identifiers", "entries", "targets"},
         (ok /\ next \in {"search", "views", "urls"}) =>
            Path /\ Behind /\ Covered /\ \A id \in Ids : Successors(id) \subseteq Ids,
         (ok /\ next \in {"views", "urls"}) => stack = <<>> /\ root = Len(Entries)
  PROVE  TypeOK' /\ SearchInv'
<1>1. /\ PathOf(stack, visiting) = Path /\ BehindOf(stack, visiting, visited) = Behind
      /\ CoveredOf(stack, visited, root) = Covered
  BY DEF PathOf, Path, BehindOf, Behind, CoveredOf, Covered
<1>2. CASE ok /\ stage' = next /\ outcome' = outcome
  <2>1. TypeOK'
    BY <1>2, SameJournal DEF Inv, TypeOK, search, network
  <2>2. SearchInv'
    BY <1>1, <1>2, SameJournal DEF Inv, SearchInv, search, network, NoCycleAccepted, CycleIsReal, Stages
  <2> QED
    BY <2>1, <2>2
<1>3. CASE ~ok /\ End(how)
  <2>1. TypeOK'
    BY <1>3, SameJournal DEF Inv, TypeOK, End, search, network, Stages
  <2>2. SearchInv'
    BY <1>3, SameJournal DEF Inv, SearchInv, End, NoCycleAccepted, CycleIsReal
  <2> QED
    BY <2>1, <2>2
<1> QED
  BY <1>2, <1>3 DEF Require

LEMMA EmptySearch ==
  ASSUME stack = <<>>, root = 0, visiting = {}, visited = {}
  PROVE  Path /\ Behind /\ Covered
  BY DEF Path, Behind, Covered

\* Once every entry has been walked from the outside, all of them are left.
LEMMA AllLeft ==
  ASSUME Inv, stack = <<>>, root = Len(Entries), Behind, Covered
  PROVE  Acyclic
<1>1. \A i \in DOMAIN Entries : Entries[i].id \in visited
  BY Shape DEF Inv, Covered
<1>2. Ids = visited
  BY <1>1 DEF Ids, Inv, TypeOK
<1> QED
  BY <1>2 DEF Behind, Acyclic

LEMMA StageKeeps ==
  Inv /\ (CheckIdentifiers \/ CheckEntries \/ CheckTargets \/ EndSearch \/ CheckViews)
    => TypeOK' /\ SearchInv'
<1>1. ASSUME Inv, CheckIdentifiers PROVE TypeOK' /\ SearchInv'
  BY <1>1, RequireKeeps DEF CheckIdentifiers, Stages, Outcomes
<1>2. ASSUME Inv, CheckEntries PROVE TypeOK' /\ SearchInv'
  BY <1>2, RequireKeeps DEF CheckEntries, Stages, Outcomes
<1>3. ASSUME Inv, CheckTargets PROVE TypeOK' /\ SearchInv'
  <2>1. Path /\ Behind /\ Covered
    BY <1>3, EmptySearch DEF Inv, SearchInv, CheckTargets
  <2> QED
    BY <1>3, <2>1, RequireKeeps DEF CheckTargets, Stages, Outcomes
<1>4. ASSUME Inv, EndSearch PROVE TypeOK' /\ SearchInv'
  <2>1. Require(TRUE, "views", "view")
    BY <1>4 DEF EndSearch, Require
  <2> QED
    BY <1>4, <2>1, RequireKeeps DEF EndSearch, Inv, SearchInv, Stages, Outcomes
<1>5. ASSUME Inv, CheckViews PROVE TypeOK' /\ SearchInv'
  BY <1>5, RequireKeeps DEF CheckViews, Inv, SearchInv, Stages, Outcomes
<1> QED
  BY <1>1, <1>2, <1>3, <1>4, <1>5

LEMMA SourcesKeep == Inv /\ (AskSource \/ Accept) => TypeOK' /\ SearchInv'
<1>0. /\ PathOf(stack, visiting) = Path /\ BehindOf(stack, visiting, visited) = Behind
      /\ CoveredOf(stack, visited, root) = Covered
  BY DEF PathOf, Path, BehindOf, Behind, CoveredOf, Covered
<1>1. ASSUME Inv, AskSource PROVE TypeOK' /\ SearchInv'
  <2> USE <1>1
  <2>1. TypeOK'
    BY SameJournal DEF Inv, TypeOK, AskSource, End, search, network, Stages, Outcomes, Entries
  <2>2. stage = "urls" /\ journal' = journal /\ UNCHANGED search
    BY DEF AskSource
  <2>3. UNCHANGED <<stage, outcome>> \/ End("source") \/ End("traceback")
    BY DEF AskSource
  <2>4. SearchInv'
    BY <1>0, <2>2, <2>3, SameJournal
       DEF Inv, SearchInv, End, search, NoCycleAccepted, CycleIsReal
  <2> QED
    BY <2>1, <2>4
<1>2. ASSUME Inv, Accept PROVE TypeOK' /\ SearchInv'
  <2> USE <1>2
  <2>1. Acyclic
    BY AllLeft DEF Inv, SearchInv, Accept
  <2>2. TypeOK'
    BY SameJournal DEF Inv, TypeOK, Accept, End, search, network, Stages, Outcomes, Entries
  <2>3. SearchInv'
    BY <2>1, SameJournal DEF Inv, SearchInv, Accept, End, NoCycleAccepted, CycleIsReal
  <2> QED
    BY <2>2, <2>3
<1> QED
  BY <1>1, <1>2

LEMMA InitHolds == Init => Inv
<1> SUFFICES ASSUME Init PROVE Inv
  OBVIOUS
<1>1. TypeOK
  BY Shape DEF Init, TypeOK, Stages, Outcomes
<1>2. SearchInv
  BY DEF Init, SearchInv, NoCycleAccepted, CycleIsReal
<1> QED
  BY <1>1, <1>2 DEF Init, Inv

LEMMA NextHolds == Inv /\ [Next]_vars => Inv'
<1> SUFFICES ASSUME Inv, [Next]_vars PROVE Inv'
  OBVIOUS
<1>1. journal' = journal
  BY DEF Next, vars, CheckIdentifiers, CheckEntries, CheckTargets, WalkRoot, WalkTarget, Return,
         EndSearch, CheckViews, AskSource, Accept
<1>2. CASE Next
  BY <1>1, <1>2, WalkRootKeeps, WalkTargetKeeps, ReturnKeeps, StageKeeps, SourcesKeep
     DEF Next, Inv
<1>3. CASE UNCHANGED vars
  <2>1. /\ PathOf(stack, visiting) = Path /\ BehindOf(stack, visiting, visited) = Behind
        /\ CoveredOf(stack, visited, root) = Covered
    BY DEF PathOf, Path, BehindOf, Behind, CoveredOf, Covered
  <2>2. TypeOK'
    BY <1>3, SameJournal DEF Inv, TypeOK, vars, search, network, Entries
  <2>3. SearchInv'
    BY <1>3, <2>1, SameJournal DEF Inv, SearchInv, vars, search, network, NoCycleAccepted, CycleIsReal
  <2> QED
    BY <1>1, <2>2, <2>3 DEF Inv
<1> QED
  BY <1>2, <1>3

\* The state is typed and the search in order at every step: the frames are a path
\* of entries in use, and no cycle lies among the entries left.
THEOREM SearchStaysInOrder == Spec => [](TypeOK /\ SearchInv)
<1>1. Inv => TypeOK /\ SearchInv
  BY DEF Inv
<1> QED
  BY <1>1, InitHolds, NextHolds, PTL DEF Spec

\* A journal is accepted only if its entries supersede in one direction, and refused
\* for a cycle only if it has one, for every journal, of any size, and every recursion
\* limit (validate_supersession).
THEOREM CyclesAreRefused == Spec => []CyclesRefused
<1>1. SearchInv => CyclesRefused
  BY DEF SearchInv, CyclesRefused
<1> QED
  BY <1>1, SearchStaysInOrder, PTL

-----------------------------------------------------------------------------
(* The number of calls.                                                    *)

\* Taken and Counted, of frames and a set of entries left not yet those of the state.
TakenOf(frames, left) ==
  {e \in Edges : \/ Entries[e[1]].id \in left
                 \/ \E k \in DOMAIN frames : /\ frames[k].id = Entries[e[1]].id
                                             /\ e[2] < frames[k].next}
Distinct == \A i, j \in DOMAIN Entries : Entries[i].id = Entries[j].id => i = j

\* An edge is an entry's index and the index of one of its targets.
LEMMA EdgeShape ==
  ASSUME journal \in Journals, NEW e \in Edges
  PROVE  /\ e[1] \in DOMAIN Entries /\ e[2] \in DOMAIN Entries[e[1]].supersedes
         /\ e[2] \in Nat \ {0} /\ e[2] <= Len(Entries[e[1]].supersedes)
         /\ e = <<e[1], e[2]>>
<1>1. PICK i \in DOMAIN Entries : e \in {i} \X DOMAIN Entries[i].supersedes
  BY DEF Edges
<1>2. Entries[i].supersedes \in Seq(STRING)
  BY JournalAssumption DEF Entries
<1> QED
  BY <1>1, <1>2

LEMMA IntervalIsFinite ==
  ASSUME NEW m \in Nat
  PROVE  IsFiniteSet(1..m) /\ Cardinality(1..m) = m
<1>1. 1 \in Int /\ m \in Int /\ (IF 1 > m THEN 0 ELSE m - 1 + 1) = m
  OBVIOUS
<1> QED
  BY <1>1, FS_Interval

LEMMA EdgesAreFinite ==
  ASSUME journal \in Journals
  PROVE  IsFiniteSet(Edges)
<1> DEFINE n == Len(Entries)
           of == [i \in 1..n |-> {i} \X DOMAIN Entries[i].supersedes]
           parts == {of[i] : i \in 1..n}
<1>0. n \in Nat /\ DOMAIN Entries = 1..n
  BY Shape
<1>1. IsFiniteSet(1..n)
  BY <1>0, IntervalIsFinite
<1>2. IsFiniteSet(parts)
  <2>1. of \in Surjection(1..n, parts)
    BY DEF Surjection
  <2> QED
    BY <1>1, <2>1, FS_Surjection
<1>3. ASSUME NEW i \in 1..n PROVE IsFiniteSet(of[i])
  <2>1. Entries[i].supersedes \in Seq(STRING)
    BY <1>0, JournalAssumption DEF Entries
  <2>2. PICK m \in Nat : DOMAIN Entries[i].supersedes = 1..m
    BY <2>1
  <2>3. IsFiniteSet(DOMAIN Entries[i].supersedes)
    BY <2>2, IntervalIsFinite
  <2>4. IsFiniteSet({i})
    BY FS_Singleton
  <2> QED
    BY <2>3, <2>4, FS_Product
<1>4. Edges = UNION parts
  BY <1>0 DEF Edges
<1>5. \A T \in parts : IsFiniteSet(T)
  BY <1>3
<1> HIDE DEF parts
<1> QED
  BY <1>2, <1>4, <1>5, FS_UNION

\* As many identifiers as entries: no two entries share one.
LEMMA CountedIdsAreDistinct ==
  ASSUME journal \in Journals, Cardinality(Ids) = Len(Entries)
  PROVE  Distinct
<1> DEFINE n == Len(Entries)
           f == [i \in 1..n |-> Entries[i].id]
<1>0. n \in Nat /\ DOMAIN Entries = 1..n
  BY Shape
<1>1. IsFiniteSet(1..n) /\ Cardinality(1..n) = n
  BY <1>0, IntervalIsFinite
<1>2. f \in Surjection(1..n, Ids)
  BY <1>0 DEF Surjection, Ids
<1>3. f \in Injection(1..n, Ids)
  BY <1>1, <1>2, FS_Surjection
<1> QED
  BY <1>0, <1>3 DEF Injection, IsInjective, Distinct

\* A call takes no edge, whatever it does: the frame it pushes has taken no target.
LEMMA CallTakesNothing ==
  ASSUME journal \in Journals, NEW id \in Ids, NEW frames \in Seq(Frames), Walk(id, frames)
  PROVE  TakenOf(stack', visited) = TakenOf(frames, visited)
<1>1. CASE stack' = frames
  BY <1>1
<1>2. CASE stack' = Append(frames, [id |-> id, next |-> 1])
  <2> DEFINE pushed == Append(frames, [id |-> id, next |-> 1])
  <2>1. /\ Len(frames) \in Nat /\ DOMAIN frames = 1..Len(frames)
        /\ DOMAIN pushed = 1..(Len(frames) + 1)
        /\ \A k \in 1..Len(frames) : pushed[k] = frames[k]
        /\ pushed[Len(frames) + 1].next = 1
    BY PushedFrames
  <2> HIDE DEF pushed
  <2>2. ASSUME NEW e \in Edges
        PROVE  (\E k \in DOMAIN pushed : pushed[k].id = Entries[e[1]].id /\ e[2] < pushed[k].next)
                 <=> \E k \in DOMAIN frames : frames[k].id = Entries[e[1]].id /\ e[2] < frames[k].next
    <3>1. ~ (e[2] < 1)
      BY EdgeShape
    <3> QED
      BY <2>1, <3>1
  <2> QED
    BY <1>2, <2>2 DEF TakenOf, pushed
<1> QED
  BY <1>1, <1>2 DEF Walk

LEMMA SameEdges ==
  ASSUME journal' = journal
  PROVE  Edges' = Edges /\ Distinct' = Distinct /\ Taken' = TakenOf(stack', visited')
BY DEF Edges, Distinct, Taken, TakenOf, Entries

\* The entry of an identifier is found by it.
LEMMA DistinctEntries ==
  ASSUME journal \in Journals, Distinct, NEW i \in DOMAIN Entries
  PROVE  Targets(Entries[i].id) = Entries[i].supersedes
<1>1. EntryOf(Entries[i].id) = Entries[i]
  BY DEF Distinct, EntryOf
<1> QED
  BY <1>1 DEF Targets

\* The call of a target takes one edge, for the first time: the frame on top is the
\* only one of its entry, and no entry in use has been left.
LEMMA TargetTakesOne ==
  ASSUME Inv, Distinct, WalkTarget
  PROVE  \E e \in Edges \ Taken : TakenOf(stack', visited') = Taken \cup {e}
<1> DEFINE n == Len(stack)
           id == Targets(Top.id)[Top.next]
<1>1. Path /\ Behind /\ \A i \in Ids : Successors(i) \subseteq Ids
  BY DEF Inv, WalkTarget, SearchInv
<1>2. /\ stack \in Seq(Frames) /\ n \in Nat \ {0} /\ DOMAIN stack = 1..n
      /\ Top = stack[n] /\ Top.id \in Ids /\ Top.next \in Nat \ {0}
  BY BelowIsPrefix DEF Inv, WalkTarget, TypeOK, Top, Frames
<1>3. /\ Advanced \in Seq(Frames) /\ DOMAIN Advanced = 1..n
      /\ \A k \in 1..(n - 1) : Advanced[k] = stack[k]
      /\ Advanced[n].id = Top.id /\ Advanced[n].next = Top.next + 1
  BY <1>2, AdvancedFrames DEF WalkTarget
<1>4. PICK i \in DOMAIN Entries : Entries[i].id = Top.id
  BY <1>2 DEF Ids
<1>5. Targets(Top.id) = Entries[i].supersedes /\ Targets(Top.id) \in Seq(STRING)
  BY <1>2, <1>4, DistinctEntries, Shape DEF Inv
<1>6. Top.next \in DOMAIN Targets(Top.id)
  BY <1>2, <1>5 DEF WalkTarget
<1> DEFINE e == <<i, Top.next>>
<1>7. e \in Edges
  BY <1>5, <1>6 DEF Edges
<1>8. TakenOf(stack', visited') = TakenOf(Advanced, visited)
  <2>1. id \in Ids
    BY <1>1, <1>2, <1>6 DEF Successors
  <2>2. Walk(id, Advanced) /\ visited' = visited
    BY DEF WalkTarget, Advanced
  <2> QED
    BY <1>3, <2>1, <2>2, CallTakesNothing DEF Inv
<1>r. Len(stack) = n
  OBVIOUS
<1> HIDE DEF n, id
<1>9. ASSUME NEW f \in Edges
      PROVE  (\E k \in 1..n : Advanced[k].id = Entries[f[1]].id /\ f[2] < Advanced[k].next)
               <=> \/ \E k \in 1..n : stack[k].id = Entries[f[1]].id /\ f[2] < stack[k].next
                   \/ f = e
  <2>1. f[1] \in DOMAIN Entries /\ f[2] \in Nat /\ f = <<f[1], f[2]>>
    BY EdgeShape DEF Inv
  <2>2. f[2] < Top.next + 1 <=> f[2] < Top.next \/ f[2] = Top.next
    BY <1>2, <2>1
  <2>3. Entries[f[1]].id = Top.id <=> f[1] = i
    BY <1>4, <2>1 DEF Distinct
  <2>4. f = e <=> f[1] = i /\ f[2] = Top.next
    BY <2>1
  <2>5. \A k \in 1..n : k \in 1..(n - 1) \/ k = n
    BY <1>2
  <2> QED
    BY <1>2, <1>3, <2>2, <2>3, <2>4, <2>5
<1>10. e \notin Taken
  <2>1. Top.id \notin visited
    BY <1>1, <1>2 DEF Path, Behind
  <2>2. \A k \in 1..n : stack[k].id = Top.id => ~ (Top.next < stack[k].next)
    BY <1>1, <1>2 DEF Path
  <2> QED
    BY <1>2, <1>4, <2>1, <2>2 DEF Taken
<1>11. TakenOf(Advanced, visited) = Taken \cup {e}
  BY <1>2, <1>3, <1>7, <1>9 DEF Taken, TakenOf
<1> QED
  BY <1>7, <1>8, <1>10, <1>11

\* An entry is left with all its edges taken.
LEMMA ReturnTakesNothing ==
  ASSUME Inv, Distinct, Return
  PROVE  TakenOf(stack', visited') = Taken
<1> DEFINE n == Len(stack)
<1>1. Path
  BY DEF Inv, Return, SearchInv
<1>2. /\ stack \in Seq(Frames) /\ n \in Nat \ {0} /\ DOMAIN stack = 1..n
      /\ Top = stack[n] /\ Top.id \in Ids
  BY BelowIsPrefix DEF Inv, Return, TypeOK, Top, Frames
<1>3. /\ Below \in Seq(Frames) /\ Len(Below) = n - 1
      /\ \A k \in 1..(n - 1) : Below[k] = stack[k]
  BY BelowIsPrefix DEF Inv, Return, TypeOK
<1>4. DOMAIN Below = 1..(n - 1)
  BY <1>3
<1> HIDE DEF n
<1>5. ASSUME NEW e \in Edges, Entries[e[1]].id = Top.id
      PROVE  e[2] < Top.next
  <2>1. /\ e[1] \in DOMAIN Entries /\ e[2] \in Nat \ {0}
        /\ e[2] <= Len(Entries[e[1]].supersedes)
    BY EdgeShape DEF Inv
  <2>2. Entries[e[1]].supersedes = Targets(Top.id)
    BY <1>5, <2>1, DistinctEntries DEF Inv
  <2>3. Top.next \in Nat /\ Len(Targets(Top.id)) \in Nat /\ Top.next > Len(Targets(Top.id))
    <3>1. Top \in Frames /\ Targets(Top.id) \in Seq(STRING)
      BY <1>2, Shape DEF Inv
    <3> QED
      BY <3>1 DEF Return, Frames
  <2> QED
    BY <2>1, <2>2, <2>3
<1>6. ASSUME NEW e \in Edges
      PROVE  /\ Entries[e[1]].id \in visited \cup {Top.id}
                  \/ \E k \in 1..(n - 1) : Below[k].id = Entries[e[1]].id /\ e[2] < Below[k].next
             <=> Entries[e[1]].id \in visited
                  \/ \E k \in 1..n : stack[k].id = Entries[e[1]].id /\ e[2] < stack[k].next
  <2>1. \A k \in 1..n : k \in 1..(n - 1) \/ k = n
    BY <1>2
  <2>2. \A k \in 1..(n - 1) : k \in 1..n
    BY <1>2
  <2>3. n \in 1..n
    BY <1>2
  <2> QED
    BY <1>2, <1>3, <1>5, <2>1, <2>2, <2>3
<1> QED
  BY <1>2, <1>4, <1>6 DEF Taken, TakenOf, Return

LEMMA InitCounts == Init => Counted
<1> SUFFICES ASSUME Init PROVE Counted
  OBVIOUS
<1>1. Taken = {}
  BY DEF Init, Taken
<1>2. Cardinality(Taken) = 0
  BY <1>1, FS_EmptySet
<1> QED
  BY <1>2 DEF Init, Counted

LEMMA NextCounts == Inv /\ Counted /\ [Next]_vars => Counted'
<1> SUFFICES ASSUME Inv, Counted, [Next]_vars PROVE Counted'
  OBVIOUS
<1>1. journal' = journal
  BY DEF Next, vars, CheckIdentifiers, CheckEntries, CheckTargets, WalkRoot, WalkTarget, Return,
         EndSearch, CheckViews, AskSource, Accept
<1>2. IsFiniteSet(Taken) /\ Cardinality(Taken) \in Nat
  <2>1. Taken \subseteq Edges
    BY DEF Taken
  <2> QED
    BY <2>1, EdgesAreFinite, FS_Subset, FS_CardinalityType DEF Inv
<1>3. CASE CheckIdentifiers
  <2>1. stage' # "done" => Distinct
    BY <1>3, CountedIdsAreDistinct DEF CheckIdentifiers, Require, End, Inv
  <2>2. UNCHANGED search
    BY <1>3 DEF CheckIdentifiers
  <2> QED
    BY <1>1, <2>1, <2>2, SameEdges DEF Counted, Taken, TakenOf, search, Distinct
<1>4. CASE /\ UNCHANGED search
           /\ \/ stage' \in {stage, "done"}
              \/ stage \in {"entries", "targets", "search", "views", "urls"}
  <2>1. Taken' = Taken /\ walks' = walks /\ root' = root
    BY <1>1, <1>4, SameEdges DEF Taken, TakenOf, search
  <2> QED
    BY <1>1, <1>4, <2>1, SameEdges DEF Counted, Distinct
<1>5. CASE WalkRoot
  <2>1. Entries[root + 1].id \in Ids /\ root \in Nat
    BY <1>5, Shape DEF WalkRoot, Inv, TypeOK
  <2>2. TakenOf(stack', visited) = TakenOf(<<>>, visited)
    <3>1. <<>> \in Seq(Frames) /\ Walk(Entries[root + 1].id, <<>>) /\ journal \in Journals
      BY <1>5 DEF WalkRoot, Inv
    <3> QED
      BY <2>1, <3>1, CallTakesNothing
  <2>3. Taken' = Taken
    BY <1>1, <1>5, <2>2, SameEdges DEF WalkRoot, Taken, TakenOf
  <2>4. walks' = walks + 1 /\ root' = root + 1 /\ stage = "search"
    BY <1>5 DEF WalkRoot, Walk
  <2> QED
    BY <1>1, <1>2, <2>1, <2>3, <2>4, SameEdges DEF Counted, Distinct
<1>6. CASE WalkTarget
  <2>1. Distinct /\ stage = "search"
    BY <1>6 DEF Counted, WalkTarget, Distinct
  <2>2. PICK e \in Edges \ Taken : TakenOf(stack', visited') = Taken \cup {e}
    BY <1>6, <2>1, TargetTakesOne
  <2>3. Cardinality(Taken') = Cardinality(Taken) + 1
    BY <1>1, <1>2, <2>2, SameEdges, FS_AddElement
  <2>4. walks' = walks + 1 /\ root' = root /\ root \in Nat
    BY <1>6 DEF WalkTarget, Walk, Inv, TypeOK
  <2> QED
    BY <1>1, <1>2, <2>1, <2>3, <2>4, SameEdges DEF Counted, Distinct
<1>7. CASE Return
  <2>1. Distinct /\ stage = "search"
    BY <1>7 DEF Counted, Return, Distinct
  <2>2. Taken' = Taken
    BY <1>1, <1>7, <2>1, ReturnTakesNothing, SameEdges
  <2>3. walks' = walks /\ root' = root
    BY <1>7 DEF Return
  <2> QED
    BY <1>1, <2>1, <2>2, <2>3, SameEdges DEF Counted, Distinct
<1> QED
  <2>1. CASE UNCHANGED vars
    BY <1>4, <2>1 DEF vars
  <2>2. CASE Next
    BY <1>3, <1>4, <1>5, <1>6, <1>7, <2>2
       DEF Next, CheckEntries, CheckTargets, EndSearch, CheckViews, AskSource, Accept
  <2> QED
    BY <2>1, <2>2

\* The search calls walk once per entry and once per target at most, whatever the
\* graph: entries superseded along many ways do not multiply its work.
THEOREM CallsAreLinear == Spec => []WalksAreLinear
<1>1. Inv /\ Counted => WalksAreLinear
  <2> SUFFICES ASSUME Inv, Counted PROVE WalksAreLinear
    OBVIOUS
  <2>1. Taken \subseteq Edges /\ IsFiniteSet(Edges)
    BY EdgesAreFinite DEF Taken, Inv
  <2>2. /\ Cardinality(Taken) <= Cardinality(Edges)
        /\ Cardinality(Taken) \in Nat /\ Cardinality(Edges) \in Nat
    BY <2>1, FS_Subset, FS_CardinalityType
  <2>3. root \in Nat /\ Len(Entries) \in Nat /\ root <= Len(Entries)
    BY Shape DEF Inv, TypeOK
  <2> QED
    BY <2>2, <2>3 DEF Counted, WalksAreLinear
<1> QED
  BY <1>1, InitHolds, NextHolds, InitCounts, NextCounts, PTL DEF Spec

-----------------------------------------------------------------------------
(* The check ends: what of it is safety.                                   *)

\* The stages before the check, the calls of walk, the frames to return from and the
\* requests it has still to make at most.
Pace == [identifiers |-> 6, entries |-> 5, targets |-> 4, search |-> 3, views |-> 2,
         urls |-> 1, done |-> 0]
CallsLeft == Len(Entries) + Cardinality(Edges) - walks
AsksLeft == 2 * Cardinality(pending) + (IF retry = {} THEN 1 ELSE 0)
Left == Pace[stage] + 2 * CallsLeft + Len(stack) + AsksLeft
Advances == Left \in Nat /\ Left' < Left

LEMMA Paces ==
  /\ Pace["identifiers"] = 6 /\ Pace["entries"] = 5 /\ Pace["targets"] = 4
  /\ Pace["search"] = 3 /\ Pace["views"] = 2 /\ Pace["urls"] = 1 /\ Pace["done"] = 0
BY DEF Pace

LEMMA PendingIsFinite ==
  ASSUME Inv
  PROVE  IsFiniteSet(pending) /\ Cardinality(pending) \in Nat
<1> DEFINE n == Len(Entries)
           f == [i \in 1..n |-> Entries[i].url]
           urls == {Entries[i].url : i \in DOMAIN Entries}
<1>1. n \in Nat /\ DOMAIN Entries = 1..n
  BY Shape DEF Inv
<1>2. f \in Surjection(1..n, urls)
  BY <1>1 DEF Surjection
<1>3. IsFiniteSet(urls)
  BY <1>1, <1>2, IntervalIsFinite, FS_Surjection
<1>4. pending \subseteq urls
  BY DEF Inv, TypeOK
<1> QED
  BY <1>3, <1>4, FS_Subset, FS_CardinalityType

LEMMA LeftIsNatural ==
  ASSUME Inv, WalksAreLinear
  PROVE  /\ Pace[stage] \in Nat /\ CallsLeft \in Nat /\ Len(stack) \in Nat
         /\ AsksLeft \in Nat /\ Left \in Nat
<1>1. Pace[stage] \in Nat
  BY Paces DEF Inv, TypeOK, Stages
<1>2. CallsLeft \in Nat
  <2>1. Len(Entries) \in Nat /\ Cardinality(Edges) \in Nat
    BY Shape, EdgesAreFinite, FS_CardinalityType DEF Inv
  <2>2. walks \in Nat
    BY DEF Inv, TypeOK
  <2> QED
    BY <2>1, <2>2 DEF WalksAreLinear, CallsLeft
<1>3. Len(stack) \in Nat
  <2>1. stack \in Seq(Frames)
    BY DEF Inv, TypeOK
  <2> QED
    BY <2>1
<1>4. AsksLeft \in Nat
  BY PendingIsFinite DEF AsksLeft
<1>5. \A a, b, c, d \in Nat : a + 2 * b + c + d \in Nat
  OBVIOUS
<1> QED
  BY <1>1, <1>2, <1>3, <1>4, <1>5 DEF Left

\* A call of walk is one of those left, and adds at most one frame.
LEMMA CallAdvances ==
  ASSUME Inv, WalksAreLinear, NEW frames \in Seq(Frames), NEW id, Walk(id, frames),
         Len(frames) = Len(stack), stage = "search", UNCHANGED <<journal, network>>
  PROVE  Left' < Left
<1>1. CallsLeft' = CallsLeft - 1
  <2>1. walks' = walks + 1 /\ Len(Entries)' = Len(Entries) /\ Edges' = Edges
    BY SameEdges DEF Walk, Entries
  <2>2. Len(Entries) \in Nat /\ Cardinality(Edges) \in Nat /\ walks \in Nat
    BY Shape, EdgesAreFinite, FS_CardinalityType DEF Inv, TypeOK
  <2> QED
    BY <2>1, <2>2 DEF CallsLeft
<1>2. Len(stack') \in {Len(stack), Len(stack) + 1}
  <2>1. Len(Append(frames, [id |-> id, next |-> 1])) = Len(frames) + 1
    OBVIOUS
  <2>2. stack' \in {frames, Append(frames, [id |-> id, next |-> 1])}
    BY DEF Walk
  <2> QED
    BY <2>1, <2>2
<1>3. Pace[stage'] \in {0, 3} /\ Pace[stage] = 3
  BY Paces DEF Walk, End
<1>4. AsksLeft' = AsksLeft
  BY DEF network, AsksLeft
<1>5. \A b, c, d \in Nat : \A x \in {0, 3}, y \in {c, c + 1} :
        x + 2 * (b - 1) + y + d < 3 + 2 * b + c + d
  OBVIOUS
<1> QED
  BY <1>1, <1>2, <1>3, <1>4, <1>5, LeftIsNatural DEF Left

\* A stage is followed by a later one.
LEMMA StageAdvances ==
  ASSUME Inv, WalksAreLinear,
         CheckIdentifiers \/ CheckEntries \/ CheckTargets \/ EndSearch \/ CheckViews \/ Accept
  PROVE  Left' < Left
<1>1. UNCHANGED <<journal, search, network>>
  BY DEF CheckIdentifiers, CheckEntries, CheckTargets, EndSearch, CheckViews, Accept
<1>2. CallsLeft' = CallsLeft /\ Len(stack)' = Len(stack) /\ AsksLeft' = AsksLeft
  BY <1>1, SameEdges DEF search, network, CallsLeft, AsksLeft, Entries
<1>3. Pace[stage'] \in Nat /\ Pace[stage'] < Pace[stage]
  BY Paces DEF CheckIdentifiers, CheckEntries, CheckTargets, EndSearch, CheckViews, Accept,
               Require, End
<1>4. \A a, x, b, c, d \in Nat : x < a => x + 2 * b + c + d < a + 2 * b + c + d
  OBVIOUS
<1> QED
  BY <1>2, <1>3, <1>4, LeftIsNatural DEF Left

\* A page answers for good, or for a last time by GET, or the check is over.
LEMMA AskAdvances ==
  ASSUME Inv, WalksAreLinear, AskSource
  PROVE  Left' < Left
<1>1. UNCHANGED <<journal, search>>
  BY DEF AskSource
<1>2. CallsLeft' = CallsLeft /\ Len(stack)' = Len(stack)
  BY <1>1, SameEdges DEF search, CallsLeft, Entries
<1>3. IsFiniteSet(pending) /\ Cardinality(pending) \in Nat /\ retry \subseteq pending
  BY PendingIsFinite DEF Inv, TypeOK
<1>4. CASE UNCHANGED stage /\ AsksLeft' < AsksLeft
  <2>1. AsksLeft' \in Int
    <3>1. PICK url \in pending : pending' \in {pending, pending \ {url}}
      BY <1>3 DEF AskSource, network
    <3>2. Cardinality(pending') \in Nat
      BY <1>3, <3>1, FS_Subset, FS_CardinalityType, FS_RemoveElement
    <3> QED
      BY <3>2 DEF AsksLeft
  <2>2. \A a, b, c, d \in Nat : \A x \in Int : x < d => a + 2 * b + c + x < a + 2 * b + c + d
    OBVIOUS
  <2> QED
    BY <1>2, <1>4, <2>1, <2>2, LeftIsNatural DEF Left
<1>5. CASE stage' = "done" /\ UNCHANGED network
  <2>1. AsksLeft' = AsksLeft /\ Pace[stage'] = 0 /\ Pace[stage] = 1
    BY <1>5, Paces DEF AskSource, network, AsksLeft
  <2>2. \A b, c, d \in Nat : 0 + 2 * b + c + d < 1 + 2 * b + c + d
    OBVIOUS
  <2> QED
    BY <1>2, <2>1, <2>2, LeftIsNatural DEF Left
<1>6. ASSUME NEW url \in (IF retry = {} THEN pending ELSE retry),
             pending' = pending \ {url}, retry' = {}, UNCHANGED stage
      PROVE  Left' < Left
  <2>1. url \in pending
    BY <1>3, <1>6
  <2>2. Cardinality(pending') = Cardinality(pending) - 1
    BY <1>3, <1>6, <2>1, FS_RemoveElement
  <2>3. AsksLeft' < AsksLeft
    BY <1>3, <1>6, <2>2 DEF AsksLeft
  <2> QED
    BY <1>4, <1>6, <2>3
<1>7. ASSUME retry = {}, NEW url, retry' = {url}, UNCHANGED <<pending, stage>>
      PROVE  Left' < Left
  <2>1. AsksLeft' < AsksLeft
    BY <1>3, <1>7 DEF AsksLeft
  <2> QED
    BY <1>4, <1>7, <2>1
<1> QED
  <2>1. PICK url \in (IF retry = {} THEN pending ELSE retry), answer \in Answers :
          \/ pending' = pending \ {url} /\ retry' = {} /\ UNCHANGED stage
          \/ retry = {} /\ retry' = {url} /\ UNCHANGED <<pending, stage>>
          \/ stage' = "done" /\ UNCHANGED network
    BY DEF AskSource, End
  <2> QED
    BY <1>5, <1>6, <1>7, <2>1

\* The check of a journal takes boundedly many steps, by its entries, its targets and its
\* sources, whatever the graph and whatever the servers answer: each step leaves fewer
\* (validate_supersession, check_source_url).
THEOREM EveryStepAdvances == Spec => [][Advances]_vars
<1>1. Inv /\ Counted /\ WalksAreLinear /\ [Next]_vars => [Advances]_vars
  <2> SUFFICES ASSUME Inv, WalksAreLinear, Next PROVE Advances
    OBVIOUS
  <2>1. CASE WalkRoot
    <3>1. <<>> \in Seq(Frames) /\ Len(<<>>) = Len(stack)
      BY <2>1 DEF WalkRoot
    <3> QED
      BY <2>1, <3>1, CallAdvances, LeftIsNatural DEF WalkRoot, Advances
  <2>2. CASE WalkTarget
    <3>1. Advanced \in Seq(Frames) /\ Len(Advanced) = Len(stack)
      BY <2>2, AdvancedFrames DEF WalkTarget, Inv, TypeOK
    <3> QED
      BY <2>2, <3>1, CallAdvances, LeftIsNatural DEF WalkTarget, Advanced, Advances
  <2>3. CASE Return
    <3>1. Len(stack') = Len(stack) - 1
      BY <2>3, BelowIsPrefix DEF Return, Inv, TypeOK
    <3>2. CallsLeft' = CallsLeft /\ AsksLeft' = AsksLeft /\ stage' = stage
      BY <2>3, SameEdges DEF Return, network, CallsLeft, AsksLeft, Entries
    <3>3. \A a, b, c, d \in Nat : a + 2 * b + (c - 1) + d < a + 2 * b + c + d
      OBVIOUS
    <3> QED
      BY <3>1, <3>2, <3>3, LeftIsNatural DEF Left, Advances
  <2> QED
    BY <2>1, <2>2, <2>3, StageAdvances, AskAdvances, LeftIsNatural DEF Next, Advances
<1> QED
  BY <1>1, CallsAreLinear, InitHolds, NextHolds, InitCounts, NextCounts, PTL DEF Spec

-----------------------------------------------------------------------------
(* Entries, pages and sources.                                             *)

LEMMA SamePassed ==
  ASSUME journal' = journal
  PROVE  /\ Entries' = Entries
         /\ (\A i \in DOMAIN Entries : EntryHolds(Entries[i]))'
              = (\A i \in DOMAIN Entries : EntryHolds(Entries[i]))
         /\ (\A v \in DOMAIN journal.views : MarkersHold(journal.views[v]))'
              = (\A v \in DOMAIN journal.views : MarkersHold(journal.views[v]))
BY DEF Entries, Ids, MarkersHold, EntryHolds

LEMMA InitPassed == Init => Passed
BY DEF Init, Passed

LEMMA NextPassed == Inv /\ Passed /\ [Next]_vars => Passed'
<1> SUFFICES ASSUME Inv, Passed, [Next]_vars PROVE Passed'
  OBVIOUS
<1>1. journal' = journal
  BY DEF Next, vars, CheckIdentifiers, CheckEntries, CheckTargets, WalkRoot, WalkTarget, Return,
         EndSearch, CheckViews, AskSource, Accept
<1>2. stage = "done" <=> outcome # "none"
  BY DEF Inv, SearchInv
<1> USE SamePassed, <1>1, <1>2
\* Steps that ask for nothing and accept nothing: the entries hold from the second stage
\* on, the pages from the last but one.
<1>3. CASE /\ UNCHANGED network /\ outcome' # "PASS"
           /\ stage' \in {"targets", "search", "views", "urls"} =>
                \/ stage \in {"targets", "search", "views", "urls"}
                \/ \A i \in DOMAIN Entries : EntryHolds(Entries[i])
           /\ stage' = "urls" =>
                \/ stage = "urls" \/ \A v \in DOMAIN journal.views : MarkersHold(journal.views[v])
  BY <1>3 DEF Passed, network
<1>4. CASE AskSource
  <2>1. {Entries[i].url : i \in DOMAIN Entries}' = {Entries[i].url : i \in DOMAIN Entries}
    OBVIOUS
  <2>2. pending \cup reached \subseteq pending' \cup reached'
    BY <1>4 DEF AskSource, network
  <2>3. stage = "urls" /\ outcome' # "PASS"
    BY <1>4 DEF AskSource, End
  <2> QED
    BY <1>4, <2>1, <2>2, <2>3 DEF Passed
<1>5. CASE Accept
  BY <1>5 DEF Accept, End, Passed, network
<1>6. CASE UNCHANGED vars
  BY <1>6 DEF vars, Passed, network
<1> QED
  <2>1. CASE CheckIdentifiers
    BY <1>3, <2>1 DEF CheckIdentifiers, Require, End
  <2>2. CASE CheckEntries
    BY <1>3, <2>2 DEF CheckEntries, Require, End
  <2>3. CASE CheckTargets
    BY <1>3, <2>3 DEF CheckTargets, Require, End
  <2>4. CASE WalkRoot
    BY <1>3, <2>4 DEF WalkRoot, Walk, End
  <2>5. CASE WalkTarget
    BY <1>3, <2>5 DEF WalkTarget, Walk, End
  <2>6. CASE Return
    BY <1>3, <2>6 DEF Return
  <2>7. CASE EndSearch
    BY <1>3, <2>7 DEF EndSearch
  <2>8. CASE CheckViews
    BY <1>3, <2>8 DEF CheckViews, Require, End
  <2> QED
    BY <1>4, <1>5, <1>6, <2>1, <2>2, <2>3, <2>4, <2>5, <2>6, <2>7, <2>8 DEF Next

LEMMA PassedHolds == Spec => [](journal \in Journals /\ Passed)
<1>1. Inv => journal \in Journals
  BY DEF Inv
<1> QED
  BY <1>1, InitHolds, NextHolds, InitPassed, NextPassed, PTL DEF Spec

\* Two elements before a sequence.
LEMMA TwoBefore ==
  ASSUME NEW S, NEW q \in Seq(S), NEW a, NEW b
  PROVE  LET p == <<a, b>> \o q
         IN Len(p) = 2 + Len(q) /\ p[1] = a /\ p[2] = b
<1> DEFINE T == S \cup {a, b}
<1>1. q \in Seq(T) /\ a \in T /\ b \in T
  OBVIOUS
<1> HIDE DEF T
<1>2. <<a, b>> \in Seq(T) /\ Len(<<a, b>>) = 2 /\ <<a, b>>[1] = a /\ <<a, b>>[2] = b
  BY <1>1
<1> QED
  BY <1>1, <1>2

\* What one entry that holds says of its page.
LEMMA ProvedAtTag ==
  ASSUME journal \in Journals, NEW i \in DOMAIN Entries, EntryHolds(Entries[i]),
         Entries[i].status = "PROVED"
  PROVE  /\ Entries[i].coordinate.kind = "tag"
         /\ AtTag(Entries[i].url.path, Entries[i].coordinate.tag)
         /\ ~OfBranch(Entries[i].url.path)
<1> DEFINE c == Entries[i].coordinate
           p == Entries[i].url.path
<1>1. /\ c.kind \in {"tag", "issue", "run"} /\ c.tag \in STRING /\ c.path \in Seq(STRING)
  BY JournalAssumption DEF Entries
<1>2. c.kind = "tag" /\ p \in TagPaths(c) /\ SourceIsPublic(Entries[i].url)
  BY <1>1 DEF EntryHolds, CoordinateHolds
<1> HIDE DEF c, p
<1>3. Len(p) >= 2 /\ AtTag(p, c.tag)
  <2>1. CASE c.path # <<>>
    <3>1. p = <<"blob", c.tag>> \o c.path
      BY <1>2, <2>1 DEF TagPaths
    <3>2. Len(c.path) \in Nat
      BY <1>1
    <3>3. Len(p) = 2 + Len(c.path) /\ p[1] = "blob" /\ p[2] = c.tag
      BY <1>1, <3>1, TwoBefore
    <3> QED
      BY <3>2, <3>3 DEF AtTag
  <2>2. CASE p = <<"tree", c.tag>>
    <3>1. Len(p) = 2 /\ p[1] = "tree" /\ p[2] = c.tag
      BY <2>2
    <3> QED
      BY <3>1 DEF AtTag
  <2>3. CASE p = <<"commits", c.tag>>
    <3>1. Len(p) = 2 /\ p[1] = "commits" /\ p[2] = c.tag
      BY <2>3
    <3> QED
      BY <3>1 DEF AtTag
  <2>4. CASE p = <<"releases", "tag", c.tag>>
    <3>1. Len(p) = 3 /\ p[1] = "releases" /\ p[2] = "tag" /\ p[3] = c.tag
      BY <2>4
    <3> QED
      BY <3>1 DEF AtTag
  <2> QED
    BY <1>2, <2>1, <2>2, <2>3, <2>4 DEF TagPaths
<1>4. ~OfBranch(p)
  BY <1>2, <1>3 DEF SourceIsPublic, OfBranch, p
<1> QED
  BY <1>2, <1>3, <1>4 DEF c, p

\* A journal is accepted only if what it calls proved is shown at its tag and, if the
\* path has no dots, on no mutable branch: for every journal of the schema's shape.
THEOREM ProvedIsPinned == Spec => []ProofIsPinned
<1>1. journal \in Journals /\ Passed => ProofIsPinned
  BY ProvedAtTag DEF Passed, ProofIsPinned
<1> QED
  BY <1>1, PassedHolds, PTL

\* The pages of an accepted journal show every entry as it is and nothing else.
THEOREM PagesAreTrue == Spec => []PagesTellTheTruth
<1>1. Passed => PagesTellTheTruth
  <2> SUFFICES ASSUME Passed, outcome = "PASS", NEW v \in DOMAIN journal.views,
                      NEW k \in DOMAIN journal.views[v].markers
               PROVE  \E i \in DOMAIN Entries : journal.views[v].markers[k] = MarkerOf(Entries[i])
    BY DEF PagesTellTheTruth
  <2>1. {journal.views[v].markers[m] : m \in DOMAIN journal.views[v].markers}
          = {MarkerOf(Entries[i]) : i \in DOMAIN Entries}
    BY DEF Passed, MarkersHold
  <2> QED
    BY <2>1
<1> QED
  BY <1>1, PassedHolds, PTL

\* A journal accepted with --check-urls has had an answer for every source, through
\* every order of requests, refused methods and second requests.
THEOREM SourcesAreAnswered == Spec => []SourcesAnswered
<1>1. Passed => SourcesAnswered
  BY DEF Passed, SourcesAnswered
<1> QED
  BY <1>1, PassedHolds, PTL
=============================================================================
