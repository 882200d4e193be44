-------------------------- MODULE BrowserDemoProofs --------------------------
(***************************************************************************)
(* Safety of BrowserDemo for every list of published runs, every verifier, *)
(* any number of calls of run(), any width of the view and any number of   *)
(* faults and edits of the checkout.  What the page says is not inductive: *)
(* a call that is half way has to be the only one, what it has read has to *)
(* be proved so far, and the buttons have to lie inside bytes that exist.  *)
(* At the end, what of RunsEnd is safety.                                  *)
(***************************************************************************)
EXTENDS BrowserDemo, TLAPS

\* The shapes TypeOK leaves open.
Shapes ==
  /\ faults \in [loader : 0 .. MaxLoaderFaults, fixture : 0 .. MaxFixtureFaults]
  /\ read \in [Activations -> Seq(Bytes)]

\* A call under way keeps the button disabled, and is the only one.
OneCall ==
  /\ \A r \in Activations : step[r] # Idle => rerunDisabled
  /\ \A r, q \in Activations : step[r] # Idle /\ step[q] # Idle => r = q

\* A call has gone past a twin only when the run was proved.
ProvedSoFar(reads) ==
  \A k \in 1 .. Len(reads) : k % 2 = 0 => Proved(reads[k - 1], reads[k])
Reading == \A r \in Activations : ProvedSoFar(read[r])

\* The list of one whole proof, filled before the last read.
WholeProof ==
  { <<p, IF p[2] = "passport" THEN "PASS" ELSE "BLOCK">> : p \in Paths }
    \cup {<<<<0, "probe">>, "BLOCK">>, <<<<0, "restored">>, "PASS">>}
Filled ==
  /\ results # {} => results = WholeProof
  /\ \A r \in Activations : step[r] = Reads + 1 => results # {}
  /\ status = "complete" =>
       /\ \A r \in Activations : step[r] = Idle
       /\ results # {} /\ ~clicksDisabled

\* The bytes are there before anything of the view can be clicked.
Loaded ==
  /\ ~clicksDisabled => original \in Bytes /\ current \in Bytes
  /\ DOMAIN hex # {} => current \in Bytes
  /\ DOMAIN hex \subseteq Nat

IInv == TypeOK /\ Shapes /\ OneCall /\ Reading /\ Filled /\ Loaded /\ PageShowsCurrent

-----------------------------------------------------------------------------
(* Paths, rows and the view.                                               *)

LEMMA ReadsIsNat == Reads \in Nat /\ Reads >= 2 /\ Reads = 2 * Len(Published) /\ Len(Published) \in Nat
BY DemoAssumption DEF DemoAssumption, Reads

\* Every read is of a file of the checkout.
LEMMA PathsRead ==
  ASSUME NEW k \in 1 .. Reads + 1
  PROVE  PathOf(k) \in Paths
<1>1. CASE k > Reads
  BY <1>1, ReadsIsNat DEF PathOf, Paths
<1>2. CASE k <= Reads
  <2>1. (k + 1) \div 2 \in 1 .. Len(Published)
    BY <1>2, ReadsIsNat
  <2> QED
    BY <1>2, <2>1, ReadsIsNat DEF PathOf, Paths
<1> QED
  BY <1>1, <1>2, ReadsIsNat

LEMMA FileRead ==
  ASSUME TypeOK, NEW k \in 1 .. Reads + 1
  PROVE  files[PathOf(k)] \in Bytes
BY PathsRead DEF TypeOK

\* The rows of a call that got past all twins are those of a whole proof.
LEMMA RowsAreWhole ==
  ASSUME NEW reads \in Seq(Bytes), Len(reads) = Reads, ProvedSoFar(reads)
  PROVE  Rows(reads) = WholeProof /\ Rows(reads) # {}
<1> DEFINE Word(p) == IF p[2] = "passport" THEN "PASS" ELSE "BLOCK"
<1>1. ASSUME NEW k \in 1 .. Reads
      PROVE  Verify(reads[k]) = Word(PathOf(k))
  <2>1. CASE k % 2 = 0
    <3>1. PathOf(k)[2] = "tampered"
      BY <2>1, ReadsIsNat DEF PathOf
    <3> QED
      BY <2>1, <3>1 DEF ProvedSoFar, Proved
  <2>2. CASE k % 2 = 1
    <3>1. PathOf(k)[2] = "passport"
      BY <2>2, ReadsIsNat DEF PathOf
    <3>2. k + 1 \in 1 .. Len(reads) /\ (k + 1) % 2 = 0 /\ (k + 1) - 1 = k
      BY <2>2, ReadsIsNat
    <3>3. Verify(reads[k]) = "PASS"
      <4> DEFINE j == k + 1
      <4>1. j \in 1 .. Len(reads) /\ j % 2 = 0 /\ j - 1 = k
        BY <3>2
      <4> HIDE DEF j
      <4>2. Proved(reads[j - 1], reads[j])
        BY <4>1 DEF ProvedSoFar
      <4> QED
        BY <4>1, <4>2 DEF Proved
    <3> QED
      BY <3>1, <3>3
  <2> QED
    BY <2>1, <2>2
<1>2. Verify(reads[1]) = "PASS"
  <2>1. 1 \in 1 .. Reads /\ 2 \in 1 .. Len(reads) /\ 2 % 2 = 0 /\ 2 - 1 = 1
    BY ReadsIsNat
  <2> QED
    BY <2>1 DEF ProvedSoFar, Proved
<1>3. ASSUME NEW p \in Paths
      PROVE  \E k \in 1 .. Reads : PathOf(k) = p
  <2>1. PICK i \in 1 .. Len(Published), kind \in {"passport", "tampered"} : p = <<i, kind>>
    BY DEF Paths
  <2>2. CASE kind = "passport"
    <3> DEFINE k == 2 * i - 1
    <3>1. k \in 1 .. Reads /\ k % 2 = 1 /\ (k + 1) \div 2 = i
      BY ReadsIsNat
    <3> HIDE DEF k
    <3>2. PathOf(k) = p
      BY <2>1, <2>2, <3>1, ReadsIsNat DEF PathOf
    <3> QED
      BY <3>1, <3>2
  <2>3. CASE kind = "tampered"
    <3> DEFINE k == 2 * i
    <3>1. k \in 1 .. Reads /\ k % 2 = 0 /\ (k + 1) \div 2 = i
      BY ReadsIsNat
    <3> HIDE DEF k
    <3>2. PathOf(k) = p
      BY <2>1, <2>3, <3>1, ReadsIsNat DEF PathOf
    <3> QED
      BY <3>1, <3>2
  <2> QED
    BY <2>2, <2>3
<1>4. { <<PathOf(k), Verify(reads[k])>> : k \in 1 .. Reads } = { <<p, Word(p)>> : p \in Paths }
  <2>1. \A k \in 1 .. Reads : PathOf(k) \in Paths
    BY PathsRead, ReadsIsNat
  <2> QED
    BY <1>1, <1>3, <2>1
<1> QED
  BY <1>2, <1>4 DEF Rows, WholeProof

\* The rendered view lies inside the bytes and shows them.
LEMMA Rendered ==
  ASSUME NEW b \in Bytes, NEW start \in Nat, RenderHexWindow(b, start)
  PROVE  /\ viewStart' \in Nat /\ DOMAIN hex' \subseteq Nat
         /\ \A n \in DOMAIN hex' : n < Size(b) /\ hex'[n] = ByteAt(b, n)
<1>1. Size(b) \in Nat /\ Window \in Nat \ {0}
  BY DemoAssumption DEF DemoAssumption, Size, Bytes
<1> DEFINE size == Size(b)
<1> DEFINE last == IF size = 0 THEN 0 ELSE size - 1
<1> DEFINE from == IF start > last THEN last ELSE start
<1> DEFINE end == IF from + Window < size THEN from + Window ELSE size
<1>2. viewStart' = from /\ hex' = [n \in from .. end - 1 |-> ByteAt(b, n)]
  BY DEF RenderHexWindow
<1>3. from \in Nat /\ end \in Nat /\ end <= size
  BY <1>1
<1> HIDE DEF from, end
<1>4. \A n \in from .. end - 1 : n \in Nat /\ n < size
  BY <1>1, <1>3
<1> QED
  BY <1>2, <1>3, <1>4

\* The bytes with one more bit turned are bytes.
LEMMA FlipsAreBytes ==
  ASSUME NEW b \in Bytes, NEW n \in Nat
  PROVE  FlipByteAtOffset(b, n) \in Bytes
BY DEF Bytes, FlipByteAtOffset

-----------------------------------------------------------------------------
(* The steps.                                                              *)

LEMMA InitIInv == Init => IInv
<1> SUFFICES ASSUME Init PROVE IInv
  OBVIOUS
<1>1. files \in [Paths -> Bytes]
  <2>1. \A p \in Paths : p[1] \in 1 .. Len(Published) /\ p[2] \in {"passport", "tampered"}
    BY DEF Paths
  <2>2. \A i \in 1 .. Len(Published) :
          Published[i]["passport"] \in Bytes /\ Published[i]["tampered"] \in Bytes
    <3>1. \A i \in 1 .. Len(Published) : Published[i] \in [passport : Bytes, tampered : Bytes]
      <4> DEFINE Run == [passport : Bytes, tampered : Bytes]
      <4>1. Published \in Seq(Run)
        BY DemoAssumption DEF DemoAssumption
      <4> HIDE DEF Run
      <4>2. \A i \in 1 .. Len(Published) : Published[i] \in Run
        BY <4>1
      <4> QED
        BY <4>2 DEF Run
    <3> QED
      BY <3>1
  <2>3. \A p \in Paths : Published[p[1]][p[2]] \in Bytes
    BY <2>1, <2>2
  <2> QED
    BY <2>3 DEF Init
<1>2. TypeOK /\ Shapes
  <2>1. \A r \in Activations : read[r] = << >> /\ step[r] = 0
    BY DEF Init, Idle
  <2>2. Len(<< >>) = 0 /\ << >> \in Seq(Bytes)
    OBVIOUS
  <2>3. /\ step \in [Activations -> States] /\ read \in [Activations -> Seq(Bytes)]
        /\ \A r \in Activations :
             Len(read[r]) = IF step[r] \in 1 .. Reads + 1 THEN step[r] - 1 ELSE 0
    BY <2>1, <2>2, ReadsIsNat DEF Init, States, Idle
  <2>4. /\ faults \in [loader : 0 .. MaxLoaderFaults, fixture : 0 .. MaxFixtureFaults]
        /\ edits \in 0 .. MaxEdits /\ runtime \in BOOLEAN /\ asked \in 0 .. Deadline
    BY DemoAssumption DEF Init, DemoAssumption
  <2> QED
    BY <1>1, <2>3, <2>4 DEF Init, TypeOK, Shapes
<1>3. OneCall /\ Reading /\ Filled /\ Loaded /\ PageShowsCurrent
  BY ReadsIsNat
     DEF Init, OneCall, Reading, ProvedSoFar, Filled, Loaded, PageShowsCurrent, Idle
<1> QED
  BY <1>2, <1>3 DEF IInv

\* What a step of the loader or of the checkout leaves alone.
LEMMA PageKept ==
  ASSUME IInv, UNCHANGED <<calls, interactive>>
  PROVE  OneCall' /\ Reading' /\ Filled' /\ Loaded' /\ PageShowsCurrent'
BY DEF IInv, calls, interactive, OneCall, Reading, Filled, Loaded, PageShowsCurrent

LEMMA ReplaceKeeps ==
  ASSUME IInv, NEW p \in Paths, NEW b \in Replacements, Replace(p, b)
  PROVE  IInv'
<1>1. files' \in [Paths -> Bytes] /\ edits' \in 0 .. MaxEdits
  BY DemoAssumption DEF IInv, TypeOK, Replace, DemoAssumption
<1>2. TypeOK' /\ Shapes'
  BY <1>1 DEF IInv, TypeOK, Shapes, Replace, loader, calls, interactive
<1> QED
  BY <1>2, PageKept DEF Replace, IInv

LEMMA LoaderKeeps ==
  ASSUME IInv, LoadNext \/ GoStarts \/ PollReady \/ PollAgain \/ PollEnds
  PROVE  IInv'
<1>1. loading' \in {"none", "ready", "failed", "polling"} \cup DOMAIN AfterLoad
  BY DEF IInv, TypeOK, LoadNext, GoStarts, PollReady, PollAgain, PollEnds, LoadFails, AfterLoad
<1>2. asked' \in 0 .. Deadline /\ goReady' \in BOOLEAN
  <2>1. asked \in 0 .. Deadline /\ goReady \in BOOLEAN /\ Deadline \in Nat
    BY DemoAssumption DEF IInv, TypeOK, DemoAssumption
  <2>2. CASE LoadNext \/ PollReady \/ PollEnds
    BY <2>1, <2>2 DEF LoadNext, PollReady, PollEnds, LoadFails
  <2>3. CASE GoStarts
    BY <2>1, <2>3 DEF GoStarts
  <2>4. CASE PollAgain
    BY <2>1, <2>4 DEF PollAgain
  <2> QED
    BY <2>2, <2>3, <2>4
<1>3. UNCHANGED <<environment, calls, interactive>>
  BY DEF LoadNext, GoStarts, PollReady, PollAgain, PollEnds, LoadFails
<1>4. TypeOK' /\ Shapes'
  BY <1>1, <1>2, <1>3 DEF IInv, TypeOK, Shapes, environment, calls, interactive
<1> QED
  BY <1>4, PageKept
     DEF IInv, LoadNext, GoStarts, PollReady, PollAgain, PollEnds, LoadFails

\* A failed request is counted within its bound.
LEMMA FaultCounts ==
  ASSUME Shapes, NEW kind \in {"loader", "fixture"}, Fault(kind)
  PROVE  faults' \in [loader : 0 .. MaxLoaderFaults, fixture : 0 .. MaxFixtureFaults]
BY DemoAssumption DEF Shapes, Fault, DemoAssumption

LEMMA LoadFaultKeeps ==
  ASSUME IInv, LoadFault
  PROVE  IInv'
<1>1. TypeOK' /\ Shapes'
  BY FaultCounts DEF IInv, TypeOK, Shapes, LoadFault, Fault, LoadFails, calls, interactive
<1> QED
  BY <1>1, PageKept DEF IInv, LoadFault, LoadFails

LEMMA BeginKeeps ==
  ASSUME IInv, NEW r \in Activations, Begin(r)
  PROVE  IInv'
<1>1. \A q \in Activations : step[q] = Idle
  BY DEF IInv, OneCall, Begin, CanBegin
<1>2. \A q \in Activations : step'[q] # Idle => q = r /\ step'[q] = Loading
  BY <1>1 DEF IInv, TypeOK, Begin
<1>3. TypeOK' /\ Shapes'
  BY DemoAssumption, ReadsIsNat
     DEF IInv, TypeOK, Shapes, Begin, CanBegin, DemoAssumption, States, Idle, Loading,
         AfterLoad, environment, interactive
<1>4. OneCall' /\ Reading'
  BY <1>2 DEF IInv, OneCall, Reading, Begin
<1>5. Filled' /\ Loaded' /\ PageShowsCurrent'
  BY <1>2, ReadsIsNat
     DEF IInv, Filled, Loaded, PageShowsCurrent, Begin, Loading, Idle, interactive
<1> QED
  BY <1>3, <1>4, <1>5 DEF IInv

\* A call that ends with an error leaves the page as it was.
LEMMA FailKeeps ==
  ASSUME IInv, NEW r \in Activations, step[r] # Idle, Fail(r),
         UNCHANGED <<results, interactive>>
  PROVE  /\ step' \in [Activations -> States] /\ (read \in [Activations -> Seq(Bytes)])'
         /\ \A q \in Activations :
              Len(read'[q]) = IF step'[q] \in 1 .. Reads + 1 THEN step'[q] - 1 ELSE 0
         /\ status' = "failed" /\ rerunDisabled' \in BOOLEAN
         /\ OneCall' /\ Reading' /\ Filled' /\ Loaded' /\ PageShowsCurrent'
<1>1. /\ step' = [step EXCEPT ![r] = Idle] /\ read' = [read EXCEPT ![r] = << >>]
      /\ status' = "failed" /\ rerunDisabled' = FALSE
  BY DEF Fail
<1>2. Len(<< >>) = 0 /\ << >> \in Seq(Bytes) /\ ProvedSoFar(<< >>)
  BY DEF ProvedSoFar
<1>3. \A q \in Activations : step'[q] = Idle
  BY <1>1 DEF IInv, OneCall, TypeOK
<1>4. step' \in [Activations -> States] /\ (read \in [Activations -> Seq(Bytes)])'
  BY <1>1, <1>2 DEF IInv, TypeOK, Shapes, States
<1>5. \A q \in Activations :
        Len(read'[q]) = IF step'[q] \in 1 .. Reads + 1 THEN step'[q] - 1 ELSE 0
  BY <1>1, <1>2 DEF IInv, TypeOK, Shapes, Idle
<1>6. OneCall' /\ Reading'
  BY <1>1, <1>2, <1>3 DEF IInv, OneCall, Reading, Shapes
<1>7. Filled'
  <2>1. Reads + 1 # Idle /\ Reads' = Reads /\ WholeProof' = WholeProof
    BY ReadsIsNat DEF Idle, Reads, WholeProof, Paths
  <2> QED
    BY <1>1, <1>3, <2>1 DEF IInv, Filled
<1>8. Loaded' /\ PageShowsCurrent'
  BY DEF IInv, Loaded, PageShowsCurrent, interactive
<1> QED
  BY <1>1, <1>4, <1>5, <1>6, <1>7, <1>8

LEMMA ResumeKeeps ==
  ASSUME IInv, NEW r \in Activations, Resume(r)
  PROVE  IInv'
<1>1. CASE loading = "ready" /\ step' = [step EXCEPT ![r] = 1]
           /\ UNCHANGED <<read, status, rerunDisabled>>
  <2>1. step[r] = Loading /\ Loading # Idle
    BY DEF Resume, Loading, Idle
  <2>2. TypeOK' /\ Shapes'
    BY <1>1, ReadsIsNat
       DEF IInv, TypeOK, Shapes, Resume, States, Loading, environment, loader, interactive
  <2>3. OneCall' /\ Reading'
    BY <1>1, <2>1 DEF IInv, OneCall, Reading, TypeOK
  <2>4. Filled' /\ Loaded' /\ PageShowsCurrent'
    BY <1>1, <2>1, ReadsIsNat
       DEF IInv, Filled, Loaded, PageShowsCurrent, Resume, TypeOK, interactive
  <2> QED
    BY <2>2, <2>3, <2>4 DEF IInv
<1>2. CASE Fail(r)
  <2>1. step[r] # Idle /\ UNCHANGED <<results, interactive, environment, loader>>
    BY DEF Resume, Loading, Idle
  <2>2. TypeOK' /\ Shapes'
    BY <1>2, <2>1, FailKeeps DEF IInv, TypeOK, Shapes, environment, loader, interactive
  <2> QED
    BY <1>2, <2>1, <2>2, FailKeeps DEF IInv
<1> QED
  BY <1>1, <1>2 DEF Resume

LEMMA ReadFaultKeeps ==
  ASSUME IInv, NEW r \in Activations, ReadFault(r)
  PROVE  IInv'
<1>1. step[r] # Idle /\ UNCHANGED <<results, interactive, loader>> /\ Fail(r)
  BY DEF ReadFault, Idle
<1>2. TypeOK' /\ Shapes'
  BY <1>1, FailKeeps, FaultCounts
     DEF IInv, TypeOK, Shapes, ReadFault, Fault, loader, interactive
<1> QED
  BY <1>1, <1>2, FailKeeps DEF IInv

\* The last read of a call fills the list, and no other touches it.
LEMMA ReadFixtureKeeps ==
  ASSUME IInv, NEW r \in Activations, ReadFixture(r)
  PROVE  IInv'
<1> DEFINE Next1(k) == Append(read[r], files[PathOf(k)])
<1> DEFINE ok(k) == /\ k % 2 = 0 => Proved(Next1(k)[k - 1], Next1(k)[k])
                    /\ k = Reads => SomeFlipBlocks(Next1(k)[1])
<1>1. PICK k \in 1 .. Reads :
        /\ step[r] = k
        /\ \/ /\ ok(k)
              /\ step' = [step EXCEPT ![r] = k + 1]
              /\ read' = [read EXCEPT ![r] = Next1(k)]
              /\ results' = IF k = Reads THEN Rows(Next1(k)) ELSE results
              /\ UNCHANGED <<status, rerunDisabled>>
           \/ ~ok(k) /\ Fail(r) /\ UNCHANGED results
        /\ UNCHANGED <<environment, loader, interactive>>
  BY DEF ReadFixture
<1>2. step[r] # Idle
  BY <1>1 DEF Idle
<1> DEFINE reads == Next1(k)
<1>3. /\ reads \in Seq(Bytes) /\ Len(reads) = k /\ Len(read[r]) = k - 1
      /\ \A j \in 1 .. k - 1 : reads[j] = read[r][j]
  <2>1. read[r] \in Seq(Bytes) /\ Len(read[r]) = k - 1
    <3> HIDE DEF Next1, ok
    <3>1. /\ read \in [Activations -> Seq(Bytes)]
          /\ Len(read[r]) = IF step[r] \in 1 .. Reads + 1 THEN step[r] - 1 ELSE 0
      BY DEF IInv, TypeOK, Shapes
    <3>2. step[r] = k /\ k \in 1 .. Reads + 1
      BY <1>1, ReadsIsNat
    <3> QED
      BY <3>1, <3>2
  <2>2. files[PathOf(k)] \in Bytes
    BY FileRead, ReadsIsNat DEF IInv
  <2> QED
    BY <2>1, <2>2
<1>4. CASE /\ ok(k)
           /\ step' = [step EXCEPT ![r] = k + 1]
           /\ read' = [read EXCEPT ![r] = reads]
           /\ results' = IF k = Reads THEN Rows(reads) ELSE results
           /\ UNCHANGED <<status, rerunDisabled>>
  <2>1. step' \in [Activations -> States] /\ read' \in [Activations -> Seq(Bytes)]
    BY <1>3, <1>4, ReadsIsNat, SMTT(30) DEF IInv, TypeOK, Shapes, States
  <2>2. \A q \in Activations :
          Len(read'[q]) = IF step'[q] \in 1 .. Reads + 1 THEN step'[q] - 1 ELSE 0
    <3> TAKE q \in Activations
    <3>1. CASE q = r
      <4>1. step'[q] = k + 1 /\ read'[q] = reads
        BY <1>4, <3>1 DEF IInv, TypeOK, Shapes
      <4> QED
        BY <1>3, <4>1, ReadsIsNat
    <3>2. CASE q # r
      BY <1>4, <3>2 DEF IInv, TypeOK, Shapes
    <3> QED
      BY <3>1, <3>2
  <2>3. TypeOK' /\ Shapes'
    BY <1>1, <1>4, <2>1, <2>2, SMTT(30) DEF IInv, TypeOK, Shapes, environment, loader, interactive
  <2>4. OneCall'
    BY <1>2, <1>4 DEF IInv, TypeOK, OneCall
  <2>5. ProvedSoFar(reads)
    <3>1. ASSUME NEW j \in 1 .. k, j % 2 = 0
          PROVE  Proved(reads[j - 1], reads[j])
      <4>1. CASE j = k
        BY <1>4, <3>1, <4>1
      <4>2. CASE j < k
        <5>1. j \in 1 .. k - 1 /\ j - 1 \in 1 .. k - 1
          <6>1. j # 1
            BY <3>1
          <6> QED
            BY <4>2, <6>1, ReadsIsNat
        <5>2. Proved(read[r][j - 1], read[r][j])
          BY <1>3, <3>1, <5>1 DEF IInv, Reading, ProvedSoFar
        <5> QED
          BY <1>3, <5>1, <5>2
      <4>3. j = k \/ j < k
        BY ReadsIsNat
      <4> QED
        BY <4>1, <4>2, <4>3
    <3> QED
      BY <1>3, <3>1 DEF ProvedSoFar
  <2>6. Reading'
    BY <1>4, <2>5 DEF IInv, Reading, Shapes
  <2>7. results' # {} => results' = WholeProof
    BY <1>3, <1>4, <2>5, RowsAreWhole DEF IInv, Filled
  <2>8. k = Reads => results' # {}
    BY <1>3, <1>4, <2>5, RowsAreWhole
  <2>9. status # "complete"
    BY <1>2 DEF IInv, Filled
  <2>10. Filled'
    <3>1. \A q \in Activations : step'[q] = Reads + 1 => results' # {}
      <4> TAKE q \in Activations
      <4> HAVE step'[q] = Reads + 1
      <4>1. CASE q = r
        BY <1>4, <2>8, <4>1, ReadsIsNat DEF IInv, TypeOK
      <4>2. CASE q # r
        <5>1. step[q] # Idle
          BY <1>4, <4>2, ReadsIsNat DEF IInv, TypeOK, Idle
        <5> QED
          BY <1>2, <4>2, <5>1 DEF IInv, OneCall
      <4> QED
        BY <4>1, <4>2
    <3> QED
      BY <1>4, <2>7, <2>9, <3>1 DEF Filled
  <2>11. Loaded' /\ PageShowsCurrent'
    BY <1>1 DEF IInv, Loaded, PageShowsCurrent, interactive
  <2> QED
    BY <2>3, <2>4, <2>6, <2>10, <2>11 DEF IInv
<1>5. CASE Fail(r) /\ UNCHANGED results
  <2>1. TypeOK' /\ Shapes'
    BY <1>1, <1>2, <1>5, FailKeeps, SMTT(30)
       DEF IInv, TypeOK, Shapes, environment, loader, interactive
  <2> QED
    BY <1>1, <1>2, <1>5, <2>1, FailKeeps DEF IInv
<1> QED
  BY <1>1, <1>4, <1>5

\* The view after its last read: the bytes, their verdict and the buttons.
LEMMA PrepareHexDemoKeeps ==
  ASSUME IInv, NEW r \in Activations, PrepareHexDemo(r)
  PROVE  IInv'
<1> DEFINE b == files[PathOf(Reads + 1)]
<1>1. b \in Bytes
  BY FileRead, ReadsIsNat DEF IInv
<1>2. /\ original' = b /\ current' = b /\ verdict' = Says("Loaded", b)
      /\ RenderHexWindow(b, 0) /\ clicksDisabled' = FALSE
      /\ step' = [step EXCEPT ![r] = Idle] /\ read' = [read EXCEPT ![r] = << >>]
      /\ status' = "complete" /\ rerunDisabled' = FALSE
      /\ UNCHANGED <<environment, loader, results>>
  BY DEF PrepareHexDemo
<1> HIDE DEF b
<1>3. step[r] = Reads + 1 /\ step[r] # Idle
  BY ReadsIsNat DEF PrepareHexDemo, Idle
<1>4. \A q \in Activations : step'[q] = Idle
  BY <1>2, <1>3 DEF IInv, OneCall, TypeOK
<1>5. Len(<< >>) = 0 /\ << >> \in Seq(Bytes) /\ ProvedSoFar(<< >>)
  BY DEF ProvedSoFar
<1>6. Loaded' /\ PageShowsCurrent'
  BY <1>1, <1>2, Rendered DEF Loaded, PageShowsCurrent, Says
<1>7. TypeOK' /\ Shapes'
  <2>1. step' \in [Activations -> States] /\ read' \in [Activations -> Seq(Bytes)]
    BY <1>2, <1>5 DEF IInv, TypeOK, Shapes, States
  <2>2. \A q \in Activations : Len(read'[q]) = 0 \/ q # r
    BY <1>2, <1>5 DEF IInv, Shapes
  <2>3. \A q \in Activations :
          Len(read'[q]) = IF step'[q] \in 1 .. Reads + 1 THEN step'[q] - 1 ELSE 0
    BY <1>2, <2>2 DEF IInv, TypeOK, Shapes, Idle
  <2> QED
    BY <1>1, <1>2, <2>1, <2>3, Rendered DEF IInv, TypeOK, Shapes, environment, loader
<1>8. OneCall' /\ Reading'
  BY <1>2, <1>4, <1>5 DEF IInv, OneCall, Reading, Shapes
<1>9. Filled'
  BY <1>2, <1>3, <1>4, ReadsIsNat DEF IInv, Filled, Idle
<1> QED
  BY <1>6, <1>7, <1>8, <1>9 DEF IInv

\* What a click leaves alone.
LEMMA CallsKept ==
  ASSUME IInv, UNCHANGED <<environment, loader, calls, clicksDisabled>>
  PROVE  /\ OneCall' /\ Reading' /\ Filled' /\ Shapes'
         /\ original' \in Bytes \cup {NoBytes} /\ current' \in Bytes \cup {NoBytes}
              /\ viewStart' \in Nat => TypeOK'
BY DEF IInv, OneCall, Reading, Filled, Shapes, TypeOK, environment, loader, calls

LEMMA ClickKeeps ==
  ASSUME IInv, Click
  PROVE  IInv'
<1>1. CASE RestorePublishedBytes
  <2>1. original \in Bytes
    BY <1>1 DEF RestorePublishedBytes, IInv, Loaded
  <2>2. viewStart \in Nat
    BY DEF IInv, TypeOK
  <2>3. Loaded' /\ PageShowsCurrent'
    BY <1>1, <2>1, <2>2, Rendered DEF RestorePublishedBytes, Loaded, PageShowsCurrent, Says
  <2> QED
    BY <1>1, <2>1, <2>2, <2>3, Rendered, CallsKept DEF RestorePublishedBytes, IInv
<1>2. ASSUME NEW n \in Offsets, FlipSelectedByte(n)
      PROVE  IInv'
  <2> DEFINE b == FlipByteAtOffset(current, n)
  <2>1. n \in Nat /\ current \in Bytes
    BY <1>2 DEF FlipSelectedByte, IInv, Loaded
  <2>2. b \in Bytes /\ viewStart \in Nat
    BY <2>1, FlipsAreBytes DEF IInv, TypeOK
  <2>3. /\ current' = b /\ verdict' = Says("Flipped", b) /\ RenderHexWindow(b, viewStart)
        /\ UNCHANGED <<environment, loader, calls, clicksDisabled, original>>
    BY <1>2 DEF FlipSelectedByte
  <2> HIDE DEF b
  <2>4. Loaded' /\ PageShowsCurrent'
    BY <2>2, <2>3, Rendered DEF Loaded, PageShowsCurrent, Says, IInv
  <2>5. original \in Bytes \cup {NoBytes}
    BY DEF IInv, TypeOK
  <2> QED
    BY <2>2, <2>3, <2>4, <2>5, Rendered, CallsKept DEF IInv
<1>3. ASSUME NEW n \in Offsets, ShowSelectedByte(n)
      PROVE  IInv'
  <2>1. current \in Bytes /\ original \in Bytes
    BY <1>3 DEF ShowSelectedByte, IInv, Loaded
  <2>2. /\ ~clicksDisabled
        /\ UNCHANGED <<environment, loader, calls, clicksDisabled, original, current>>
    BY <1>3 DEF ShowSelectedByte
  <2>3. CASE n \in 0 .. Size(current) - 1
    <3>1. (n \div Window) * Window \in Nat
      <4>1. n \in Nat /\ Window \in Nat \ {0} /\ n \div Window \in Nat
        BY <2>3, DemoAssumption DEF DemoAssumption
      <4> QED
        BY <4>1
    <3>2. RenderHexWindow(current, (n \div Window) * Window) /\ UNCHANGED verdict
      BY <1>3, <2>3 DEF ShowSelectedByte
    <3>3. Loaded' /\ PageShowsCurrent' /\ viewStart' \in Nat
      BY <2>1, <2>2, <3>1, <3>2, Rendered DEF Loaded, PageShowsCurrent, IInv
    <3> QED
      BY <2>1, <2>2, <3>3, CallsKept DEF IInv
  <2>4. CASE n \notin 0 .. Size(current) - 1
    <3>1. verdict' = NoVerdict /\ UNCHANGED <<viewStart, hex>>
      BY <1>3, <2>4 DEF ShowSelectedByte
    <3>2. Loaded' /\ PageShowsCurrent' /\ viewStart' \in Nat
      BY <2>1, <2>2, <3>1 DEF Loaded, PageShowsCurrent, IInv, TypeOK
    <3> QED
      BY <2>1, <2>2, <3>2, CallsKept DEF IInv
  <2> QED
    BY <2>3, <2>4
<1> QED
  BY <1>1, <1>2, <1>3 DEF Click

LEMMA NextKeeps == IInv /\ [Next]_vars => IInv'
<1> SUFFICES ASSUME IInv, [Next]_vars PROVE IInv'
  OBVIOUS
<1>1. CASE LoadNext \/ GoStarts \/ PollReady \/ PollAgain \/ PollEnds
  BY <1>1, LoaderKeeps
<1>2. CASE LoadFault
  BY <1>2, LoadFaultKeeps
<1>3. ASSUME NEW r \in Activations, Begin(r) PROVE IInv'
  BY <1>3, BeginKeeps
<1>4. ASSUME NEW r \in Activations, Resume(r) PROVE IInv'
  BY <1>4, ResumeKeeps
<1>5. ASSUME NEW r \in Activations, ReadFixture(r) PROVE IInv'
  BY <1>5, ReadFixtureKeeps
<1>6. ASSUME NEW r \in Activations, PrepareHexDemo(r) PROVE IInv'
  BY <1>6, PrepareHexDemoKeeps
<1>7. ASSUME NEW r \in Activations, ReadFault(r) PROVE IInv'
  BY <1>7, ReadFaultKeeps
<1>8. CASE Click
  BY <1>8, ClickKeeps
<1>9. ASSUME NEW p \in Paths, NEW b \in Replacements, Replace(p, b) PROVE IInv'
  BY <1>9, ReplaceKeeps
<1>10. CASE UNCHANGED vars
  <2>1. TypeOK' /\ Shapes'
    BY <1>10 DEF vars, IInv, TypeOK, Shapes, environment, loader, calls, interactive
  <2> QED
    BY <1>10, <2>1, PageKept DEF vars, IInv
<1> QED
  BY <1>1, <1>2, <1>3, <1>4, <1>5, <1>6, <1>7, <1>8, <1>9, <1>10 DEF Next, Page, PageLoad

-----------------------------------------------------------------------------
(* The theorems.                                                           *)

THEOREM Invariant == Spec => []IInv
BY InitIInv, NextKeeps, PTL DEF Spec

\* Every variable of the page has its type, and a call that awaits its k-th read holds
\* the k - 1 files it has read.
THEOREM TypeCorrect == Spec => []TypeOK
<1>1. IInv => TypeOK
  BY DEF IInv
<1> QED
  BY <1>1, Invariant, PTL

\* The verdict under the view is the verifier's for the bytes the page holds, and the
\* buttons show those bytes, whatever is clicked while a run waits.
THEOREM PageIsCurrent == Spec => []PageShowsCurrent
<1>1. IInv => PageShowsCurrent
  BY DEF IInv
<1> QED
  BY <1>1, Invariant, PTL

\* "Offline verification complete" is said of a whole proof, with no call under way
\* that could still fail.
THEOREM CompletionIsEarned == Spec => []CompleteIsEarned
<1>1. IInv => CompleteIsEarned
  BY DEF IInv, Filled, WholeProof, CompleteIsEarned
<1> QED
  BY <1>1, Invariant, PTL

-----------------------------------------------------------------------------
(* A disabled button is enabled again: what of it is safety.               *)

\* A call is under way whenever the button is disabled, and one waits for the loader
\* whenever the loader is at work.
AtWork == {"manifest", "chunks", "instance", "polling"}
SomeCall == rerunDisabled => \E r \in Activations : step[r] # Idle
SomeWaiter ==
  /\ loading \in AtWork => \E r \in Activations : step[r] = Loading
  /\ loading = "none" => \A r \in Activations : step[r] = Idle

\* The button is disabled only while there is a call that a step of the page carries on:
\* one that reads, or one whose promise is settled or being worked at.
ButtonIsOwed ==
  rerunDisabled => \E r \in Activations : /\ step[r] \in {Loading} \cup 1 .. Reads + 1
                                          /\ step[r] = Loading => loading # "none"

\* The steps of the page that a call has before it at most.
LoadLeft == IF loading = "manifest" THEN Deadline + 4 ELSE
            IF loading = "chunks" THEN Deadline + 3 ELSE
            IF loading = "instance" THEN Deadline + 2 ELSE
            IF loading = "polling" THEN Deadline - asked + 1 ELSE 0
CallLeft(r) == IF step[r] = Loading THEN LoadLeft + Reads + 3 ELSE Reads + 2 - step[r]

\* A step of the page brings the call under way nearer to its end, or ends it and enables
\* the button; nothing that anybody else does takes it back.
CallsAdvance ==
  \A r \in Activations : step[r] # Idle =>
    \/ ~rerunDisabled' /\ step'[r] = Idle
    \/ /\ step'[r] # Idle /\ CallLeft(r) \in Nat
       /\ CallLeft(r)' <= CallLeft(r)
       /\ Page => CallLeft(r)' < CallLeft(r)

LEMMA Steps ==
  /\ AtWork = {"manifest", "chunks", "instance", "polling"}
  /\ DOMAIN AfterLoad = {"manifest", "chunks", "instance"}
  /\ AfterLoad["manifest"] = "chunks" /\ AfterLoad["chunks"] = "instance"
  /\ AfterLoad["instance"] = "polling"
  /\ Idle = 0 /\ Loading = -1 /\ Deadline \in Nat
BY DemoAssumption DEF AtWork, AfterLoad, Idle, Loading, DemoAssumption

LEMMA CallsKeptGoing ==
  IInv /\ SomeCall /\ SomeWaiter /\ [Next]_vars => SomeCall' /\ SomeWaiter'
<1> SUFFICES ASSUME IInv, SomeCall, SomeWaiter, [Next]_vars PROVE SomeCall' /\ SomeWaiter'
  OBVIOUS
<1>0. /\ step \in [Activations -> States] /\ \A r \in Activations : step[r] # Idle => rerunDisabled
      /\ \A r, q \in Activations : step[r] # Idle /\ step[q] # Idle => r = q
  BY DEF IInv, TypeOK, OneCall
<1>1. CASE LoadNext \/ LoadFault \/ PollReady \/ PollAgain \/ PollEnds \/ GoStarts
  BY <1>1, Steps DEF LoadNext, LoadFault, LoadFails, Fault, PollReady, PollAgain, PollEnds,
     GoStarts, calls, SomeCall, SomeWaiter
<1>2. ASSUME NEW r \in Activations, Begin(r) PROVE SomeCall' /\ SomeWaiter'
  BY <1>0, <1>2, Steps DEF Begin, CanBegin, SomeCall, SomeWaiter
<1>3. ASSUME NEW r \in Activations, Fail(r), loading' = loading, step[r] # Idle,
             loading \notin AtWork \/ step[r] # Loading
      PROVE  SomeCall' /\ SomeWaiter'
  BY <1>0, <1>3, Steps DEF Fail, SomeCall, SomeWaiter
<1>4. ASSUME NEW r \in Activations, NEW k, k # Idle, k # Loading, step[r] # Idle,
             step' = [step EXCEPT ![r] = k], loading' = loading,
             loading \notin AtWork \/ step[r] # Loading
      PROVE  SomeCall' /\ SomeWaiter'
  BY <1>0, <1>4, Steps DEF SomeCall, SomeWaiter
<1>5. ASSUME NEW r \in Activations, Resume(r) PROVE SomeCall' /\ SomeWaiter'
  <2>1. step[r] # Idle /\ loading' = loading /\ loading \notin AtWork
    BY <1>5, Steps DEF Resume, loader
  <2>2. CASE Fail(r)
    BY <1>3, <2>1, <2>2
  <2>3. CASE step' = [step EXCEPT ![r] = 1]
    <3>1. 1 # Idle /\ 1 # Loading
      BY Steps
    <3> QED
      BY <1>4, <2>1, <2>3, <3>1
  <2> QED
    BY <1>5, <2>2, <2>3 DEF Resume
<1>6. ASSUME NEW r \in Activations, ReadFixture(r) PROVE SomeCall' /\ SomeWaiter'
  <2>1. PICK k \in 1 .. Reads :
          /\ step[r] = k
          /\ step' = [step EXCEPT ![r] = k + 1] \/ Fail(r)
    BY <1>6 DEF ReadFixture
  <2>2. /\ step[r] # Idle /\ step[r] # Loading /\ k + 1 # Idle /\ k + 1 # Loading
        /\ loading' = loading
    BY <1>6, <2>1, Steps, ReadsIsNat DEF ReadFixture, loader
  <2> QED
    BY <1>3, <1>4, <2>1, <2>2
<1>7. ASSUME NEW r \in Activations, ReadFault(r) PROVE SomeCall' /\ SomeWaiter'
  <2>1. step[r] # Idle /\ step[r] # Loading /\ loading' = loading /\ Fail(r)
    BY <1>7, Steps, ReadsIsNat DEF ReadFault, loader
  <2> QED
    BY <1>3, <2>1
<1>8. ASSUME NEW r \in Activations, PrepareHexDemo(r) PROVE SomeCall' /\ SomeWaiter'
  <2>1. /\ step[r] # Idle /\ step[r] # Loading /\ loading' = loading
        /\ step' = [step EXCEPT ![r] = Idle] /\ rerunDisabled' = FALSE
    BY <1>8, Steps, ReadsIsNat DEF PrepareHexDemo, loader
  <2> QED
    BY <1>0, <2>1, Steps DEF SomeCall, SomeWaiter
<1>9. CASE UNCHANGED <<loader, calls>>
  BY <1>9 DEF loader, calls, SomeCall, SomeWaiter
<1>10. ASSUME NEW p \in Paths, NEW b \in Replacements, Replace(p, b) PROVE UNCHANGED <<loader, calls>>
  BY <1>10 DEF Replace
<1>11. CASE Click
  BY <1>9, <1>11 DEF Click, RestorePublishedBytes, FlipSelectedByte, ShowSelectedByte
<1>12. CASE UNCHANGED vars
  BY <1>9, <1>12 DEF vars
<1> QED
  BY <1>1, <1>2, <1>5, <1>6, <1>7, <1>8, <1>9, <1>10, <1>11, <1>12 DEF Next, Page, PageLoad

LEMMA CallsGoOn == Spec => [](IInv /\ SomeCall /\ SomeWaiter)
<1>1. Init => SomeCall /\ SomeWaiter
  BY Steps DEF Init, SomeCall, SomeWaiter
<1> QED
  BY <1>1, CallsKeptGoing, InitIInv, NextKeeps, PTL DEF Spec

\* The button is never left disabled with nobody to enable it (the finally clause of
\* run()): there is a call, and the promise it awaits is settled or being worked at.
THEOREM DisabledIsOwed == Spec => []ButtonIsOwed
<1>1. IInv /\ SomeCall /\ SomeWaiter => ButtonIsOwed
  <2> SUFFICES ASSUME IInv, SomeCall, SomeWaiter, rerunDisabled PROVE ButtonIsOwed
    BY DEF ButtonIsOwed
  <2>1. PICK r \in Activations : step[r] # Idle
    BY DEF SomeCall
  <2>2. step[r] \in States /\ loading # "none"
    BY <2>1 DEF IInv, TypeOK, SomeWaiter
  <2> QED
    BY <2>1, <2>2 DEF ButtonIsOwed, States
<1> QED
  BY <1>1, CallsGoOn, PTL

LEMMA CallsHaveLeft ==
  ASSUME IInv, NEW r \in Activations, step[r] # Idle
  PROVE  CallLeft(r) \in Nat /\ LoadLeft \in Nat /\ Reads \in Nat /\ step[r] \in Int
<1>1. LoadLeft \in Nat
  BY Steps DEF LoadLeft, IInv, TypeOK
<1>2. step[r] = Loading \/ step[r] \in 1 .. Reads + 1
  BY DEF IInv, TypeOK, States
<1> QED
  BY <1>1, <1>2, Steps, ReadsIsNat DEF CallLeft

\* The loader at work brings the call that waits for it nearer.
LEMMA LoaderAdvances ==
  ASSUME IInv, SomeWaiter, NEW r \in Activations, step[r] # Idle,
         LoadNext \/ PollReady \/ PollAgain \/ PollEnds \/ LoadFault
  PROVE  step'[r] # Idle /\ CallLeft(r)' < CallLeft(r)
<1>1. step' = step /\ loading \in AtWork
  BY Steps DEF LoadNext, PollReady, PollAgain, PollEnds, LoadFault, LoadFails, calls
<1>2. step[r] = Loading
  BY <1>1, Steps DEF SomeWaiter, IInv, OneCall
<1>3. LoadLeft' \in Nat /\ LoadLeft' < LoadLeft
  <2>1. asked \in 0 .. Deadline
    BY DEF IInv, TypeOK
  <2>2. CASE LoadNext
    BY <2>1, <2>2, Steps DEF LoadNext, LoadLeft
  <2>3. CASE PollReady \/ PollEnds \/ LoadFault
    BY <2>1, <2>3, Steps DEF PollReady, PollEnds, LoadFault, LoadFails, LoadLeft
  <2>4. CASE PollAgain
    BY <2>1, <2>4, Steps DEF PollAgain, LoadLeft
  <2> QED
    BY <2>2, <2>3, <2>4
<1> QED
  BY <1>1, <1>2, <1>3, CallsHaveLeft DEF CallLeft

LEMMA ReaderAdvances ==
  ASSUME IInv, NEW q \in Activations, NEW r \in Activations, step[r] # Idle,
         Resume(q) \/ ReadFixture(q) \/ PrepareHexDemo(q) \/ ReadFault(q)
  PROVE  \/ ~rerunDisabled' /\ step'[r] = Idle
         \/ step'[r] # Idle /\ CallLeft(r)' < CallLeft(r)
<1>0. step \in [Activations -> States] /\ \A p \in Activations : step[p] # Idle => p = r
  BY DEF IInv, TypeOK, OneCall
<1>1. step[q] # Idle
  BY Steps, ReadsIsNat DEF Resume, ReadFixture, PrepareHexDemo, ReadFault
<1>2. q = r
  BY <1>0, <1>1
<1>3. CASE rerunDisabled' = FALSE /\ step' = [step EXCEPT ![q] = Idle]
  BY <1>0, <1>2, <1>3
<1>4. CASE Resume(q) /\ step' = [step EXCEPT ![q] = 1]
  <2>1. step[r] = Loading /\ step'[r] = 1
    BY <1>0, <1>2, <1>4 DEF Resume
  <2> QED
    BY <2>1, Steps, CallsHaveLeft DEF CallLeft
<1>5. ASSUME NEW k \in 1 .. Reads, step[q] = k, step' = [step EXCEPT ![q] = k + 1]
      PROVE  step'[r] # Idle /\ CallLeft(r)' < CallLeft(r)
  <2>1. step[r] = k /\ step'[r] = k + 1
    BY <1>0, <1>2, <1>5
  <2> QED
    BY <2>1, Steps, CallsHaveLeft DEF CallLeft
<1> QED
  BY <1>3, <1>4, <1>5 DEF Resume, ReadFixture, PrepareHexDemo, ReadFault, Fail

\* Every run of the verification has boundedly many steps of the page before it, the poll
\* of the verifier counted with its deadline: each step of the page leaves fewer, and no
\* click, fault, late start or replaced file makes them more.
THEOREM RunsAdvance == Spec => [][CallsAdvance]_vars
<1>1. IInv /\ SomeWaiter /\ [Next]_vars => [CallsAdvance]_vars
  <2> SUFFICES ASSUME IInv, SomeWaiter, Next, NEW r \in Activations, step[r] # Idle
               PROVE  \/ ~rerunDisabled' /\ step'[r] = Idle
                      \/ /\ step'[r] # Idle /\ CallLeft(r) \in Nat
                         /\ CallLeft(r)' <= CallLeft(r)
                         /\ Page => CallLeft(r)' < CallLeft(r)
    BY DEF CallsAdvance
  <2>0. CallLeft(r) \in Nat /\ rerunDisabled
    BY CallsHaveLeft DEF IInv, OneCall
  <2>1. CallLeft(r)' < CallLeft(r) => CallLeft(r)' <= CallLeft(r)
    <3>1. CallLeft(r)' \in Int
      <4>1. step'[r] \in States /\ asked' \in 0 .. Deadline
        BY NextKeeps DEF IInv, TypeOK
      <4>2. step'[r] \in Int /\ Reads' = Reads /\ Reads \in Int
        BY <4>1, Steps, ReadsIsNat DEF States, Reads
      <4>3. LoadLeft' \in Int
        BY <4>1, Steps DEF LoadLeft
      <4> QED
        BY <4>2, <4>3, Steps DEF CallLeft
    <3> QED
      BY <2>0, <3>1
  <2>2. CASE LoadNext \/ PollReady \/ PollAgain \/ PollEnds \/ LoadFault
    BY <2>0, <2>1, <2>2, LoaderAdvances
  <2>3. CASE \E q \in Activations :
               Resume(q) \/ ReadFixture(q) \/ PrepareHexDemo(q) \/ ReadFault(q)
    BY <2>0, <2>1, <2>3, ReaderAdvances
  <2>4. ~ \E q \in Activations : Begin(q)
    BY <2>0 DEF Begin, CanBegin
  <2>5. CASE /\ ~ Page
             /\ GoStarts \/ Click \/ \E p \in Paths, b \in Replacements : Replace(p, b)
    <3>1. UNCHANGED <<loading, asked, calls>>
      BY <2>5 DEF GoStarts, Click, RestorePublishedBytes, FlipSelectedByte, ShowSelectedByte,
                  Replace, loader
    <3>2. CallLeft(r)' = CallLeft(r) /\ step'[r] = step[r]
      BY <3>1 DEF calls, CallLeft, LoadLeft
    <3> QED
      BY <2>0, <2>5, <3>2
  <2> QED
    BY <2>2, <2>3, <2>4, <2>5 DEF Next, Page, PageLoad
<1> QED
  BY <1>1, CallsGoOn, PTL DEF Spec
==============================================================================
