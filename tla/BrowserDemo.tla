---------------------------- MODULE BrowserDemo ----------------------------
(***************************************************************************)
(* The browser demonstration, verifiers/wasm/demo: one page, one event     *)
(* loop.  The page loads the WebAssembly verifier once, proves the         *)
(* published runs, and leaves the visitor a hexadecimal view in which any  *)
(* byte can be flipped.  An action is a task of the loop: the code between *)
(* two points at which app.js or proof.mjs waits for the network or the    *)
(* clock, or a click of the visitor, who is free to click while a run      *)
(* waits.                                                                  *)
(*                                                                         *)
(* Bytes are the file they come from and the offsets whose low bit is      *)
(* flipped.  The verifier is a constant set of bytes it passes.            *)
(***************************************************************************)
EXTENDS Integers, Sequences, FiniteSets, TLC

CONSTANTS
  Origins,        \* the files bytes come from
  Length,         \* Length[o]: how many bytes the file has
  Passing,        \* the bytes the verifier answers PASS
  Published,      \* PUBLISHED_RUNS: the passport and the twin of each run
  Replacements,   \* what a file of the checkout may be replaced by
  Runtimes,       \* whether wasm_exec.js has loaded: a set of Booleans
  Activations,    \* identities for the calls of run()
  Window,         \* HEX_WINDOW_BYTES
  Deadline,       \* how often the page asks whether the verifier is ready
  MaxLoaderFaults, MaxFixtureFaults, MaxEdits   \* bounds on the environment

Bytes == [origin : Origins, flips : SUBSET Nat]

DemoAssumption ==
  /\ \A o \in Origins : Length[o] \in Nat
  /\ Passing \subseteq Bytes /\ Replacements \subseteq Bytes
  /\ Published \in Seq([passport : Bytes, tampered : Bytes]) /\ Published # << >>
  /\ Runtimes \subseteq BOOLEAN
  /\ Window \in Nat \ {0} /\ Deadline \in Nat
  /\ MaxLoaderFaults \in Nat /\ MaxFixtureFaults \in Nat /\ MaxEdits \in Nat
ASSUME DemoAssumption

NoBytes == [origin |-> "null", flips |-> {}]
Size(b) == Length[b.origin]
ByteAt(b, n) == <<b.origin, n, n \in b.flips>>
Verify(b) == IF b \in Passing THEN "PASS" ELSE "BLOCK"

\* A copy of the bytes with the low bit of one of them turned.
FlipByteAtOffset(b, n) ==
  [b EXCEPT !.flips = IF n \in @ THEN @ \ {n} ELSE @ \cup {n}]

\* findBlockingOneByteFlip finds an offset at which the verifier refuses.
SomeFlipBlocks(b) ==
  \E n \in 0 .. Size(b) - 1 : Verify(FlipByteAtOffset(b, n)) = "BLOCK"

\* The files in the order in which provePublishedRuns awaits them and, after
\* the last of them, the one that prepareHexDemo reads.
Reads == 2 * Len(Published)
Paths == { <<i, kind>> : i \in 1 .. Len(Published), kind \in {"passport", "tampered"} }
PathOf(k) ==
  IF k > Reads THEN <<1, "passport">>
  ELSE <<(k + 1) \div 2, IF k % 2 = 1 THEN "passport" ELSE "tampered">>

VARIABLES
  files,              \* the checkout the page is served from
  faults, edits,      \* what the environment has done so far
  runtime,            \* whether globalThis.Go is there
  loading,            \* verifierLoading and verifier
  asked,              \* how often the verifier was found not ready
  goReady,            \* globalThis.deedsealVerifierReady
  step,               \* step[r]: Idle, Loading, or the read it awaits
  read,               \* read[r]: what the proof of the call has read so far
  status, results, rerunDisabled,
  clicksDisabled,     \* showByte.disabled and restore.disabled
  original, current, viewStart,      \* the object interactive
  hex,                \* the buttons of the view, with the byte each shows
  verdict             \* the interactive verdict: its label and its answer

environment == <<files, faults, edits, runtime>>
loader == <<loading, asked, goReady>>
calls == <<step, read, status, results, rerunDisabled>>
interactive == <<clicksDisabled, original, current, viewStart, hex, verdict>>
vars == <<environment, loader, calls, interactive>>

Idle == 0
Loading == -1        \* the call awaits loadVerifier
NoVerdict == [label |-> "none", answer |-> "none"]
Says(label, b) == [label |-> label, answer |-> Verify(b)]

Init ==
  /\ files = [p \in Paths |-> Published[p[1]][p[2]]]
  /\ faults = [loader |-> 0, fixture |-> 0] /\ edits = 0
  /\ runtime \in Runtimes
  /\ loading = "none" /\ asked = 0 /\ goReady = FALSE
  /\ step = [r \in Activations |-> Idle]
  /\ read = [r \in Activations |-> << >>]
  /\ status = "preparing" /\ results = {} /\ rerunDisabled = FALSE
  /\ clicksDisabled = TRUE
  /\ original = NoBytes /\ current = NoBytes /\ viewStart = 0 /\ hex = << >>
  /\ verdict = NoVerdict

\* The checkout changes under the server, at most MaxEdits times.
Replace(p, b) ==
  /\ edits < MaxEdits /\ files[p] # b
  /\ files' = [files EXCEPT ![p] = b] /\ edits' = edits + 1
  /\ UNCHANGED <<faults, runtime, loader, calls, interactive>>

\* A request of the given kind fails, as often as the bound allows.
Fault(kind) ==
  /\ faults[kind] < (IF kind = "loader" THEN MaxLoaderFaults ELSE MaxFixtureFaults)
  /\ faults' = [faults EXCEPT ![kind] = @ + 1]
  /\ UNCHANGED <<files, edits, runtime>>

-----------------------------------------------------------------------------
(* run(), as far as its first wait: on page load, and on a click.          *)

\* catch and finally of run(): the call r ends with an error.
Fail(r) ==
  /\ step' = [step EXCEPT ![r] = Idle] /\ read' = [read EXCEPT ![r] = << >>]
  /\ status' = "failed" /\ rerunDisabled' = FALSE

\* Fault: the button stays enabled while a run is under way.
CanBeginTwice(r) == step[r] = Idle

CanBegin(r) == step[r] = Idle /\ ~rerunDisabled

\* The first call starts the loading, whose promise every later one awaits
\* too; without wasm_exec.js that promise is rejected at once.
Begin(r) ==
  /\ CanBegin(r)
  /\ status' = "loading" /\ results' = {} /\ rerunDisabled' = TRUE
  /\ step' = [step EXCEPT ![r] = Loading]
  /\ loading' = IF loading # "none" THEN loading
                ELSE IF runtime THEN "manifest" ELSE "failed"
  /\ UNCHANGED <<environment, asked, goReady, read, interactive>>

\* The promise has been settled: the call goes on to its first read, or ends.
Resume(r) ==
  /\ step[r] = Loading
  /\ \/ /\ loading = "ready"
        /\ step' = [step EXCEPT ![r] = 1]
        /\ UNCHANGED <<read, status, rerunDisabled>>
     \/ loading = "failed" /\ Fail(r)
  /\ UNCHANGED <<environment, loader, results, interactive>>

-----------------------------------------------------------------------------
(* loadVerifier, in the background of the calls that await its promise.    *)
(* Nothing takes a settled promise back: verifierLoading keeps a rejection.*)

LoadFails ==
  /\ loading' = "failed"
  /\ UNCHANGED <<asked, goReady, calls, interactive>>

\* The manifest, the chunks, and the module compiled from them.
AfterLoad == [manifest |-> "chunks", chunks |-> "instance", instance |-> "polling"]
LoadNext ==
  /\ loading \in DOMAIN AfterLoad
  /\ loading' = AfterLoad[loading]
  /\ UNCHANGED <<environment, asked, goReady, calls, interactive>>
LoadFault == loading \in DOMAIN AfterLoad /\ Fault("loader") /\ LoadFails

\* main of verifiers/go sets deedsealVerifierReady, at once or late,
\* even after the page has stopped asking.
GoStarts ==
  /\ loading = "polling" \/ (loading = "failed" /\ asked = Deadline /\ runtime)
  /\ ~goReady
  /\ goReady' = TRUE
  /\ UNCHANGED <<environment, loading, asked, calls, interactive>>

\* One turn of the loop that waits until the verifier is ready, ten
\* milliseconds apart, for five seconds.
PollReady ==
  /\ loading = "polling" /\ goReady
  /\ loading' = "ready"
  /\ UNCHANGED <<environment, asked, goReady, calls, interactive>>

\* Fault: the clock is compared after the wait and not before it.
PollAgainLate ==
  /\ loading = "polling" /\ ~goReady /\ asked <= Deadline
  /\ asked' = asked + 1
  /\ UNCHANGED <<environment, loading, goReady, calls, interactive>>

PollAgain ==
  /\ loading = "polling" /\ ~goReady /\ asked < Deadline
  /\ asked' = asked + 1
  /\ UNCHANGED <<environment, loading, goReady, calls, interactive>>

\* Fault: the loop has no deadline.
PollForever ==
  /\ loading = "polling" /\ ~goReady /\ asked = Deadline
  /\ asked' = 0
  /\ UNCHANGED <<environment, loading, goReady, calls, interactive>>

PollEnds ==
  /\ loading = "polling" /\ ~goReady /\ asked = Deadline
  /\ UNCHANGED environment
  /\ LoadFails

-----------------------------------------------------------------------------
(* provePublishedRuns and renderProof.                                     *)

\* A run is proved when its passport passes and its twin is refused.
Proved(b, twin) == Verify(b) = "PASS" /\ Verify(twin) = "BLOCK"

\* The rows of the list: the reports of the runs, in the order of the reads,
\* the probe's own flip and the restored bytes.
Rows(reads) ==
  { <<PathOf(k), Verify(reads[k])>> : k \in 1 .. Reads }
    \cup {<<<<0, "probe">>, "BLOCK">>, <<<<0, "restored">>, Verify(reads[1])>>}

\* A fixture arrives and the call goes on to its next wait.
ReadFixture(r) ==
  \E k \in 1 .. Reads :
    LET reads == Append(read[r], files[PathOf(k)])
        ok == /\ k % 2 = 0 => Proved(reads[k - 1], reads[k])
              /\ k = Reads => SomeFlipBlocks(reads[1])
    IN /\ step[r] = k
       /\ \/ /\ ok
             /\ step' = [step EXCEPT ![r] = k + 1]
             /\ read' = [read EXCEPT ![r] = reads]
             /\ results' = IF k = Reads THEN Rows(reads) ELSE results
             /\ UNCHANGED <<status, rerunDisabled>>
          \/ ~ok /\ Fail(r) /\ UNCHANGED results
       /\ UNCHANGED <<environment, loader, interactive>>

\* Fault: the reads are part of the promise that loadVerifier keeps.
ReadFaultKept(r) ==
  /\ step[r] \in 1 .. Reads + 1
  /\ Fault("fixture") /\ Fail(r) /\ loading' = "failed"
  /\ UNCHANGED <<asked, goReady, results, interactive>>

\* readBytes of any file fails.
ReadFault(r) ==
  /\ step[r] \in 1 .. Reads + 1
  /\ Fault("fixture") /\ Fail(r)
  /\ UNCHANGED <<loader, results, interactive>>

-----------------------------------------------------------------------------
(* The hexadecimal view.                                                   *)

\* Fault: the buttons are made anew only when the view has moved.
RenderOnMove(b, start) ==
  /\ viewStart' = start
  /\ hex' = IF start = viewStart /\ hex # << >> THEN hex
            ELSE [n \in start .. Size(b) - 1 |-> ByteAt(b, n)]

\* renderHexWindow: the view's start is kept inside the bytes, and the
\* buttons are made anew.
RenderHexWindow(b, start) ==
  LET last == IF Size(b) = 0 THEN 0 ELSE Size(b) - 1
      from == IF start > last THEN last ELSE start
      end == IF from + Window < Size(b) THEN from + Window ELSE Size(b)
  IN /\ viewStart' = from
     /\ hex' = [n \in from .. end - 1 |-> ByteAt(b, n)]

\* prepareHexDemo, after its read, and the end of run().
PrepareHexDemo(r) ==
  /\ step[r] = Reads + 1
  /\ LET b == files[PathOf(Reads + 1)]
     IN /\ original' = b /\ current' = b
        /\ verdict' = Says("Loaded", b)
        /\ RenderHexWindow(b, 0)
  /\ clicksDisabled' = FALSE
  /\ step' = [step EXCEPT ![r] = Idle]
  /\ read' = [read EXCEPT ![r] = << >>]
  /\ status' = "complete" /\ rerunDisabled' = FALSE
  /\ UNCHANGED <<environment, loader, results>>

\* A click on a byte of the view flips it in the bytes as they are now.
FlipSelectedByte(n) ==
  /\ n \in DOMAIN hex
  /\ LET b == FlipByteAtOffset(current, n)
     IN /\ current' = b
        /\ verdict' = Says("Flipped", b)
        /\ RenderHexWindow(b, viewStart)
  /\ UNCHANGED <<environment, loader, calls, clicksDisabled, original>>

RestorePublishedBytes ==
  /\ ~clicksDisabled
  /\ current' = original
  /\ verdict' = Says("Restored", original)
  /\ RenderHexWindow(original, viewStart)
  /\ UNCHANGED <<environment, loader, calls, clicksDisabled, original>>

\* The number in the field is anything a visitor might type, though index.html:28
\* disables the field and no line of app.js enables it; -1 stands for whatever is no
\* offset at all.
ShowSelectedByte(n) ==
  /\ ~clicksDisabled
  /\ IF n \in 0 .. Size(current) - 1
     THEN RenderHexWindow(current, (n \div Window) * Window) /\ UNCHANGED verdict
     ELSE verdict' = NoVerdict /\ UNCHANGED <<viewStart, hex>>
  /\ UNCHANGED <<environment, loader, calls, clicksDisabled, original, current>>

-----------------------------------------------------------------------------
Offsets == -1 .. (CHOOSE m \in { Length[o] : o \in Origins } :
                    \A o \in Origins : Length[o] <= m)

Click == \/ RestorePublishedBytes
         \/ \E n \in Offsets : FlipSelectedByte(n) \/ ShowSelectedByte(n)

PageLoad == status = "preparing" /\ \E r \in Activations : Begin(r)

Page == \/ PageLoad \/ LoadNext \/ PollReady \/ PollAgain \/ PollEnds
        \/ \E r \in Activations : Resume(r) \/ ReadFixture(r) \/ PrepareHexDemo(r)

Next == \/ Page \/ Click \/ GoStarts \/ LoadFault
        \/ \E r \in Activations : Begin(r) \/ ReadFault(r)
        \/ \E p \in Paths, b \in Replacements : Replace(p, b)

\* The page's loop serves what is due: the script runs, a request is
\* answered or fails, the clock strikes.
Fairness == WF_vars(Page)

Spec == Init /\ [][Next]_vars /\ Fairness

-----------------------------------------------------------------------------
States == {Idle, Loading} \cup 1 .. Reads + 1

TypeOK ==
  /\ files \in [Paths -> Bytes]
  /\ faults.loader \in 0 .. MaxLoaderFaults /\ faults.fixture \in 0 .. MaxFixtureFaults
  /\ edits \in 0 .. MaxEdits /\ runtime \in BOOLEAN
  /\ loading \in {"none", "ready", "failed", "polling"} \cup DOMAIN AfterLoad
  /\ asked \in 0 .. Deadline /\ goReady \in BOOLEAN
  /\ step \in [Activations -> States]
  /\ \A r \in Activations :
       Len(read[r]) = IF step[r] \in 1 .. Reads + 1 THEN step[r] - 1 ELSE 0
  /\ status \in {"preparing", "loading", "complete", "failed"}
  /\ rerunDisabled \in BOOLEAN /\ clicksDisabled \in BOOLEAN
  /\ original \in Bytes \cup {NoBytes} /\ current \in Bytes \cup {NoBytes}
  /\ viewStart \in Nat

(* What the visitor reads under the view is the verifier's answer for the  *)
(* bytes the page holds, whatever was clicked while a run was waiting; a   *)
(* label that names the published bytes stands beside those bytes; and the *)
(* buttons show the bytes the page holds, none of them at an offset        *)
(* outside of them: a click cannot raise the error of flipByteAtOffset,    *)
(* also after the passport was replaced by a shorter one.                  *)
PageShowsCurrent ==
  /\ verdict # NoVerdict =>
       /\ verdict.answer = Verify(current)
       /\ verdict.label # "Flipped" => current = original
  /\ \A n \in DOMAIN hex : n < Size(current) /\ hex[n] = ByteAt(current, n)

(* When the page says that the verification is complete, no call of run()  *)
(* is under way that could still fail, and the view is there to be         *)
(* clicked.  At any time the list is empty or the list of one whole proof: *)
(* every published run with a passport that passed and a twin that was     *)
(* refused, also when the call that filled it went on to fail.             *)
CompleteIsEarned ==
  /\ status = "complete" =>
       /\ \A r \in Activations : step[r] = Idle
       /\ results # {} /\ ~clicksDisabled
  /\ results # {} =>
       results = { <<p, IF p[2] = "passport" THEN "PASS" ELSE "BLOCK">> : p \in Paths }
                   \cup {<<<<0, "probe">>, "BLOCK">>, <<<<0, "restored">>, "PASS">>}

(* A disabled button becomes enabled again: every call of run() ends, also *)
(* when the verifier never becomes ready.                                  *)
RunsEnd == rerunDisabled ~> ~rerunDisabled

\* The checkout is as it was published.
FilesArePublished == \A p \in Paths : files[p] = Published[p[1]][p[2]]

\* The visitor, free to do anything else, clicks "Run local verification
\* again" whenever the button stays enabled.
Insistent == WF_vars(\E r \in Activations : Begin(r))

(* A visitor who runs the verification again, once the server answers and  *)
(* the files are the published ones, sees it complete, on a page whose     *)
(* verifier has loaded: a read that failed or a file that was replaced for *)
(* a while leaves nothing behind that would keep a later run from          *)
(* completing.  Without the proviso this is wrong: the promise of          *)
(* loadVerifier that was once rejected is never taken back.                *)
ReadsRecover ==
  (Insistent /\ <>[]FilesArePublished /\ <>(loading = "ready")) => []<>(status = "complete")
=============================================================================
