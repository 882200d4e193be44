------------------------ MODULE BoundaryProbeProofs ------------------------
(***************************************************************************)
(* What a PASS of the probe means, for every record and every machine, and *)
(* however often either process is interrupted or the child is killed; and *)
(* that the two take boundedly many steps and never both wait.             *)
(***************************************************************************)
EXTENDS BoundaryProbe, TLAPS

Ending(q) == pc[q] \in {"sweep", "rmdir", "verdict"}
Clear(q) == raised[q] = "none"

\* The two processes start and stop in order, the record was admitted before anything
\* else happened, and an exception is under way only in a finally clause or after it.
Order ==
  /\ pc["parent"] \in {"load", "query", "mkdtemp", "permit", "pipe", "fork"}
       => pc["child"] = "unborn"
  /\ pc["parent"] \in {"close", "read", "wait", "judge"} => pc["child"] # "unborn"
  /\ (pc["parent"] = "verdict" => Clear("parent"))
     /\ pc["parent"] \notin {"load", "said", "done"}
       => LoadBoundaryHolds(passport) /\ host.linux
  /\ status = "running" <=> pc["child"] # "done"
  /\ pc["parent"] \in ParentPc => Clear("parent")
  /\ Ending("child") \/ pc["child"] = "said" => ~ Clear("child")
  /\ \A q \in Process : raised[q] = "interrupted" => interrupts[q] > 0

\* The child is restricted before it observes, answers after it has observed, and what
\* it made it made by an operation that was not refused.
Restriction ==
  /\ layer.applied => layer = LayerOf(passport) /\ passport.handled \subseteq host.rights
  /\ pc["child"] \in {"unborn", "born", "setup"} => results = <<>>
  /\ pc["child"] = "observe" => layer.applied /\ Len(results) < Len(Operations)
  /\ results # <<>> => layer.applied
  /\ pc["child"] \in {"unborn", "born", "setup", "observe"} => payload = "nothing"
  /\ payload = "results" => Len(results) = Len(Operations)
  /\ results = <<>> => made = {}
  /\ made \subseteq {"second", "directory", "link"}
  /\ "second" \in made => "make_reg" \notin passport.handled
  /\ "directory" \in made => Len(results) >= 3 /\ results[3] = "0"
  /\ "link" \in made => Len(results) >= 4 /\ results[4] = "0"

\* Who has closed which end of the pipe.
Pipe ==
  /\ pc["parent"] \in {"wait", "judge", "done"}
       => \A e \in ends : e[1] = "child"
  /\ pc["child"] \in {"unborn", "exit", "done"} => \A e \in ends : e[1] = "parent"
  /\ pc["child"] \in {"setup", "observe", "answer"} => <<"child", "read">> \notin ends

\* The judgement of run_probe, and what had to come before it.
Held == /\ ResultsHold /\ pc["child"] = "done" /\ status = "zero" /\ ends = {}

\* A finally clause without an exception follows a judgement that held.
Judged ==
  /\ pc["parent"] = "judge" => pc["child"] = "done" /\ status = "zero"
  /\ Ending("parent") /\ Clear("parent") => Held
  /\ pc["parent"] = "verdict" /\ Clear("parent") => dir = {}

\* A process that has printed a verdict has one more to print only in a handler, the
\* child's is FAIL and its end abnormal, and PASS is followed by FAIL at most.
Said ==
  /\ \A v \in verdicts : \/ pc[v[1]] \in {"said", "done"}
                         \/ pc[v[1]] = "verdict" /\ ~ Clear(v[1])
  /\ \A v \in verdicts : v[1] = "child" => v[2] = "FAIL" /\ status # "zero"
  /\ <<"parent", "PASS">> \in verdicts =>
       /\ Held /\ dir = {} /\ LoadBoundaryHolds(passport) /\ host.linux
       /\ verdicts \subseteq {<<"parent", "PASS">>, <<"parent", "FAIL">>}
       /\ <<"parent", "FAIL">> \in verdicts \/ pc["parent"] = "verdict"
            => raised["parent"] = "interrupted"

IInv == TypeOK /\ Order /\ Restriction /\ Pipe /\ Judged /\ Said

----------------------------------------------------------------------------
LEMMA Typing ==
  /\ Process = {"parent", "child"}
  /\ ParentPc = {"load", "query", "mkdtemp", "permit", "pipe", "fork", "close", "read",
                 "wait", "judge"}
  /\ ChildPc = {"unborn", "born", "setup", "observe", "answer", "exit"}
  /\ TailPc = {"sweep", "rmdir", "verdict", "said", "done"}
  /\ Reason = {"none", "refused", "interrupted", "cleanup"}
BY DEF ParentPc, ChildPc, TailPc, Process, Reason

\* load_boundary admits the record, or the parent is done.
LEMMA LoadBoundaryKeeps ==
  ASSUME IInv, LoadBoundary
  PROVE  IInv'
<1>t. TypeOK /\ Order /\ Restriction /\ Pipe /\ Judged /\ Said
  BY DEF IInv
<1> USE <1>t, Typing DEF LoadBoundary, Goto, Fail, Say, TypeOK, inputs, sandbox, faults
<1>1. TypeOK'
  OBVIOUS
<1>2. Order'
  BY DEF Order, Ending, Clear
<1>3. Restriction'
  BY DEF Restriction
<1>4. Pipe'
  BY DEF Pipe, Order
<1>5. Judged'
  BY DEF Judged, Order, Pipe, Ending, Clear, Held, ResultsHold
<1>6. Said'
  <2>1. verdicts = {}
    BY DEF Said, Order
  <2>2. verdicts' \subseteq {<<"parent", "SKIP">>} /\ (verdicts' # {} => pc'["parent"] = "said")
    BY <2>1
  <2> QED
    BY <2>2 DEF Said
<1> QED
  BY <1>1, <1>2, <1>3, <1>4, <1>5, <1>6 DEF IInv

\* The machine and its kernel's ABI.
LEMMA QueryAbiKeeps ==
  ASSUME IInv, QueryAbi
  PROVE  IInv'
<1>t. TypeOK /\ Order /\ Restriction /\ Pipe /\ Judged /\ Said
  BY DEF IInv
<1> USE <1>t, Typing DEF QueryAbi, Goto, Fail, Say, TypeOK, inputs, sandbox, faults
<1>1. TypeOK'
  OBVIOUS
<1>2. Order'
  BY DEF Order, Ending, Clear
<1>3. Restriction'
  BY DEF Restriction
<1>4. Pipe'
  BY DEF Pipe, Order
<1>5. Judged'
  BY DEF Judged, Order, Pipe, Ending, Clear, Held, ResultsHold
<1>6. Said'
  <2>1. verdicts = {}
    BY DEF Said, Order
  <2>2. verdicts' \subseteq {<<"parent", "SKIP">>} /\ (verdicts' # {} => pc'["parent"] = "said")
    BY <2>1
  <2> QED
    BY <2>2 DEF Said
<1> QED
  BY <1>1, <1>2, <1>3, <1>4, <1>5, <1>6 DEF IInv

\* The directory is made.
LEMMA MakeScratchKeeps ==
  ASSUME IInv, MakeScratch
  PROVE  IInv'
<1>t. TypeOK /\ Order /\ Restriction /\ Pipe /\ Judged /\ Said
  BY DEF IInv
<1> USE <1>t, Typing DEF MakeScratch, Goto, Fail, TypeOK, inputs, sandbox, faults
<1>1. TypeOK'
  <2>1. dir' \subseteq Entry
    BY DEF Entry
  <2>2. verdicts' \subseteq Process \X {"PASS", "FAIL", "SKIP"}
    OBVIOUS
  <2>3. ends' \subseteq Process \X {"read", "write"}
    OBVIOUS
  <2> QED
    BY <2>1, <2>2, <2>3
<1>2. Order'
  BY DEF Order, Ending, Clear
<1>3. Restriction'
  BY DEF Restriction
<1>4. Pipe'
  BY DEF Pipe, Order
<1>5. Judged'
  BY DEF Judged, Order, Pipe, Ending, Clear, Held, ResultsHold
<1>6. Said'
  BY DEF Said, Judged, Order, Ending, Clear, Held, ResultsHold
<1> QED
  BY <1>1, <1>2, <1>3, <1>4, <1>5, <1>6 DEF IInv

\* The permitted file is made.
LEMMA WritePermittedKeeps ==
  ASSUME IInv, WritePermitted
  PROVE  IInv'
<1>t. TypeOK /\ Order /\ Restriction /\ Pipe /\ Judged /\ Said
  BY DEF IInv
<1> USE <1>t, Typing DEF WritePermitted, Goto, Raise, TypeOK, inputs, sandbox, faults
<1>1. TypeOK'
  BY ZenonT(40) DEF Entry
<1>2. Order'
  BY DEF Order, Ending, Clear
<1>3. Restriction'
  BY DEF Restriction
<1>4. Pipe'
  BY DEF Pipe, Order
<1>5. Judged'
  BY DEF Judged, Order, Pipe, Ending, Clear, Held, ResultsHold
<1>6. Said'
  BY DEF Said, Judged, Order, Ending, Clear, Held, ResultsHold
<1> QED
  BY <1>1, <1>2, <1>3, <1>4, <1>5, <1>6 DEF IInv

\* The pipe, both ends the parent's.
LEMMA OpenPipeKeeps ==
  ASSUME IInv, OpenPipe
  PROVE  IInv'
<1>t. TypeOK /\ Order /\ Restriction /\ Pipe /\ Judged /\ Said
  BY DEF IInv
<1> USE <1>t, Typing DEF OpenPipe, Goto, Raise, TypeOK, inputs, sandbox, faults
<1>1. TypeOK'
  OBVIOUS
<1>2. Order'
  BY DEF Order, Ending, Clear
<1>3. Restriction'
  BY DEF Restriction
<1>4. Pipe'
  BY DEF Pipe, Order
<1>5. Judged'
  BY DEF Judged, Order, Pipe, Ending, Clear, Held, ResultsHold
<1>6. Said'
  BY DEF Said, Judged, Order, Ending, Clear, Held, ResultsHold
<1> QED
  BY <1>1, <1>2, <1>3, <1>4, <1>5, <1>6 DEF IInv

\* The child is born with both ends, unrestricted.
LEMMA ForkKeeps ==
  ASSUME IInv, Fork
  PROVE  IInv'
<1>t. TypeOK /\ Order /\ Restriction /\ Pipe /\ Judged /\ Said
  BY DEF IInv
<1> USE <1>t, Typing DEF Fork, Goto, Raise, TypeOK, inputs, sandbox, faults
<1>1. TypeOK'
  OBVIOUS
<1>2. Order'
  BY DEF Order, Ending, Clear
<1>3. Restriction'
  BY DEF Restriction, Order
<1>4. Pipe'
  BY DEF Pipe, Order
<1>5. Judged'
  BY DEF Judged, Order, Pipe, Ending, Clear, Held, ResultsHold
<1>6. Said'
  BY DEF Said, Judged, Order, Ending, Clear, Held, ResultsHold
<1> QED
  BY <1>1, <1>2, <1>3, <1>4, <1>5, <1>6 DEF IInv

\* The child drops the end it does not use.
LEMMA ChildBeginsKeeps ==
  ASSUME IInv, ChildBegins
  PROVE  IInv'
<1>t. TypeOK /\ Order /\ Restriction /\ Pipe /\ Judged /\ Said
  BY DEF IInv
<1> USE <1>t, Typing DEF ChildBegins, Goto, TypeOK, inputs, sandbox, faults
<1>1. TypeOK'
  OBVIOUS
<1>2. Order'
  BY DEF Order, Ending, Clear
<1>3. Restriction'
  BY DEF Restriction
<1>4. Pipe'
  BY DEF Pipe, Order
<1>5. Judged'
  BY DEF Judged, Order, Pipe, Ending, Clear, Held, ResultsHold
<1>6. Said'
  BY DEF Said, Judged, Order, Ending, Clear, Held, ResultsHold
<1> QED
  BY <1>1, <1>2, <1>3, <1>4, <1>5, <1>6 DEF IInv

\* The child is restricted, or answers that it could not be.
LEMMA ApplyBoundaryKeeps ==
  ASSUME IInv, ApplyBoundary
  PROVE  IInv'
<1>t. TypeOK /\ Order /\ Restriction /\ Pipe /\ Judged /\ Said
  BY DEF IInv
<1> USE <1>t, Typing DEF ApplyBoundary, Goto, TypeOK, inputs, sandbox, faults
<1>1. TypeOK'
  BY DEF Layers
<1>2. Order'
  BY DEF Order, Ending, Clear
<1>3. Restriction'
  BY DEF Restriction, BoundaryApplies, LayerOf, Operations
<1>4. Pipe'
  BY DEF Pipe, Order
<1>5. Judged'
  BY DEF Judged, Order, Pipe, Ending, Clear, Held, ResultsHold
<1>6. Said'
  BY DEF Said, Judged, Order, Ending, Clear, Held, ResultsHold
<1> QED
  BY <1>1, <1>2, <1>3, <1>4, <1>5, <1>6 DEF IInv

\* The child answers and drops its last end.
LEMMA AnswerParentKeeps ==
  ASSUME IInv, AnswerParent
  PROVE  IInv'
<1>t. TypeOK /\ Order /\ Restriction /\ Pipe /\ Judged /\ Said
  BY DEF IInv
<1> USE <1>t, Typing DEF AnswerParent, Goto, TypeOK, inputs, sandbox, faults
<1>1. TypeOK'
  OBVIOUS
<1>2. Order'
  BY DEF Order, Ending, Clear
<1>3. Restriction'
  BY DEF Restriction
<1>4. Pipe'
  <2>1. \A e \in ends' : e[1] = "child" => e = <<"child", "read">>
    OBVIOUS
  <2> QED
    BY <2>1 DEF Pipe, Order
<1>5. Judged'
  BY DEF Judged, Order, Pipe, Ending, Clear, Held, ResultsHold
<1>6. Said'
  BY DEF Said, Judged, Order, Ending, Clear, Held, ResultsHold
<1> QED
  BY <1>1, <1>2, <1>3, <1>4, <1>5, <1>6 DEF IInv

\* The child ends.
LEMMA ExitZeroKeeps ==
  ASSUME IInv, ExitZero
  PROVE  IInv'
<1>t. TypeOK /\ Order /\ Restriction /\ Pipe /\ Judged /\ Said
  BY DEF IInv
<1> USE <1>t, Typing DEF ExitZero, Goto, TypeOK, inputs, sandbox, faults
<1>1. TypeOK'
  OBVIOUS
<1>2. Order'
  BY DEF Order, Ending, Clear
<1>3. Restriction'
  BY DEF Restriction
<1>4. Pipe'
  BY DEF Pipe, Order
<1>5. Judged'
  BY DEF Judged, Order, Pipe, Ending, Clear, Held, ResultsHold
<1>6. Said'
  BY DEF Said, Judged, Order, Ending, Clear, Held, ResultsHold
<1> QED
  BY <1>1, <1>2, <1>3, <1>4, <1>5, <1>6 DEF IInv

\* The parent drops the end it does not use.
LEMMA CloseWriteEndKeeps ==
  ASSUME IInv, CloseWriteEnd
  PROVE  IInv'
<1>t. TypeOK /\ Order /\ Restriction /\ Pipe /\ Judged /\ Said
  BY DEF IInv
<1> USE <1>t, Typing DEF CloseWriteEnd, Goto, TypeOK, inputs, sandbox, faults
<1>1. TypeOK'
  OBVIOUS
<1>2. Order'
  BY DEF Order, Ending, Clear
<1>3. Restriction'
  BY DEF Restriction
<1>4. Pipe'
  BY DEF Pipe, Order
<1>5. Judged'
  BY DEF Judged, Order, Pipe, Ending, Clear, Held, ResultsHold
<1>6. Said'
  BY DEF Said, Judged, Order, Ending, Clear, Held, ResultsHold
<1> QED
  BY <1>1, <1>2, <1>3, <1>4, <1>5, <1>6 DEF IInv

\* Nobody can write any more, and the parent drops its last end.
LEMMA ReadToEndKeeps ==
  ASSUME IInv, ReadToEnd
  PROVE  IInv'
<1>t. TypeOK /\ Order /\ Restriction /\ Pipe /\ Judged /\ Said
  BY DEF IInv
<1> USE <1>t, Typing DEF ReadToEnd, Goto, TypeOK, inputs, sandbox, faults
<1>1. TypeOK'
  OBVIOUS
<1>2. Order'
  BY DEF Order, Ending, Clear
<1>3. Restriction'
  BY DEF Restriction
<1>4. Pipe'
  BY DEF Pipe, Order
<1>5. Judged'
  BY DEF Judged, Order, Pipe, Ending, Clear, Held, ResultsHold
<1>6. Said'
  BY DEF Said, Judged, Order, Ending, Clear, Held, ResultsHold
<1> QED
  BY <1>1, <1>2, <1>3, <1>4, <1>5, <1>6 DEF IInv

\* The child is reaped, and its status looked at.
LEMMA ReapChildKeeps ==
  ASSUME IInv, ReapChild
  PROVE  IInv'
<1>t. TypeOK /\ Order /\ Restriction /\ Pipe /\ Judged /\ Said
  BY DEF IInv
<1> USE <1>t, Typing DEF ReapChild, Goto, Raise, TypeOK, inputs, sandbox, faults
<1>1. TypeOK'
  OBVIOUS
<1>2. Order'
  BY DEF Order, Ending, Clear
<1>3. Restriction'
  BY SMTT(30) DEF Restriction
<1>4. Pipe'
  BY DEF Pipe, Order
<1>5. Judged'
  BY DEF Judged, Order, Pipe, Ending, Clear, Held, ResultsHold
<1>6. Said'
  BY DEF Said, Judged, Order, Ending, Clear, Held, ResultsHold
<1> QED
  BY <1>1, <1>2, <1>3, <1>4, <1>5, <1>6 DEF IInv

\* The results are judged.
LEMMA JudgeResultsKeeps ==
  ASSUME IInv, JudgeResults
  PROVE  IInv'
<1>t. TypeOK /\ Order /\ Restriction /\ Pipe /\ Judged /\ Said
  BY DEF IInv
<1> USE <1>t, Typing DEF JudgeResults, Goto, Raise, TypeOK, inputs, sandbox, faults
<1>1. TypeOK'
  OBVIOUS
<1>2. Order'
  BY DEF Order, Ending, Clear
<1>3. Restriction'
  BY DEF Restriction
<1>4. Pipe'
  BY DEF Pipe, Order
<1>5. Judged'
  BY DEF Judged, Order, Pipe, Ending, Clear, Held, ResultsHold
<1>6. Said'
  BY DEF Said, Judged, Order, Ending, Clear, Held, ResultsHold
<1> QED
  BY <1>1, <1>2, <1>3, <1>4, <1>5, <1>6 DEF IInv

\* The finally clause, in either process: rmtree removes what it can.
LEMMA SweepScratchKeeps ==
  ASSUME IInv, NEW q \in Process, SweepScratch(q)
  PROVE  IInv'
<1>t. TypeOK /\ Order /\ Restriction /\ Pipe /\ Judged /\ Said
  BY DEF IInv
<1>s. /\ pc[q] = "sweep" /\ dir' \subseteq dir
      /\ UNCHANGED <<inputs, ends, payload, sandbox, status, verdicts, faults>>
      /\ \/ pc' = [pc EXCEPT ![q] = "rmdir"] /\ raised' = raised
         \/ pc' = [pc EXCEPT ![q] = "verdict"] /\ raised' = [raised EXCEPT ![q] = "cleanup"]
  BY DEF SweepScratch, Goto, Fail
<1> USE <1>t, <1>s, Typing DEF TypeOK, inputs, sandbox, faults
<1>1. TypeOK'
  OBVIOUS
<1>2. Order'
  BY DEF Order, Ending, Clear
<1>3. Restriction'
  BY DEF Restriction
<1>4. Pipe'
  BY DEF Pipe, Order
<1>5. Judged'
  BY DEF Judged, Order, Pipe, Ending, Clear, Held, ResultsHold
<1>6. Said'
  BY DEF Said, Judged, Order, Ending, Clear, Held, ResultsHold
<1> QED
  BY <1>1, <1>2, <1>3, <1>4, <1>5, <1>6 DEF IInv

\* The finally clause removes the directory itself.
LEMMA RemoveScratchKeeps ==
  ASSUME IInv, NEW q \in Process, RemoveScratch(q)
  PROVE  IInv'
<1>t. TypeOK /\ Order /\ Restriction /\ Pipe /\ Judged /\ Said
  BY DEF IInv
<1> USE <1>t, Typing DEF RemoveScratch, Goto, TypeOK, inputs, sandbox, faults
<1>1. TypeOK'
  OBVIOUS
<1>2. Order'
  BY DEF Order, Ending, Clear
<1>3. Restriction'
  BY DEF Restriction
<1>4. Pipe'
  BY DEF Pipe, Order
<1>5. Judged'
  BY DEF Judged, Order, Pipe, Ending, Clear, Held, ResultsHold
<1>6. Said'
  BY DEF Said, Judged, Order, Ending, Clear, Held, ResultsHold
<1> QED
  BY <1>1, <1>2, <1>3, <1>4, <1>5, <1>6 DEF IInv

\* A verdict is printed; PASS only where no exception is under way.
LEMMA PrintVerdictKeeps ==
  ASSUME IInv, NEW q \in Process, PrintVerdict(q)
  PROVE  IInv'
<1>t. TypeOK /\ Order /\ Restriction /\ Pipe /\ Judged /\ Said
  BY DEF IInv
<1> USE <1>t, Typing DEF PrintVerdict, Goto, Say, TypeOK, inputs, sandbox, faults
<1>1. TypeOK'
  OBVIOUS
<1>2. Order'
  BY DEF Order, Ending, Clear
<1>3. Restriction'
  BY DEF Restriction
<1>4. Pipe'
  BY DEF Pipe, Order
<1>5. Judged'
  BY DEF Judged, Order, Pipe, Ending, Clear, Held, ResultsHold
<1>6. Said'
  BY DEF Said, Judged, Order, Ending, Clear, Held, ResultsHold
<1> QED
  BY <1>1, <1>2, <1>3, <1>4, <1>5, <1>6 DEF IInv

\* A process ends after its verdict.
LEMMA ReturnKeeps ==
  ASSUME IInv, NEW q \in Process, Return(q)
  PROVE  IInv'
<1>t. TypeOK /\ Order /\ Restriction /\ Pipe /\ Judged /\ Said
  BY DEF IInv
<1> USE <1>t, Typing DEF Return, Goto, End, TypeOK, inputs, sandbox, faults
<1>1. TypeOK'
  OBVIOUS
<1>2. Order'
  BY DEF Order, Ending, Clear
<1>3. Restriction'
  BY DEF Restriction
<1>4. Pipe'
  BY DEF Pipe, Order
<1>5. Judged'
  BY DEF Judged, Order, Pipe, Ending, Clear, Held, ResultsHold
<1>6. Said'
  BY DEF Said, Judged, Order, Ending, Clear, Held, ResultsHold
<1> QED
  BY <1>1, <1>2, <1>3, <1>4, <1>5, <1>6 DEF IInv

\* An exception at any point of either process.
LEMMA InterruptKeeps ==
  ASSUME IInv, NEW q \in Process, Interrupt(q)
  PROVE  IInv'
<1>t. TypeOK /\ Order /\ Restriction /\ Pipe /\ Judged /\ Said
  BY DEF IInv
<1> USE <1>t, Typing DEF Interrupt, UnderTry, InHandler, Goto, Raise, Fail, End, TypeOK, inputs,
   sandbox, faults
<1>1. TypeOK'
  BY ProbeAssumption
<1>2. Order'
  BY DEF Order, Ending, Clear
<1>3. Restriction'
  BY DEF Restriction
<1>4. Pipe'
  BY DEF Pipe, Order
<1>5. Judged'
  BY DEF Judged, Order, Pipe, Ending, Clear, Held, ResultsHold
<1>6. Said'
  BY DEF Said, Judged, Order, Ending, Clear, Held, ResultsHold
<1> QED
  BY <1>1, <1>2, <1>3, <1>4, <1>5, <1>6 DEF IInv

\* The child is killed.
LEMMA KillChildKeeps ==
  ASSUME IInv, KillChild
  PROVE  IInv'
<1>t. TypeOK /\ Order /\ Restriction /\ Pipe /\ Judged /\ Said
  BY DEF IInv
<1> USE <1>t, Typing DEF KillChild, Goto, TypeOK, inputs, sandbox, faults
<1>1. TypeOK'
  BY ProbeAssumption
<1>2. Order'
  BY DEF Order, Ending, Clear
<1>3. Restriction'
  BY DEF Restriction
<1>4. Pipe'
  BY DEF Pipe, Order
<1>5. Judged'
  BY DEF Judged, Order, Pipe, Ending, Clear, Held, ResultsHold
<1>6. Said'
  BY DEF Said, Judged, Order, Ending, Clear, Held, ResultsHold
<1> QED
  BY <1>1, <1>2, <1>3, <1>4, <1>5, <1>6 DEF IInv

\* What an operation of the child returns and makes.
LEMMA MadeWhenAllowed ==
  ASSUME NEW op \in {"append", "create", "mkdir", "symlink", "unlink"}
  PROVE  /\ ErrnoOf(op) \in Errno
         /\ MadeBy(op) \subseteq {"second", "directory", "link"}
         /\ "second" \in MadeBy(op) => op = "create" /\ MakeErrno("make_reg") = "0"
         /\ "directory" \in MadeBy(op) => op = "mkdir" /\ ErrnoOf(op) = "0"
         /\ "link" \in MadeBy(op) => op = "symlink" /\ ErrnoOf(op) = "0"
<1>1. /\ AppendErrno \in Errno /\ CreateErrno \in Errno /\ UnlinkErrno \in Errno
      /\ \A right : MakeErrno(right) \in Errno
  BY DEF AppendErrno, CreateErrno, UnlinkErrno, MakeErrno, Errno
<1> QED
  BY <1>1 DEF ErrnoOf, MadeBy

\* The five operations, by their position.
LEMMA OperationAt ==
  ASSUME NEW n \in Nat, n < Len(Operations)
  PROVE  /\ n \in {0, 1, 2, 3, 4}
         /\ Operations[n + 1] \in {"append", "create", "mkdir", "symlink", "unlink"}
         /\ Operations[n + 1] = "mkdir" => n = 2
         /\ Operations[n + 1] = "symlink" => n = 3
<1>1. Len(Operations) = 5
  BY DEF Operations
<1>2. n \in {0, 1, 2, 3, 4}
  BY <1>1
<1>3. CASE n = 0
  <2>1. Operations[n + 1] = "append"
    BY <1>3 DEF Operations
  <2> QED
    BY <1>3, <2>1
<1>4. CASE n = 1
  <2>1. Operations[n + 1] = "create"
    BY <1>4 DEF Operations
  <2> QED
    BY <1>4, <2>1
<1>5. CASE n = 2
  <2>1. Operations[n + 1] = "mkdir"
    BY <1>5 DEF Operations
  <2> QED
    BY <1>5, <2>1
<1>6. CASE n = 3
  <2>1. Operations[n + 1] = "symlink"
    BY <1>6 DEF Operations
  <2> QED
    BY <1>6, <2>1
<1>7. CASE n = 4
  <2>1. Operations[n + 1] = "unlink"
    BY <1>7 DEF Operations
  <2> QED
    BY <1>7, <2>1
<1> QED
  BY <1>2, <1>3, <1>4, <1>5, <1>6, <1>7

\* One operation of the restricted child.
LEMMA ObserveKeeps ==
  ASSUME IInv, Observe
  PROVE  IInv'
<1> DEFINE n == Len(results)
<1> DEFINE op == Operations[n + 1]
<1>t. TypeOK /\ Order /\ Restriction /\ Pipe /\ Judged /\ Said
  BY DEF IInv
<1>n. /\ n \in Nat /\ n < Len(Operations) /\ Len(Operations) = 5
      /\ results \in Seq(Errno)
  <2>1. Len(Operations) = 5
    BY DEF Operations
  <2>2. results \in Seq(Errno)
    BY <1>t DEF TypeOK
  <2>3. n \in Nat
    BY <2>2
  <2>4. n < Len(Operations)
    BY <1>t DEF Observe, Restriction
  <2> QED
    BY <2>1, <2>2, <2>3, <2>4
<1>o. /\ n \in {0, 1, 2, 3, 4}
      /\ op \in {"append", "create", "mkdir", "symlink", "unlink"}
      /\ op = "mkdir" => n = 2
      /\ op = "symlink" => n = 3
  <2> HIDE DEF n
  <2> QED
    BY <1>n, OperationAt
<1>l. layer.applied /\ layer.handled = passport.handled
  BY <1>t DEF Observe, Restriction, LayerOf
<1>s. /\ pc["child"] = "observe"
      /\ results' = Append(results, ErrnoOf(op)) /\ made' = made \cup MadeBy(op)
      /\ dir' \subseteq dir \cup MadeBy(op)
      /\ UNCHANGED <<inputs, raised, ends, payload, layer, status, verdicts, faults>>
      /\ \/ Len(results') = Len(Operations) /\ pc' = [pc EXCEPT !["child"] = "answer"]
         \/ Len(results') # Len(Operations) /\ pc' = pc
  BY DEF Observe, Goto
<1>m. /\ ErrnoOf(op) \in Errno
      /\ MadeBy(op) \subseteq {"second", "directory", "link"}
      /\ "second" \in MadeBy(op) => MakeErrno("make_reg") = "0"
      /\ "directory" \in MadeBy(op) => n = 2 /\ ErrnoOf(op) = "0"
      /\ "link" \in MadeBy(op) => n = 3 /\ ErrnoOf(op) = "0"
  BY <1>o, MadeWhenAllowed
<1> HIDE DEF op
<1>r. /\ results' \in Seq(Errno) /\ Len(results') = Len(results) + 1
      /\ results'[Len(results) + 1] = ErrnoOf(op)
      /\ \A i \in 1..Len(results) : results'[i] = results[i]
  BY <1>n, <1>s, <1>m
<1> USE <1>t, <1>s, Typing DEF TypeOK, inputs, faults
<1>1. TypeOK'
  <2>1. made' \subseteq Entry /\ dir' \subseteq Entry
    BY <1>m DEF Entry
  <2>2. results' \in Seq(Errno) /\ Len(results') <= Len(Operations)
    BY <1>n, <1>r
  <2> QED
    BY <2>1, <2>2
<1>2. Order'
  BY DEF Order, Ending, Clear
<1>3. Restriction'
  <2>1. /\ layer'.applied /\ layer' = LayerOf(passport') /\ passport'.handled \subseteq host'.rights
        /\ pc'["child"] \in {"observe", "answer"} /\ results' # <<>>
        /\ pc'["child"] = "observe" => Len(results') < Len(Operations)
        /\ payload' = "nothing"
    BY <1>l, <1>n, <1>r DEF Restriction
  <2>2. made' \subseteq {"second", "directory", "link"}
    BY <1>m DEF Restriction
  <2>3. "second" \in made' => "make_reg" \notin passport'.handled
    BY <1>m, <1>l DEF Restriction, MakeErrno, Restricted
  <2>4. "directory" \in made' => Len(results') >= 3 /\ results'[3] = "0"
    <3>1. CASE "directory" \in made
      <4>1. Len(results) >= 3 /\ results[3] = "0"
        BY <3>1 DEF Restriction
      <4> QED
        BY <4>1, <1>n, <1>r
    <3>2. CASE "directory" \in MadeBy(op)
      <4>1. n = 2 /\ ErrnoOf(op) = "0"
        BY <3>2, <1>m
      <4>2. Len(results') = 3 /\ results'[3] = "0"
        BY <4>1, <1>r
      <4> QED
        BY <4>2
    <3> QED
      BY <3>1, <3>2
  <2>5. "link" \in made' => Len(results') >= 4 /\ results'[4] = "0"
    <3>1. CASE "link" \in made
      <4>1. Len(results) >= 4 /\ results[4] = "0"
        BY <3>1 DEF Restriction
      <4> QED
        BY <4>1, <1>n, <1>r
    <3>2. CASE "link" \in MadeBy(op)
      <4>1. n = 3 /\ ErrnoOf(op) = "0"
        BY <3>2, <1>m
      <4>2. Len(results') = 4 /\ results'[4] = "0"
        BY <4>1, <1>r
      <4> QED
        BY <4>2
    <3> QED
      BY <3>1, <3>2
  <2> QED
    BY <2>1, <2>2, <2>3, <2>4, <2>5 DEF Restriction
<1>4. Pipe'
  BY DEF Pipe, Order
<1>5. Judged'
  BY DEF Judged, Order, Ending, Clear, Held
<1>6. Said'
  <2>1. <<"parent", "PASS">> \notin verdicts
    BY DEF Said, Held
  <2>2. pc'["parent"] = pc["parent"] /\ (pc'["child"] = pc["child"] \/ pc'["child"] = "answer")
    OBVIOUS
  <2>3. \A v \in verdicts : v[1] = "parent"
    BY DEF Said
  <2> QED
    BY <2>1, <2>2, <2>3 DEF Said, Clear
<1> QED
  BY <1>1, <1>2, <1>3, <1>4, <1>5, <1>6 DEF IInv

LEMMA InitIInv == Init => IInv
<1> SUFFICES ASSUME Init PROVE IInv
  OBVIOUS
<1> USE Typing DEF Init
<1>1. TypeOK
  <2>1. <<>> \in Seq(Errno) /\ Len(<<>>) = 0 /\ Len(Operations) = 5
    BY DEF Operations
  <2> QED
    BY <2>1, ProbeAssumption DEF TypeOK, Layers, Errno
<1>2. Order /\ Restriction
  BY DEF Order, Restriction, Ending, Clear, NoLayer, Operations
<1>3. Pipe /\ Judged /\ Said
  BY DEF Pipe, Judged, Said, Ending, Clear
<1> QED
  BY <1>1, <1>2, <1>3 DEF IInv

LEMMA NextKeeps == IInv /\ [Next]_vars => IInv'
<1> SUFFICES ASSUME IInv, [Next]_vars PROVE IInv'
  OBVIOUS
<1>1. CASE Parent
  BY <1>1, LoadBoundaryKeeps, QueryAbiKeeps, MakeScratchKeeps, WritePermittedKeeps,
     OpenPipeKeeps, ForkKeeps, CloseWriteEndKeeps, ReadToEndKeeps, ReapChildKeeps,
     JudgeResultsKeeps DEF Parent
<1>2. CASE Child
  BY <1>2, ChildBeginsKeeps, ApplyBoundaryKeeps, ObserveKeeps, AnswerParentKeeps,
     ExitZeroKeeps DEF Child
<1>3. CASE \E q \in Process : CleanUp(q)
  BY <1>3, SweepScratchKeeps, RemoveScratchKeeps, PrintVerdictKeeps, ReturnKeeps DEF CleanUp
<1>4. CASE Environment
  BY <1>4, InterruptKeeps, KillChildKeeps DEF Environment
<1>5. CASE UNCHANGED vars
  BY <1>5 DEF vars, inputs, sandbox, faults, IInv, TypeOK, Order, Restriction, Pipe, Judged,
     Said, Ending, Clear, Held, ResultsHold
<1> QED
  BY <1>1, <1>2, <1>3, <1>4, <1>5, Typing DEF Next, ParentStep, ChildStep, Ended

THEOREM Invariant == Spec => []IInv
BY InitIInv, NextKeeps, PTL DEF Spec

\* The types of the variables, in every reachable state.
THEOREM TypeCorrect == Spec => []TypeOK
<1>1. IInv => TypeOK
  BY DEF IInv
<1> QED
  BY Invariant, <1>1, PTL

\* A PASS is the parent's, after a judgement that held.
LEMMA PassIsHeld ==
  ASSUME IInv, Passes
  PROVE  /\ Held /\ dir = {} /\ LoadBoundaryHolds(passport) /\ host.linux
         /\ verdicts \subseteq {<<"parent", "PASS">>, <<"parent", "FAIL">>}
         /\ <<"parent", "FAIL">> \in verdicts => raised["parent"] = "interrupted"
<1>1. PICK q \in Process : <<q, "PASS">> \in verdicts
  BY DEF Passes
<1>2. q = "parent"
  BY <1>1, Typing DEF IInv, Said
<1> QED
  BY <1>1, <1>2 DEF IInv, Said

\* The five results, when they hold.
LEMMA FiveResults ==
  ASSUME IInv, ResultsHold
  PROVE  /\ layer.applied
         /\ Len(results) = 5 /\ results \in Seq(Errno)
         /\ results[1] = "0" /\ \A i \in 2..5 : results[i] = "EACCES"
<1>1. Len(Operations) = 5
  BY DEF Operations
<1>2. Len(results) = 5 /\ results \in Seq(Errno)
  BY <1>1 DEF IInv, ResultsHold, Restriction, TypeOK
<1>3. layer.applied
  BY <1>2 DEF IInv, Restriction
<1> QED
  BY <1>1, <1>2, <1>3 DEF ResultsHold, Denied

\* PASS only of a record that was admitted, with the layer it describes applied in
\* full, and the five results that run_probe asks for; what was to be refused made
\* nothing if the record handles make_reg (main, run_probe, child_probe).
THEOREM PassEnforced == Spec => []PassIsEnforced
<1>1. IInv => PassIsEnforced
  <2> SUFFICES ASSUME IInv, Passes PROVE PassIsEnforced
    BY DEF PassIsEnforced
  <2>1. LoadBoundaryHolds(passport) /\ host.linux /\ ResultsHold
    BY PassIsHeld DEF Held
  <2>2. layer = LayerOf(passport) /\ passport.handled \subseteq host.rights
    BY <2>1, FiveResults DEF IInv, Restriction
  <2>3. results = <<"0", "EACCES", "EACCES", "EACCES", "EACCES">>
    BY <2>1, FiveResults
  <2>4. ASSUME "make_reg" \in passport.handled PROVE made = {}
    <3>1. results[3] = "EACCES" /\ results[4] = "EACCES"
      BY <2>1, FiveResults
    <3> QED
      BY <2>4, <3>1 DEF IInv, Restriction
  <2> QED
    BY <2>1, <2>2, <2>3, <2>4 DEF PassIsEnforced
<1> QED
  BY Invariant, <1>1, PTL

\* When PASS has been said the child is gone, having exited normally, the pipe and the
\* directory are gone, and nobody says anything else, but for the parent that an interrupt
\* meets before main has returned: it says FAIL too, and its exit status is not 0 (the
\* finally clause of run_probe and the last handler of main).
THEOREM PassIsLeftStanding == Spec => []PassStands
<1>1. IInv => PassStands
  <2> SUFFICES ASSUME IInv, Passes PROVE PassStands
    BY DEF PassStands
  <2>1. raised["parent"] = "interrupted" => interrupts["parent"] > 0
    BY Typing DEF IInv, Order
  <2> QED
    BY <2>1, PassIsHeld DEF PassStands, Held
<1> QED
  BY Invariant, <1>1, PTL

----------------------------------------------------------------------------
(* The temporary directory.                                                *)

\* Nothing lies there before the parent made it or once the parent is past its removal
\* without an exception of the cleanup, and nothing without the directory itself: what
\* the child still makes is refused with ENOENT.
Litter ==
  /\ dir # {} => "root" \in dir
  /\ pc["parent"] \in {"load", "query", "mkdtemp"} => dir = {}
  /\ pc["parent"] = "permit" => "root" \in dir
  /\ pc["parent"] \in {"verdict", "said", "done"} /\ raised["parent"] # "cleanup" => dir = {}

\* A step that leaves the directory and the parent alone.
LEMMA LitterKept ==
  ASSUME Litter, dir' = dir, pc'["parent"] = pc["parent"], raised'["parent"] = raised["parent"]
  PROVE  Litter'
BY DEF Litter

\* An operation of the child makes nothing where the directory is gone.
LEMMA ObserveLitters ==
  ASSUME IInv, Litter, Observe
  PROVE  Litter'
<1>1. TypeOK
  BY DEF IInv
<1>2. pc'["parent"] = pc["parent"] /\ raised' = raised
  BY <1>1, Typing DEF Observe, Goto, TypeOK
<1>3. \A op : "root" \notin dir => MadeBy(op) = {}
  BY DEF MadeBy, MakeErrno
<1>4. dir' # {} => "root" \in dir'
  <2>1. CASE "root" \in dir
    BY <2>1 DEF Observe
  <2>2. CASE "root" \notin dir
    BY <1>3, <2>2 DEF Observe, Litter
  <2> QED
    BY <2>1, <2>2
<1>5. dir = {} => dir' = {}
  BY <1>3 DEF Observe, UnlinkErrno
<1> QED
  <2>1. "root" \in dir => "root" \in dir'
    BY DEF Observe
  <2> QED
    BY <1>1, <1>2, <1>4, <1>5, <2>1 DEF Litter

LEMMA SweepLitters ==
  ASSUME IInv, Litter, NEW q \in Process, CleanUp(q)
  PROVE  Litter'
<1>1. TypeOK
  BY DEF IInv
<1>2. "root" \in dir => "root" \in dir' \/ dir' = {}
  BY DEF CleanUp, SweepScratch, RemoveScratch, PrintVerdict, Return
<1>3. dir' \subseteq dir
  BY DEF CleanUp, SweepScratch, RemoveScratch, PrintVerdict, Return
<1>4. CASE q = "child"
  <2>1. pc'["parent"] = pc["parent"] /\ raised'["parent"] = raised["parent"]
    BY <1>1, <1>4, Typing
       DEF CleanUp, SweepScratch, RemoveScratch, PrintVerdict, Return, Goto, Fail, Say, End, TypeOK
  <2>2. pc["parent"] # "permit"
    BY <1>1, <1>4, Typing
       DEF IInv, Order, CleanUp, SweepScratch, RemoveScratch, PrintVerdict, Return, TypeOK
  <2> QED
    BY <1>2, <1>3, <2>1, <2>2 DEF Litter
<1>5. CASE q = "parent"
  BY <1>1, <1>2, <1>3, <1>5, Typing
     DEF Litter, CleanUp, SweepScratch, RemoveScratch, PrintVerdict, Return, Goto, Fail, Say,
         End, TypeOK
<1> QED
  BY <1>4, <1>5, Typing

LEMMA NextLitters == IInv /\ Litter /\ [Next]_vars => Litter'
<1> SUFFICES ASSUME IInv, Litter, [Next]_vars PROVE Litter'
  OBVIOUS
<1>1. TypeOK
  BY DEF IInv
<1>2. CASE LoadBoundary \/ QueryAbi \/ MakeScratch
  BY <1>1, <1>2, Typing
     DEF Litter, LoadBoundary, QueryAbi, MakeScratch, Goto, Fail, Say, TypeOK, inputs, sandbox,
         faults
<1>3. CASE WritePermitted \/ OpenPipe \/ Fork
  BY <1>1, <1>3, Typing
     DEF Litter, WritePermitted, OpenPipe, Fork, Goto, Raise, TypeOK, inputs, sandbox, faults
<1>4. CASE CloseWriteEnd \/ ReadToEnd \/ ReapChild \/ JudgeResults
  BY <1>1, <1>4, Typing
     DEF Litter, CloseWriteEnd, ReadToEnd, ReapChild, JudgeResults, Goto, Raise, TypeOK
<1>5. CASE ChildBegins \/ ApplyBoundary \/ AnswerParent \/ ExitZero \/ KillChild
  <2>1. dir' = dir /\ raised' = raised /\ pc'["parent"] = pc["parent"]
    BY <1>1, <1>5, Typing
       DEF ChildBegins, ApplyBoundary, AnswerParent, ExitZero, KillChild, Goto, TypeOK
  <2> QED
    BY <2>1, LitterKept
<1>6. ASSUME NEW q \in Process, Interrupt(q) PROVE Litter'
  <2>1. CASE q = "child"
    <3>1. dir' = dir /\ pc'["parent"] = pc["parent"] /\ raised'["parent"] = raised["parent"]
      BY <1>1, <1>6, <2>1, Typing
         DEF Interrupt, UnderTry, InHandler, Goto, Raise, Fail, End, TypeOK
    <3> QED
      BY <3>1, LitterKept
  <2>2. CASE q = "parent"
    BY <1>1, <1>6, <2>2, Typing
       DEF Litter, Interrupt, UnderTry, InHandler, Goto, Raise, Fail, End, TypeOK
  <2> QED
    BY <2>1, <2>2, Typing
<1>7. CASE UNCHANGED vars
  BY <1>7, LitterKept DEF vars
<1> QED
  BY <1>2, <1>3, <1>4, <1>5, <1>6, <1>7, ObserveLitters, SweepLitters, Typing
     DEF Next, ParentStep, ChildStep, Environment, Ended, Parent, Child

\* When both processes have ended, the directory is gone unless the parent's cleanup
\* met an exception, however the child was killed, interrupted or left to itself.
THEOREM LitterIsTold == Spec => []NoSilentLitter
<1>1. Init => Litter
  BY Typing DEF Init, Litter, Process
<1>2. Litter => NoSilentLitter
  BY DEF Litter, NoSilentLitter, Finished
<1> QED
  BY <1>1, <1>2, NextLitters, InitIInv, NextKeeps, PTL DEF Spec

----------------------------------------------------------------------------
(* The probe ends: what of it is safety.                                   *)

\* How many steps at most a process still has before it, and the two together.  An
\* exception, an interrupt or a kill takes a process further on, but for the interrupt that
\* meets main's try block between the verdict and its return and has main print another:
\* two steps that a process there without an exception still has to reckon with.
Ahead == [load |-> 16, query |-> 15, mkdtemp |-> 14, permit |-> 13, pipe |-> 12, fork |-> 11,
          close |-> 10, read |-> 9, wait |-> 8, judge |-> 7,
          unborn |-> 12, born |-> 11, setup |-> 10, observe |-> 9, answer |-> 8, exit |-> 7,
          sweep |-> 6, rmdir |-> 5, verdict |-> 2, said |-> 1, done |-> 0]
Far(step, reason) ==
  IF step \in {"verdict", "said"} /\ reason = "none" THEN Ahead[step] + 2 ELSE Ahead[step]
Distance(q) == Far(pc[q], raised[q])
Left == Distance("parent") + Distance("child") + (Len(Operations) - Len(results))
Advances == Left \in 0..33 /\ Left' < Left

LEMMA Distances ==
  ASSUME NEW reason
  PROVE
  /\ Far("load", reason) = 16 /\ Far("query", reason) = 15 /\ Far("mkdtemp", reason) = 14
  /\ Far("permit", reason) = 13 /\ Far("pipe", reason) = 12 /\ Far("fork", reason) = 11
  /\ Far("close", reason) = 10 /\ Far("read", reason) = 9 /\ Far("wait", reason) = 8
  /\ Far("judge", reason) = 7
  /\ Far("unborn", reason) = 12 /\ Far("born", reason) = 11 /\ Far("setup", reason) = 10
  /\ Far("observe", reason) = 9 /\ Far("answer", reason) = 8 /\ Far("exit", reason) = 7
  /\ Far("sweep", reason) = 6 /\ Far("rmdir", reason) = 5
  /\ Far("verdict", reason) = (IF reason = "none" THEN 4 ELSE 2)
  /\ Far("said", reason) = (IF reason = "none" THEN 3 ELSE 1)
  /\ Far("done", reason) = 0
BY DEF Far, Ahead

LEMMA Placed ==
  ASSUME TypeOK
  PROVE  /\ pc \in [Process -> ParentPc \cup ChildPc \cup TailPc]
         /\ raised \in [Process -> Reason]
         /\ pc["parent"] \in ParentPc \cup TailPc /\ pc["child"] \in ChildPc \cup TailPc
BY DEF TypeOK, Process

\* The two distances, and what is still to be observed.
LEMMA LeftIsNatural ==
  ASSUME TypeOK
  PROVE  /\ Distance("parent") \in 0..16 /\ Distance("child") \in 0..12
         /\ Len(results) \in 0..5 /\ Len(Operations) = 5 /\ Left \in 0..33
<1>1. \A step \in ParentPc \cup TailPc : \A reason : Far(step, reason) \in 0..16
  BY Typing, Distances
<1>2. \A step \in ChildPc \cup TailPc : \A reason : Far(step, reason) \in 0..12
  BY Typing, Distances
<1>3. Distance("parent") \in 0..16 /\ Distance("child") \in 0..12
  BY <1>1, <1>2, Placed DEF Distance
<1>4. Len(Operations) = 5
  BY DEF Operations
<1>5. Len(results) \in 0..5
  <2>1. results \in Seq(Errno) /\ Len(results) <= 5
    BY <1>4 DEF TypeOK
  <2>2. Len(results) \in Nat
    BY <2>1
  <2>3. \A n \in Nat : n <= 5 => n \in 0..5
    OBVIOUS
  <2> QED
    BY <2>1, <2>2, <2>3, Zenon
<1>6. \A a \in 0..16, b \in 0..12, c \in 0..5 : a + b + (5 - c) \in 0..33
  OBVIOUS
<1> QED
  BY <1>3, <1>4, <1>5, <1>6 DEF Left

\* One process goes on, with or without an exception, and the other stays where it is.
LEMMA OneAdvances ==
  ASSUME TypeOK, NEW q \in Process, NEW step, pc' = [pc EXCEPT ![q] = step],
         \A r \in Process : r # q => raised'[r] = raised[r],
         results' = results, Far(step, raised'[q]) \in Nat, Far(step, raised'[q]) < Distance(q)
  PROVE  Left' < Left
<1>1. /\ Distance("parent") \in 0..16 /\ Distance("child") \in 0..12
      /\ Len(results) \in 0..5 /\ Len(Operations) = 5
  BY LeftIsNatural
<1>2. \A a \in 0..16, b \in 0..12, c \in 0..5, d \in Nat :
        /\ d < a => d + b + (5 - c) < a + b + (5 - c)
        /\ d < b => a + d + (5 - c) < a + b + (5 - c)
  OBVIOUS
<1>3. CASE q = "parent"
  <2>1. pc'["parent"] = step /\ pc'["child"] = pc["child"] /\ raised'["child"] = raised["child"]
    BY <1>3, Placed, Typing
  <2>2. Distance("parent")' = Far(step, raised'[q]) /\ Distance("child")' = Distance("child")
    BY <1>3, <2>1 DEF Distance
  <2> QED
    BY <1>1, <1>2, <1>3, <2>2 DEF Left
<1>4. CASE q = "child"
  <2>1. pc'["child"] = step /\ pc'["parent"] = pc["parent"]
        /\ raised'["parent"] = raised["parent"]
    BY <1>4, Placed, Typing
  <2>2. Distance("child")' = Far(step, raised'[q]) /\ Distance("parent")' = Distance("parent")
    BY <1>4, <2>1 DEF Distance
  <2> QED
    BY <1>1, <1>2, <1>4, <2>2 DEF Left
<1> QED
  BY <1>3, <1>4, Typing

\* Where no step of the process ends in a verdict printed by main's try block: the
\* distances are those of the steps.
LEMMA StepAdvances ==
  ASSUME TypeOK, NEW q \in Process, NEW step \in ParentPc \cup ChildPc \cup TailPc,
         pc' = [pc EXCEPT ![q] = step],
         \A r \in Process : r # q => raised'[r] = raised[r],
         results' = results,
         \A reason : Far(step, reason) < Far(pc[q], raised[q])
  PROVE  Left' < Left
<1>1. Far(step, raised'[q]) \in Nat
  BY Distances, Typing
<1> QED
  BY <1>1, OneAdvances DEF Distance

LEMMA ParentAdvances == IInv /\ Parent => Left' < Left
<1> SUFFICES ASSUME IInv, Parent PROVE Left' < Left
  OBVIOUS
<1>1. results' = results
  BY DEF Parent, LoadBoundary, QueryAbi, MakeScratch, WritePermitted, OpenPipe, Fork,
     CloseWriteEnd, ReadToEnd, ReapChild, JudgeResults, sandbox
<1>2. raised'["child"] = raised["child"]
  BY Placed, Typing
     DEF IInv, Parent, LoadBoundary, QueryAbi, MakeScratch, WritePermitted, OpenPipe, Fork,
         CloseWriteEnd, ReadToEnd, ReapChild, JudgeResults, Raise, Fail
<1>3. CASE \E step \in ParentPc \cup TailPc :
             /\ pc' = [pc EXCEPT !["parent"] = step]
             /\ \A reason : Far(step, reason) < Far(pc["parent"], raised["parent"])
  <2>1. PICK step \in ParentPc \cup TailPc :
               /\ pc' = [pc EXCEPT !["parent"] = step]
               /\ \A reason : Far(step, reason) < Far(pc["parent"], raised["parent"])
    BY <1>3
  <2>2. \A r \in Process : r # "parent" => raised'[r] = raised[r]
    BY <1>2, Typing
  <2>3. "parent" \in Process /\ TypeOK
    BY Typing DEF IInv
  <2> QED
    BY <1>1, <2>1, <2>2, <2>3, StepAdvances
<1>4. CASE LoadBoundary \/ QueryAbi \/ MakeScratch \/ WritePermitted \/ OpenPipe
  <2>1. \E step \in {"query", "mkdtemp", "permit", "pipe", "fork", "sweep", "verdict", "said"} :
          /\ pc' = [pc EXCEPT !["parent"] = step]
          /\ \A reason : Far(step, reason) < Far(pc["parent"], raised["parent"])
    BY <1>4, Distances
       DEF LoadBoundary, QueryAbi, MakeScratch, WritePermitted, OpenPipe, Raise, Fail, Say, Goto
  <2> QED
    BY <1>3, <2>1, Typing
<1>5. CASE CloseWriteEnd \/ ReadToEnd \/ ReapChild \/ JudgeResults
  <2>1. \E step \in {"read", "wait", "judge", "sweep"} :
          /\ pc' = [pc EXCEPT !["parent"] = step]
          /\ \A reason : Far(step, reason) < Far(pc["parent"], raised["parent"])
    BY <1>5, Distances DEF CloseWriteEnd, ReadToEnd, ReapChild, JudgeResults, Raise, Goto
  <2> QED
    BY <1>3, <2>1, Typing
<1>6. CASE Fork
  <2>1. CASE Raise("parent", "refused")
    <3>1. pc' = [pc EXCEPT !["parent"] = "sweep"] /\ pc["parent"] = "fork"
      BY <1>6, <2>1 DEF Fork, Raise, Goto
    <3>2. \A reason : Far("sweep", reason) < Far("fork", raised["parent"])
      BY Distances
    <3> QED
      BY <1>3, <3>1, <3>2, Typing
  <2>2. CASE pc' = [pc EXCEPT !["parent"] = "close", !["child"] = "born"] /\ raised' = raised
    <3>1. /\ pc["parent"] = "fork" /\ pc["child"] = "unborn"
          /\ pc'["parent"] = "close" /\ pc'["child"] = "born"
      BY <1>6, <2>2, Placed, Typing DEF Fork, IInv, Order
    <3>2. /\ Distance("parent") = 11 /\ Distance("child") = 12
          /\ Distance("parent")' = 10 /\ Distance("child")' = 11
      BY <3>1, Distances DEF Distance
    <3>3. Len(results) \in 0..5 /\ Len(Operations) = 5
      BY LeftIsNatural DEF IInv
    <3> QED
      BY <1>1, <3>2, <3>3 DEF Left
  <2> QED
    BY <1>6, <2>1, <2>2 DEF Fork
<1> QED
  BY <1>4, <1>5, <1>6 DEF Parent

LEMMA ChildAdvances == IInv /\ Child => Left' < Left
<1> SUFFICES ASSUME IInv, Child PROVE Left' < Left
  OBVIOUS
<1>1. raised' = raised
  BY DEF Child, ChildBegins, ApplyBoundary, Observe, AnswerParent, ExitZero
<1>2. CASE ChildBegins \/ ApplyBoundary \/ AnswerParent \/ ExitZero
  <2>1. \E step \in {"setup", "observe", "answer", "exit", "done"} :
          /\ pc' = [pc EXCEPT !["child"] = step]
          /\ \A reason : Far(step, reason) < Far(pc["child"], raised["child"])
    BY <1>2, Distances DEF ChildBegins, ApplyBoundary, AnswerParent, ExitZero, Goto
  <2>2. results' = results /\ "child" \in Process /\ TypeOK
    BY <1>2, Typing DEF ChildBegins, ApplyBoundary, AnswerParent, ExitZero, sandbox, IInv
  <2> QED
    BY <1>1, <2>1, <2>2, StepAdvances, Typing
<1>3. CASE Observe
  <2>1. Len(results') = Len(results) + 1 /\ pc["child"] = "observe"
    BY <1>3 DEF Observe, IInv, TypeOK
  <2>2. pc'["child"] \in {"observe", "answer"} /\ pc'["parent"] = pc["parent"]
    BY <1>3, Placed, Typing DEF Observe, Goto, IInv
  <2>3. /\ Distance("parent") \in 0..16 /\ Len(results) \in 0..5 /\ Len(Operations) = 5
    BY LeftIsNatural DEF IInv
  <2>4. \A a \in 0..16, c \in 0..5 : \A b \in {8, 9} :
          a + b + (5 - (c + 1)) < a + 9 + (5 - c)
    OBVIOUS
  <2>5. /\ Distance("child") = 9 /\ Distance("child")' \in {8, 9}
        /\ Distance("parent")' = Distance("parent")
    BY <1>1, <2>1, <2>2, Distances DEF Distance
  <2> QED
    BY <2>1, <2>3, <2>4, <2>5 DEF Left
<1> QED
  BY <1>2, <1>3 DEF Child

LEMMA OthersAdvance ==
  IInv /\ (Environment \/ \E q \in Process : CleanUp(q)) => Left' < Left
<1>1. ASSUME IInv, NEW q \in Process, results' = results,
             \A r \in Process : r # q => raised'[r] = raised[r],
             \E step \in {"answer", "sweep", "rmdir", "verdict", "said", "done"} :
               /\ pc' = [pc EXCEPT ![q] = step]
               /\ Far(step, raised'[q]) < Far(pc[q], raised[q])
      PROVE  Left' < Left
  <2>1. PICK step \in {"answer", "sweep", "rmdir", "verdict", "said", "done"} :
               /\ pc' = [pc EXCEPT ![q] = step]
               /\ Far(step, raised'[q]) < Far(pc[q], raised[q])
    BY <1>1
  <2>2. Far(step, raised'[q]) \in Nat /\ TypeOK
    BY <1>1, Distances DEF IInv
  <2> QED
    BY <1>1, <2>1, <2>2, OneAdvances DEF Distance
<1>2. ASSUME IInv, NEW q \in Process, CleanUp(q) PROVE Left' < Left
  <2>1. results' = results /\ \A r \in Process : r # q => raised'[r] = raised[r]
    BY <1>2, Placed
       DEF IInv, CleanUp, SweepScratch, RemoveScratch, PrintVerdict, Return, Fail, sandbox
  <2>2. \E step \in {"rmdir", "verdict", "said", "done"} :
          /\ pc' = [pc EXCEPT ![q] = step]
          /\ Far(step, raised'[q]) < Far(pc[q], raised[q])
    <3>1. CASE SweepScratch(q) \/ RemoveScratch(q)
      BY <3>1, Distances DEF SweepScratch, RemoveScratch, Fail, Goto
    <3>2. CASE PrintVerdict(q) \/ Return(q)
      BY <3>2, Distances DEF PrintVerdict, Return, Say, End, Goto
    <3> QED
      BY <1>2, <3>1, <3>2 DEF CleanUp
  <2> QED
    BY <1>1, <1>2, <2>1, <2>2
<1>3. ASSUME IInv, NEW q \in Process, Interrupt(q) PROVE Left' < Left
  <2>1. results' = results /\ \A r \in Process : r # q => raised'[r] = raised[r]
    BY <1>3, Placed DEF IInv, Interrupt, Raise, Fail, sandbox
  <2>2. \E step \in {"answer", "sweep", "verdict", "done"} :
          /\ pc' = [pc EXCEPT ![q] = step]
          /\ Far(step, raised'[q]) < Far(pc[q], raised[q])
    <3>0. raised \in [Process -> Reason]
      BY <1>3, Placed DEF IInv
    <3>1. CASE pc[q] \in {"verdict", "said"}
      BY <1>3, <3>0, <3>1, Distances DEF Interrupt, UnderTry, InHandler, Fail, End, Goto
    <3>2. CASE pc[q] \notin {"verdict", "said"}
      BY <1>3, <3>0, <3>2, Distances DEF Interrupt, UnderTry, InHandler, Raise, Fail, Goto
    <3> QED
      BY <3>1, <3>2
  <2> QED
    BY <1>1, <1>3, <2>1, <2>2
<1>4. ASSUME IInv, KillChild PROVE Left' < Left
  <2>1. results' = results /\ raised' = raised /\ pc' = [pc EXCEPT !["child"] = "done"]
    BY <1>4 DEF KillChild, Goto, sandbox
  <2>2. Far("done", raised'["child"]) < Far(pc["child"], raised["child"])
    <3>1. pc["child"] \in ChildPc \cup TailPc /\ pc["child"] # "done"
      BY <1>4, Placed DEF KillChild, IInv
    <3> QED
      BY <3>1, Typing, Distances
  <2> QED
    BY <1>1, <1>4, <2>1, <2>2, Typing
<1> QED
  BY <1>2, <1>3, <1>4 DEF Environment

\* The probe takes at most 33 steps, whoever is interrupted or killed, when and how
\* often: every step brings it nearer to its end (run_probe and child_probe have no
\* loop but the one of reads, and main prints a second verdict at most once).
THEOREM EveryStepAdvances == Spec => [][Advances]_vars
<1>1. IInv /\ [Next]_vars => [Advances]_vars
  <2> SUFFICES ASSUME IInv, Next, ~ UNCHANGED vars PROVE Advances
    OBVIOUS
  <2>1. Left \in 0..33
    BY LeftIsNatural DEF IInv
  <2>2. Left' < Left
    BY ParentAdvances, ChildAdvances, OthersAdvance, Typing
       DEF Next, ParentStep, ChildStep, Ended
  <2> QED
    BY <2>1, <2>2 DEF Advances
<1> QED
  BY <1>1, Invariant, PTL DEF Spec

\* Nobody reads with an end to write to in his own hands.
ReadsTheOther == pc["parent"] = "read" => <<"parent", "write">> \notin ends

\* What a process that is not done waits for: the parent for the other ends to be closed
\* and for the child to be gone, the child for nothing.
Waits(q) ==
  /\ q = "parent"
  /\ \/ pc[q] = "read" /\ \E r \in Process : <<r, "write">> \in ends
     \/ pc[q] = "wait" /\ pc["child"] # "done"
SomebodyMoves == Finished \/ \E q \in Process : pc[q] \notin {"unborn", "done"} /\ ~ Waits(q)

LEMMA ReadsTheOtherKept == Spec => [](IInv /\ ReadsTheOther)
<1>1. Init => ReadsTheOther
  BY DEF Init, ReadsTheOther
<1>2. IInv /\ ReadsTheOther /\ [Next]_vars => ReadsTheOther'
  <2> SUFFICES ASSUME IInv, ReadsTheOther, [Next]_vars PROVE ReadsTheOther'
    OBVIOUS
  <2>0. pc \in [Process -> ParentPc \cup ChildPc \cup TailPc]
    BY DEF IInv, TypeOK
  <2>1. CASE Parent
    BY <2>0, <2>1, Typing
       DEF Parent, LoadBoundary, QueryAbi, MakeScratch, WritePermitted, OpenPipe, Fork,
           CloseWriteEnd, ReadToEnd, ReapChild, JudgeResults, Goto, Raise, Fail, Say,
           ReadsTheOther
  <2>2. CASE Child
    BY <2>0, <2>2, Typing
       DEF Child, ChildBegins, ApplyBoundary, Observe, AnswerParent, ExitZero, Goto,
           ReadsTheOther
  <2>3. ASSUME NEW q \in Process, CleanUp(q) \/ Interrupt(q) PROVE ReadsTheOther'
    BY <2>0, <2>3, Typing
       DEF CleanUp, SweepScratch, RemoveScratch, PrintVerdict, Return, Interrupt, UnderTry,
           InHandler, Goto, Raise, Fail, Say, End, ReadsTheOther
  <2>4. CASE KillChild
    BY <2>0, <2>4, Typing DEF KillChild, Goto, ReadsTheOther
  <2>5. CASE UNCHANGED vars
    BY <2>5 DEF vars, ReadsTheOther
  <2> QED
    BY <2>1, <2>2, <2>3, <2>4, <2>5, Typing DEF Next, ParentStep, ChildStep, Environment, Ended
<1> QED
  BY <1>1, <1>2, Invariant, InitIInv, NextKeeps, PTL DEF Spec

\* Until both processes are done one of them has a step to take: the parent never waits
\* on a pipe that it or a dead child keeps open, nor for a child that was never born
\* (the ends closed in run_probe and child_probe).
THEOREM NobodyWaitsForever == Spec => []SomebodyMoves
<1>1. IInv /\ ReadsTheOther => SomebodyMoves
  <2> SUFFICES ASSUME IInv, ReadsTheOther, ~ Finished PROVE SomebodyMoves
    BY DEF SomebodyMoves
  <2>1. CASE pc["child"] \notin {"unborn", "done"}
    BY <2>1, Typing DEF SomebodyMoves, Waits
  <2>2. CASE pc["child"] \in {"unborn", "done"}
    <3>1. pc["parent"] \notin {"unborn", "done"}
      BY <2>2, Typing DEF Finished, IInv, TypeOK
    <3>2. ~ Waits("parent")
      <4>1. pc["parent"] \in {"read", "wait"} => pc["child"] = "done"
        BY <2>2 DEF IInv, Order
      <4>2. \A r \in Process : pc["parent"] = "read" => <<r, "write">> \notin ends
        BY <2>2, Typing DEF IInv, Pipe, ReadsTheOther
      <4> QED
        BY <4>1, <4>2 DEF Waits
    <3> QED
      BY <3>1, <3>2, Typing DEF SomebodyMoves
  <2> QED
    BY <2>1, <2>2
<1> QED
  BY <1>1, ReadsTheOtherKept, PTL
============================================================================
