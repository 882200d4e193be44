--------------------------- MODULE BoundaryProbe ---------------------------
(***************************************************************************)
(* tools/boundary_probe.py: re-applies the Landlock boundary that a        *)
(* passport records to a temporary directory of the reader's machine, and  *)
(* says whether the kernel enforces it.                                    *)
(*                                                                         *)
(* Two processes: the parent, and the child it forks to be restricted.     *)
(* They share a pipe, on which the child answers, and the directory.  The  *)
(* fork happens inside the parent's try block, so the child owns a copy of *)
(* its finally clause and of main's exception handlers: a child that an    *)
(* exception takes out of child_probe sweeps the directory and prints a    *)
(* verdict as well.  That is why pc and raised are functions of processes. *)
(*                                                                         *)
(* The environment may kill the child, may interrupt either process (an    *)
(* interrupt of the terminal reaches both, in any order) and may refuse    *)
(* the calls the code expects to fail.                                     *)
(***************************************************************************)
EXTENDS Naturals, Sequences, FiniteSets

CONSTANTS Passports,     \* what the passport given to the probe may record
          Hosts,         \* the machines it may run on
          MaxInterrupts, \* bound on interrupts of one process
          MaxKills       \* bound on kills of the child

Right == {"write_file", "make_reg", "make_dir", "make_sym", "remove_file",
          "remove_dir", "truncate"}

\* Of a passport: whether the record has the literals load_boundary wants (an
\* ABI, default deny, no_new_privs, one rule), the rights it handles, those of
\* its rule, and those of its scratch class.  A right the tool does not know is
\* "unknown".
PassportType == [literals : BOOLEAN, handled : SUBSET (Right \cup {"unknown"}),
                 allowed : SUBSET Right, scratch : SUBSET Right]

\* Of a host: whether it is Linux on a known machine, how its kernel answers the
\* ABI query, the rights that ABI has, and whether one more layer fits.
HostType == [linux : BOOLEAN, machine : BOOLEAN,
             abi : {"some", "absent", "refused"},
             rights : SUBSET Right, room : BOOLEAN]

ASSUME ProbeAssumption ==
  /\ Passports \subseteq PassportType
  /\ Hosts \subseteq HostType
  /\ MaxInterrupts \in Nat
  /\ MaxKills \in Nat

Process == {"parent", "child"}

\* What lies in the temporary directory; "root" is the directory itself.
Entry == {"root", "permitted", "second", "directory", "link"}

Operations == <<"append", "create", "mkdir", "symlink", "unlink">>

Errno == {"0", "EACCES", "ENOENT"}
Denied == {"EACCES"}

NoLayer == [handled |-> {}, applied |-> FALSE]
LayerOf(p) == [handled |-> p.handled, applied |-> TRUE]
Layers == {NoLayer} \cup {LayerOf(p) : p \in Passports}

VARIABLES passport,   \* what the file records
          host,
          pc,         \* per process, the step it takes next
          raised,     \* per process, the exception its finally clause will meet
          dir,        \* entries that exist
          ends,       \* open ends of the pipe, as <<process, end>>
          payload,    \* what the child wrote into the pipe
          layer,      \* the Landlock layer the child runs under
          results,    \* errno of the operations made so far
          status,     \* how the child ended
          verdicts,   \* verdict lines, as <<process, verdict>>
          interrupts, kills,
          made        \* history: entries the child brought into existence

sandbox == <<layer, results, made>>
faults == <<interrupts, kills>>
inputs == <<passport, host>>
vars == <<inputs, pc, raised, dir, ends, payload, sandbox, status, verdicts, faults>>

ParentPc == {"load", "query", "mkdtemp", "permit", "pipe", "fork", "close",
             "read", "wait", "judge"}
ChildPc == {"unborn", "born", "setup", "observe", "answer", "exit"}
TailPc == {"sweep", "rmdir", "verdict", "said", "done"}
\* "cleanup" says that the finally clause did not get to its end.
Reason == {"none", "refused", "interrupted", "cleanup"}

TypeOK ==
  /\ passport \in Passports /\ host \in Hosts
  /\ pc \in [Process -> ParentPc \cup ChildPc \cup TailPc]
  /\ pc["parent"] \notin ChildPc /\ pc["child"] \notin ParentPc
  /\ raised \in [Process -> Reason]
  /\ dir \subseteq Entry
  /\ ends \subseteq Process \X {"read", "write"}
  /\ payload \in {"nothing", "setup_error", "results"}
  /\ layer \in Layers
  /\ results \in Seq(Errno) /\ Len(results) <= Len(Operations)
  /\ status \in {"running", "zero", "abnormal"}
  /\ verdicts \subseteq Process \X {"PASS", "FAIL", "SKIP"}
  /\ interrupts \in [Process -> 0..MaxInterrupts] /\ kills \in 0..MaxKills
  /\ made \subseteq Entry

Init ==
  /\ passport \in Passports /\ host \in Hosts
  /\ pc = [q \in Process |-> IF q = "parent" THEN "load" ELSE "unborn"]
  /\ raised = [q \in Process |-> "none"]
  /\ dir = {} /\ ends = {} /\ payload = "nothing"
  /\ layer = NoLayer /\ results = <<>> /\ made = {}
  /\ status = "running" /\ verdicts = {}
  /\ interrupts = [q \in Process |-> 0] /\ kills = 0

Goto(q, step) == pc' = [pc EXCEPT ![q] = step]

\* An exception inside the try block: the finally clause is next.
Raise(q, reason) == /\ Goto(q, "sweep")
                    /\ raised' = [raised EXCEPT ![q] = reason]

\* An exception where no finally clause is armed: main's handlers are next.
Fail(q, reason) == /\ Goto(q, "verdict")
                   /\ raised' = [raised EXCEPT ![q] = reason]

\* A verdict is printed; the process has yet to return.
Say(q, verdict) == Goto(q, "said") /\ verdicts' = verdicts \cup {<<q, verdict>>}

\* A process ends out of main: its ends of the pipe are closed; the child leaves a status.
End(q) ==
  /\ Goto(q, "done")
  /\ ends' = {e \in ends : e[1] # q}
  /\ status' = IF q = "child" THEN "abnormal" ELSE status

-----------------------------------------------------------------------------
(* The parent, up to the fork.                                             *)

LoadBoundaryHolds(p) ==
  /\ p.literals
  /\ p.handled # {} /\ p.handled \subseteq Right
  /\ p.allowed = {"write_file"}
  /\ p.allowed \subseteq p.handled
  /\ p.scratch # {} /\ p.scratch \subseteq p.handled

\* load_boundary, then the test of the platform in main.
LoadBoundary ==
  /\ pc["parent"] = "load"
  /\ \/ /\ ~LoadBoundaryHolds(passport)
        /\ Fail("parent", "refused") /\ UNCHANGED verdicts
     \/ /\ LoadBoundaryHolds(passport) /\ ~host.linux
        /\ Say("parent", "SKIP") /\ UNCHANGED raised
     \/ /\ LoadBoundaryHolds(passport) /\ host.linux
        /\ Goto("parent", "query") /\ UNCHANGED <<raised, verdicts>>
  /\ UNCHANGED <<inputs, dir, ends, payload, sandbox, status, faults>>

\* run_probe up to the query of the ABI.
QueryAbi ==
  /\ pc["parent"] = "query"
  /\ \/ /\ ~host.machine \/ host.abi = "absent"
        /\ Say("parent", "SKIP") /\ UNCHANGED raised
     \/ /\ host.machine /\ host.abi = "refused"
        /\ Fail("parent", "refused") /\ UNCHANGED verdicts
     \/ /\ host.machine /\ host.abi = "some"
        /\ Goto("parent", "mkdtemp") /\ UNCHANGED <<raised, verdicts>>
  /\ UNCHANGED <<inputs, dir, ends, payload, sandbox, status, faults>>

MakeScratch ==
  /\ pc["parent"] = "mkdtemp"
  /\ \/ dir' = {"root"} /\ Goto("parent", "permit") /\ UNCHANGED raised
     \/ Fail("parent", "refused") /\ UNCHANGED dir
  /\ UNCHANGED <<inputs, ends, payload, sandbox, status, verdicts, faults>>

\* The permitted file; from here the finally clause is armed.
WritePermitted ==
  /\ pc["parent"] = "permit"
  /\ \/ dir' = dir \cup {"permitted"} /\ Goto("parent", "pipe") /\ UNCHANGED raised
     \/ Raise("parent", "refused") /\ UNCHANGED dir
  /\ UNCHANGED <<inputs, ends, payload, sandbox, status, verdicts, faults>>

OpenPipe ==
  /\ pc["parent"] = "pipe"
  /\ \/ /\ ends' = {"parent"} \X {"read", "write"}
        /\ Goto("parent", "fork") /\ UNCHANGED raised
     \/ Raise("parent", "refused") /\ UNCHANGED ends
  /\ UNCHANGED <<inputs, dir, payload, sandbox, status, verdicts, faults>>

\* The child starts with a copy of both ends; a failed fork closes the parent's.
Fork ==
  /\ pc["parent"] = "fork"
  /\ \/ /\ pc' = [pc EXCEPT !["parent"] = "close", !["child"] = "born"]
        /\ ends' = Process \X {"read", "write"}
        /\ UNCHANGED raised
     \/ /\ ends' = {} /\ Raise("parent", "refused")
  /\ UNCHANGED <<inputs, dir, payload, sandbox, status, verdicts, faults>>

-----------------------------------------------------------------------------
(* The child.                                                              *)

ChildBegins ==
  /\ pc["child"] = "born"
  /\ ends' = ends \ {<<"child", "read">>}
  /\ Goto("child", "setup")
  /\ UNCHANGED <<inputs, raised, dir, payload, sandbox, status, verdicts, faults>>

\* A ruleset with a right the kernel's ABI lacks is refused, the permitted file
\* must still be there to be opened, and the layers of a process are limited.
BoundaryApplies ==
  /\ passport.handled \subseteq host.rights
  /\ "permitted" \in dir
  /\ host.room

ApplyBoundary ==
  /\ pc["child"] = "setup"
  /\ \/ /\ BoundaryApplies
        /\ layer' = LayerOf(passport)
        /\ Goto("child", "observe")
     \/ /\ ~BoundaryApplies
        /\ Goto("child", "answer") /\ UNCHANGED layer
  /\ UNCHANGED <<inputs, raised, dir, ends, payload, results, made, status, verdicts, faults>>

Restricted(right) == layer.applied /\ right \in layer.handled

\* The one rule of the boundary is about the permitted file.
AppendErrno ==
  IF "permitted" \notin dir THEN "ENOENT"
  ELSE IF Restricted("write_file") /\ "write_file" \notin passport.allowed THEN "EACCES"
  ELSE "0"

MakeErrno(right) ==
  IF "root" \notin dir THEN "ENOENT" ELSE IF Restricted(right) THEN "EACCES" ELSE "0"

\* open with O_CREAT | O_WRONLY is two checks of the kernel: make_reg for the
\* entry, then write_file for opening what has just been made.
CreateErrno ==
  IF MakeErrno("make_reg") = "0" /\ Restricted("write_file") THEN "EACCES"
  ELSE MakeErrno("make_reg")

UnlinkErrno ==
  IF "permitted" \notin dir THEN "ENOENT"
  ELSE IF Restricted("remove_file") THEN "EACCES" ELSE "0"

ErrnoOf(op) == CASE op = "append"  -> AppendErrno
                 [] op = "create"  -> CreateErrno
                 [] op = "mkdir"   -> MakeErrno("make_dir")
                 [] op = "symlink" -> MakeErrno("make_sym")
                 [] op = "unlink"  -> UnlinkErrno

\* The entries an operation brings into existence.
MadeBy(op) ==
  CASE op = "create" /\ MakeErrno("make_reg") = "0"  -> {"second"}
    [] op = "mkdir" /\ MakeErrno("make_dir") = "0"   -> {"directory"}
    [] op = "symlink" /\ MakeErrno("make_sym") = "0" -> {"link"}
    [] OTHER -> {}

Observe ==
  /\ pc["child"] = "observe"
  /\ LET op == Operations[Len(results) + 1]
     IN /\ results' = Append(results, ErrnoOf(op))
        /\ made' = made \cup MadeBy(op)
        /\ dir' = IF op = "unlink" /\ UnlinkErrno = "0" THEN dir \ {"permitted"}
                  ELSE dir \cup MadeBy(op)
  /\ IF Len(results') = Len(Operations) THEN Goto("child", "answer") ELSE UNCHANGED pc
  /\ UNCHANGED <<inputs, raised, ends, payload, layer, status, verdicts, faults>>

\* The write may fail, when the parent is gone; the child does not care.
AnswerParent ==
  /\ pc["child"] = "answer"
  /\ payload' = IF <<"parent", "read">> \notin ends THEN payload
                ELSE IF Len(results) = Len(Operations) THEN "results" ELSE "setup_error"
  /\ ends' = ends \ {<<"child", "write">>}
  /\ Goto("child", "exit")
  /\ UNCHANGED <<inputs, raised, dir, sandbox, status, verdicts, faults>>

ExitZero ==
  /\ pc["child"] = "exit"
  /\ Goto("child", "done")
  /\ status' = "zero"
  /\ UNCHANGED <<inputs, raised, dir, ends, payload, sandbox, verdicts, faults>>

-----------------------------------------------------------------------------
(* The parent, after the fork.                                             *)

\* Fault: the parent keeps its end to write to.
KeepWriteEnd ==
  /\ pc["parent"] = "close"
  /\ Goto("parent", "read")
  /\ UNCHANGED <<inputs, raised, dir, ends, payload, sandbox, status, verdicts, faults>>

CloseWriteEnd ==
  /\ pc["parent"] = "close"
  /\ ends' = ends \ {<<"parent", "write">>}
  /\ Goto("parent", "read")
  /\ UNCHANGED <<inputs, raised, dir, payload, sandbox, status, verdicts, faults>>

\* The loop of reads ends when nobody holds an end to write to.
ReadToEnd ==
  /\ pc["parent"] = "read"
  /\ \A q \in Process : <<q, "write">> \notin ends
  /\ ends' = ends \ {<<"parent", "read">>}
  /\ Goto("parent", "wait")
  /\ UNCHANGED <<inputs, raised, dir, payload, sandbox, status, verdicts, faults>>

\* Fault: the wait status is not looked at.
ReapAnyStatus ==
  /\ pc["parent"] = "wait"
  /\ pc["child"] = "done"
  /\ Goto("parent", "judge")
  /\ UNCHANGED <<inputs, raised, dir, ends, payload, sandbox, status, verdicts, faults>>

ReapChild ==
  /\ pc["parent"] = "wait"
  /\ pc["child"] = "done"
  /\ IF status = "zero" THEN Goto("parent", "judge") /\ UNCHANGED raised
                       ELSE Raise("parent", "refused")
  /\ UNCHANGED <<inputs, dir, ends, payload, sandbox, status, verdicts, faults>>

\* Fault: the last result, of the unlink, is not judged.
ResultsHoldButLast ==
  /\ payload = "results"
  /\ results[1] = "0"
  /\ \A i \in 2..Len(Operations) - 1 : results[i] \in Denied

ResultsHold ==
  /\ payload = "results"
  /\ results[1] = "0"
  /\ \A i \in 2..Len(Operations) : results[i] \in Denied

JudgeResults ==
  /\ pc["parent"] = "judge"
  /\ IF ResultsHold THEN Goto("parent", "sweep") /\ UNCHANGED raised
                    ELSE Raise("parent", "refused")
  /\ UNCHANGED <<inputs, dir, ends, payload, sandbox, status, verdicts, faults>>

-----------------------------------------------------------------------------
(* The finally clause and main's handlers, in whichever process runs them. *)

Removable(q, entry) ==
  q = "child" =>
    ~Restricted(IF entry \in {"root", "directory"} THEN "remove_dir" ELSE "remove_file")

\* rmtree removes the entries it finds, until one cannot be removed.
SweepScratch(q) ==
  /\ pc[q] = "sweep"
  /\ \E gone \in SUBSET (dir \ {"root"}) :
       /\ \A e \in gone : Removable(q, e)
       /\ dir' = dir \ gone
       /\ \/ /\ "root" \in dir /\ gone = dir \ {"root"}
             /\ Goto(q, "rmdir") /\ UNCHANGED raised
          \/ /\ "root" \notin dir \/ \E e \in dir \ gone : ~Removable(q, e)
             /\ Fail(q, "cleanup")
  /\ UNCHANGED <<inputs, ends, payload, sandbox, status, verdicts, faults>>

\* Fault: a directory that cannot be removed is ignored.
RemoveOrIgnore(q) ==
  /\ pc[q] = "rmdir"
  /\ dir' = IF dir = {"root"} /\ Removable(q, "root") THEN {} ELSE dir
  /\ Goto(q, "verdict")
  /\ UNCHANGED <<inputs, raised, ends, payload, sandbox, status, verdicts, faults>>

\* The directory itself goes last, unless something has been made in it since.
RemoveScratch(q) ==
  /\ pc[q] = "rmdir"
  /\ IF dir = {"root"} /\ Removable(q, "root")
     THEN dir' = {} /\ UNCHANGED raised
     ELSE raised' = [raised EXCEPT ![q] = "cleanup"] /\ UNCHANGED dir
  /\ Goto(q, "verdict")
  /\ UNCHANGED <<inputs, ends, payload, sandbox, status, verdicts, faults>>

\* PASS at the end of run_probe, FAIL in main's handlers.
PrintVerdict(q) ==
  /\ pc[q] = "verdict"
  /\ Say(q, IF raised[q] = "none" THEN "PASS" ELSE "FAIL")
  /\ UNCHANGED <<inputs, raised, dir, ends, payload, sandbox, status, faults>>

\* main returns; the exit status is 0 if no exception was under way.
Return(q) ==
  /\ pc[q] = "said"
  /\ End(q)
  /\ UNCHANGED <<inputs, raised, dir, payload, sandbox, verdicts, faults>>

-----------------------------------------------------------------------------
(* The environment.                                                        *)

KillChild ==
  /\ kills < MaxKills
  /\ pc["child"] \notin {"unborn", "done"}
  /\ kills' = kills + 1
  /\ Goto("child", "done")
  /\ status' = "abnormal"
  /\ ends' = {e \in ends : e[1] # "child"}
  /\ UNCHANGED <<inputs, raised, dir, payload, sandbox, verdicts, interrupts>>

\* About to print or to return: inside main's try block, or in one of its handlers.
UnderTry(q) == pc[q] \in {"verdict", "said"} /\ raised[q] = "none"
InHandler(q) == pc[q] \in {"verdict", "said"} /\ raised[q] # "none"

\* Inside child_probe the exception becomes a setup error; elsewhere it leaves
\* by the finally clause, where there is one, and by main's last handler.  PASS and
\* SKIP are printed inside main's try block, so that handler also meets what comes
\* after the line and says FAIL as well; what comes while a handler prints leaves main.
Interrupt(q) ==
  /\ interrupts[q] < MaxInterrupts
  /\ interrupts' = [interrupts EXCEPT ![q] = @ + 1]
  /\ \/ /\ pc[q] \in {"setup", "observe"}
        /\ Goto(q, "answer") /\ UNCHANGED <<raised, ends, status>>
     \/ /\ pc[q] \in {"permit", "pipe", "fork", "close", "read", "wait", "judge",
                      "born", "answer", "exit"}
        /\ Raise(q, "interrupted")
        /\ ends' = IF pc[q] = "answer" THEN ends \ {<<q, "write">>} ELSE ends
        /\ UNCHANGED status
     \/ /\ pc[q] \in {"load", "query", "mkdtemp"} \/ UnderTry(q)
        /\ Fail(q, "interrupted") /\ UNCHANGED <<ends, status>>
     \/ /\ pc[q] \in {"sweep", "rmdir"}
        /\ Fail(q, "cleanup") /\ UNCHANGED <<ends, status>>
     \/ /\ InHandler(q)
        /\ End(q) /\ UNCHANGED raised
  /\ UNCHANGED <<inputs, dir, payload, sandbox, verdicts, kills>>

Parent == \/ LoadBoundary \/ QueryAbi \/ MakeScratch \/ WritePermitted \/ OpenPipe
          \/ Fork \/ CloseWriteEnd \/ ReadToEnd \/ ReapChild \/ JudgeResults

Child == ChildBegins \/ ApplyBoundary \/ Observe \/ AnswerParent \/ ExitZero

CleanUp(q) == SweepScratch(q) \/ RemoveScratch(q) \/ PrintVerdict(q) \/ Return(q)

ParentStep == Parent \/ CleanUp("parent")
ChildStep == Child \/ CleanUp("child")

Environment == KillChild \/ \E q \in Process : Interrupt(q)

Finished == pc["parent"] = "done" /\ pc["child"] \in {"unborn", "done"}
Ended == Finished /\ UNCHANGED vars

Next == ParentStep \/ ChildStep \/ Environment \/ Ended

\* The scheduler keeps running both processes, and owes nobody an interrupt.
Fairness == WF_vars(ParentStep) /\ WF_vars(ChildStep)

Spec == Init /\ [][Next]_vars /\ Fairness

-----------------------------------------------------------------------------
(* Properties.                                                             *)

Passes == \E q \in Process : <<q, "PASS">> \in verdicts

\* PASS is said only of a well-formed record, whose rights this kernel knows all
\* of and enforced on the child while it made the five observations, the first
\* permitted and the others refused (run_probe's judgement of the results, which
\* come through a pipe from a process that may have died or never been
\* restricted).  If the record handles make_reg the refused operations also brought
\* nothing into existence; docs/verify.md:195 says so of every PASS, but without that
\* right the file is made before its open is refused.
PassIsEnforced ==
  Passes => /\ LoadBoundaryHolds(passport)
            /\ host.linux /\ passport.handled \subseteq host.rights
            /\ layer = LayerOf(passport)
            /\ results = <<"0", "EACCES", "EACCES", "EACCES", "EACCES">>
            /\ "make_reg" \in passport.handled => made = {}

\* After PASS nothing is left: the child has been reaped and has said nothing, the
\* pipe and the directory are gone (the waitpid and the finally clause of run_probe).
\* The line is the parent's, and only the parent takes it back: by a FAIL, when an
\* interrupt came before main returned, and never with exit status 0.
PassStands ==
  Passes => /\ verdicts \subseteq {<<"parent", "PASS">>, <<"parent", "FAIL">>}
            /\ <<"parent", "FAIL">> \in verdicts =>
                 raised["parent"] = "interrupted" /\ interrupts["parent"] > 0
            /\ pc["child"] = "done" /\ status = "zero"
            /\ dir = {} /\ ends = {}

\* The directory is left behind only when the parent's cleanup did not complete,
\* whatever the child, orphaned or sweeping itself, does to it meanwhile.
NoSilentLitter == Finished /\ dir # {} => raised["parent"] = "cleanup"

\* The probe ends, both processes of it, whoever is killed or interrupted when:
\* the parent never waits on a pipe that it or a dead child keeps open.
Terminates == <>Finished
=============================================================================
