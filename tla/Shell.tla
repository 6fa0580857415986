-------------------------------- MODULE Shell --------------------------------
(***************************************************************************)
(* The shell: src/userland/sh.c. A line is a pipeline of segments; the     *)
(* shell forks a child for each, joins them with pipes, and waits for them *)
(* or puts them in its table of jobs. Its children run and exit at any     *)
(* time. Calls to the kernel fail when nothing is left or at any time      *)
(* where the files decide. Words, wildcards and variables are left out:    *)
(* a segment is a command with its redirections.                           *)
(***************************************************************************)
EXTENDS Naturals, Sequences, FiniteSets, SequencesExt, FiniteSetsExt, Functions

CONSTANTS FdMax,     \* VFS_FD_MAX
          Pipe,      \* pipes of the kernel
          JobMax,    \* JOB_MAX
          Pid,       \* of children; one that nobody remembers stands for a new one
          Lines,     \* that may be typed
          Scripts    \* sequences of lines given as a file

Segment == [cmd : STRING, redirs : Seq({"in", "out", "err", "here", "bad"})]
Pipeline == [segs : Seq(Segment) \ {<<>>}, bg : BOOLEAN]

ASSUME ShellAssumption ==
    /\ FdMax \in Nat /\ FdMax > 5 /\ JobMax \in Nat \ {0} /\ {Pid, Pipe} \subseteq SUBSET Nat
    /\ Lines \subseteq Pipeline /\ Scripts \subseteq Seq(Pipeline)

VARIABLES sh,        \* the shell: where it is, its descriptors and its line
          jobs,      \* the table of jobs: sequences of pids, or Unused
          kids       \* live children: their descriptors, and what they still have to do with them

shellVars == <<sh, jobs, kids>>

Fd == 0..(FdMax - 1)
Unused == <<0>>
Closed == [end |-> "closed", of |-> 0]
Tty == [end |-> "tty", of |-> 0]
File == [end |-> "file", of |-> 0]
ReadEnd(n) == [end |-> "read", of |-> n]
WriteEnd(n) == [end |-> "write", of |-> n]
NoFile == FdMax         \* -1
NoLine == [segs |-> <<>>, bg |-> FALSE]

Std == [f \in Fd |-> IF f < 3 THEN Tty ELSE Closed]

\* In-process commands; of the others some are built in, but that is the child's business.
InProcess == {"cd", "exit", "export"}

---------------------------------------------------------------------------
(* Descriptors and pipes: sys_open, sys_close, sys_dup2, sys_pipe *)

FdFree(t) == {f \in Fd : t[f] = Closed}
CloseIn(t, f) == IF f \in Fd THEN [t EXCEPT ![f] = Closed] ELSE t
Dup2(t, old, new) ==
    IF old \in Fd /\ new \in Fd /\ t[old] # Closed THEN [t EXCEPT ![new] = t[old]] ELSE t

OpenTables == {sh.fds} \union {kids[p].fds : p \in DOMAIN kids}
InUse(n) == \E t \in OpenTables : \E f \in Fd : t[f] \in {ReadEnd(n), WriteEnd(n)}
FreePipes == {n \in Pipe : ~InUse(n)}
\* The pipe a call of sys_pipe would take, and its descriptors.
NewPipe == Min(FreePipes)
MayPipe(t) == FreePipes # {} /\ Cardinality(FdFree(t)) >= 2
ReadFd(t) == Min(FdFree(t))
WriteFd(t) == Min(FdFree(t) \ {ReadFd(t)})
WithPipe(t, n) == [t EXCEPT ![ReadFd(t)] = ReadEnd(n), ![WriteFd(t)] = WriteEnd(n)]

---------------------------------------------------------------------------
(* Redirections: "in", "out", "err", "here", or "bad" for one without a word *)

Target(r) == CASE r = "out" -> 1 [] r = "err" -> 2 [] OTHER -> 0
\* A file is opened at the lowest free place, copied, and closed there; a here document
\* goes through a pipe whose write end is closed before it is read, and so the reader
\* keeps only the other end.
Redirect(r, n) == IF r = "here" THEN ReadEnd(n) ELSE File
\* The first one that cannot be opened ends the list: of those before it the last one
\* for each descriptor stands.
ApplyRedirs(t, redirs, good, n) ==
    [f \in Fd |-> LET its == {i \in 1..good : Target(redirs[i]) = f}
                  IN  IF its = {} THEN t[f] ELSE Redirect(redirs[Max(its)], n)]
MayRedirect(t, redirs, good) == \A i \in 1..good : redirs[i] = "here" => MayPipe(t)

---------------------------------------------------------------------------
(* Jobs *)

Done(p) == p \notin DOMAIN kids
Remembered == DOMAIN kids \union ToSet(sh.pids) \union UNION {ToSet(jobs[j]) : j \in DOMAIN jobs}
FreePids == Pid \ Remembered
UsedJobs == {j \in 1..JobMax : jobs[j] # Unused}

\* A table without room leaves the job to itself.
JobAdd(pids) ==
    jobs' = IF UsedJobs = 1..JobMax THEN jobs
            ELSE [jobs EXCEPT ![Min((1..JobMax) \ UsedJobs)] = pids]
\* A job is done when all of its processes are. As if the last one spoke for all.
JobDoneLast(pids) == pids = <<>> \/ Done(Last(pids))
JobDone(pids) == \A i \in DOMAIN pids : Done(pids[i])
JobReap == jobs' = [j \in 1..JobMax |-> IF j \in UsedJobs /\ JobDone(jobs[j]) THEN Unused ELSE jobs[j]]

---------------------------------------------------------------------------
(* The shell's steps *)

\* The loop of main and of run_script: the next line, after a look at the jobs. A script
\* never looks at them, and the shell exits behind its last line.
BackToPrompt(s) ==
    /\ sh' = [s EXCEPT !.at = "prompt", !.line = NoLine, !.seg = 0, !.pids = <<>>, !.i = 0, !.prev = NoFile]
    /\ IF s.script THEN UNCHANGED jobs ELSE JobReap

\* dispatch: jobs and fg are run at once when they come first, whatever follows them.
First(line) == line.segs[1].cmd
Dispatch(line, rest) ==
    IF First(line) = "jobs"
    THEN BackToPrompt([sh EXCEPT !.rest = rest])
    ELSE IF First(line) = "fg"
    THEN \* The job of the given number, or the one in the highest slot.
         IF UsedJobs = {} THEN BackToPrompt([sh EXCEPT !.rest = rest])
         ELSE /\ \E j \in UsedJobs : sh' = [sh EXCEPT !.at = "fg", !.job = j, !.pids = jobs[j], !.i = 1, !.rest = rest]
              /\ UNCHANGED jobs
    ELSE /\ sh' = [sh EXCEPT !.at = "segment", !.line = line, !.seg = 1, !.pids = <<>>, !.prev = NoFile, !.rest = rest]
         /\ UNCHANGED jobs

TypeLine(line) ==
    /\ sh.at = "prompt" /\ ~sh.script
    /\ Dispatch(line, <<>>)
    /\ UNCHANGED kids
\* ^C at the prompt drops the line.
InterruptPrompt ==
    /\ sh.at = "prompt" /\ ~sh.script
    /\ BackToPrompt(sh)
    /\ UNCHANGED kids
ScriptLine ==
    /\ sh.at = "prompt" /\ sh.script /\ sh.rest # <<>>
    /\ Dispatch(Head(sh.rest), Tail(sh.rest))
    /\ UNCHANGED kids
\* The kernel kills the children of a process that exits.
Leave ==
    /\ sh' = [sh EXCEPT !.at = "gone", !.fds = [f \in Fd |-> Closed]]
    /\ kids' = [p \in {} |-> Std]
    /\ UNCHANGED jobs
ScriptEnd ==
    /\ sh.at = "prompt" /\ sh.script /\ sh.rest = <<>>
    /\ Leave

Seg == sh.line.segs[sh.seg]
IsLast == sh.seg = Len(sh.line.segs)

\* A segment without a command, or with redirections only: what it would have read is closed.
EmptySegment ==
    /\ sh.at = "segment" /\ Seg.cmd = "none" /\ "bad" \notin ToSet(Seg.redirs)
    /\ sh' = [sh EXCEPT !.fds = CloseIn(@, sh.prev), !.prev = NoFile, !.seg = @ + 1,
                        !.at = IF IsLast THEN "spawned" ELSE "segment"]
    /\ UNCHANGED <<jobs, kids>>

\* A redirection that cannot be read, or a pipe that cannot be had, gives up the line;
\* the children forked before are left to themselves.
GiveUp ==
    /\ sh.at = "segment"
    /\ \/ "bad" \in ToSet(Seg.redirs)
       \/ Seg.cmd # "none" /\ ~IsLast /\ ~MayPipe(sh.fds)
    /\ BackToPrompt([sh EXCEPT !.fds = CloseIn(@, sh.prev)])
    /\ UNCHANGED kids

\* cd, exit, export and unset alone on a line. The standard descriptors are saved at the
\* upper end of the table, where there is no place for the third: it is not restored.
SaveAt(f) == FdMax - 2 + f
Targets(redirs) == {Target(redirs[i]) : i \in DOMAIN redirs}
Saved(t, targets) == [f \in Fd |-> IF \E g \in targets : f = SaveAt(g) THEN t[f - (FdMax - 2)] ELSE t[f]]
Restored(t, targets) ==
    [f \in Fd |-> IF \E g \in targets : f = SaveAt(g) THEN Closed
                  ELSE IF f \in targets /\ SaveAt(f) \in Fd /\ t[SaveAt(f)] # Closed THEN t[SaveAt(f)] ELSE t[f]]

RunInProcess ==
    /\ sh.at = "segment" /\ Len(sh.line.segs) = 1 /\ ~sh.line.bg
    /\ Seg.cmd \in InProcess /\ "bad" \notin ToSet(Seg.redirs)
    /\ IF Seg.cmd = "exit" THEN Leave
       ELSE \E good \in 0..Len(Seg.redirs) :
            /\ MayRedirect(sh.fds, Seg.redirs, good)
            /\ sh' = [sh EXCEPT !.fds = Restored(ApplyRedirs(Saved(@, Targets(Seg.redirs)), Seg.redirs, good,
                                                             IF FreePipes = {} THEN 0 ELSE NewPipe),
                                                 Targets(Seg.redirs)),
                                !.seg = @ + 1, !.at = "spawned"]
            /\ UNCHANGED <<jobs, kids>>

\* What the child of a segment still has to do: take the pipes and open its files.
Task(prev, r, w) == [prev |-> prev, r |-> r, w |-> w, redirs |-> Seg.redirs]
\* The shell closes what it gave to the child. As if it kept the write end.
ParentKeeps(t, w) == CloseIn(t, sh.prev)
ParentCloses(t, w) == CloseIn(CloseIn(t, w), sh.prev)

Advance(t, r, w, pids) ==
    sh' = [sh EXCEPT !.fds = ParentCloses(t, w), !.prev = r, !.seg = @ + 1, !.pids = pids,
                     !.at = IF IsLast THEN "spawned" ELSE "segment"]
\* The call of fork fails when there is no memory: the segment is passed over.
Fork(t, r, w) ==
    \/ /\ FreePids # {}
       /\ \E p \in {Min(FreePids)} :
             /\ kids' = [q \in DOMAIN kids \union {p} |->
                            IF q = p THEN [fds |-> t, todo |-> <<Task(sh.prev, r, w)>>] ELSE kids[q]]
             /\ Advance(t, r, w, Append(sh.pids, p))
    \/ /\ Advance(t, r, w, sh.pids)
       /\ UNCHANGED kids

ForkSegment ==
    /\ sh.at = "segment" /\ Seg.cmd # "none" /\ "bad" \notin ToSet(Seg.redirs)
    /\ ~(Len(sh.line.segs) = 1 /\ ~sh.line.bg /\ Seg.cmd \in InProcess)
    /\ IF IsLast THEN Fork(sh.fds, NoFile, NoFile)
       ELSE /\ MayPipe(sh.fds)
            /\ Fork(WithPipe(sh.fds, NewPipe), ReadFd(sh.fds), WriteFd(sh.fds))
    /\ UNCHANGED jobs

\* Behind the last segment: a background line becomes a job, another is waited for.
Spawned ==
    /\ sh.at = "spawned"
    /\ IF sh.line.bg
       THEN /\ sh' = [sh EXCEPT !.fds = CloseIn(@, sh.prev), !.prev = NoFile, !.at = "done"]
            /\ JobAdd(sh.pids)
       ELSE /\ sh' = [sh EXCEPT !.fds = CloseIn(@, sh.prev), !.prev = NoFile, !.at = "wait", !.i = 1]
            /\ UNCHANGED jobs
    /\ UNCHANGED kids
LineDone ==
    /\ sh.at = "done"
    /\ BackToPrompt(sh)
    /\ UNCHANGED kids

\* The loops of run_pipeline and job_fg, that look at one process after the other.
WaitNext ==
    /\ sh.at \in {"wait", "fg"} /\ sh.i <= Len(sh.pids) /\ Done(sh.pids[sh.i])
    /\ sh' = [sh EXCEPT !.i = @ + 1]
    /\ UNCHANGED <<jobs, kids>>
\* A job taken to the foreground leaves the table at the end of its wait.
EndOfWait(s) ==
    /\ sh' = [s EXCEPT !.at = "done", !.job = 0]
    /\ jobs' = IF s.at = "fg" THEN [jobs EXCEPT ![s.job] = Unused] ELSE jobs
Waited ==
    /\ sh.at \in {"wait", "fg"} /\ sh.i > Len(sh.pids)
    /\ EndOfWait(sh)
    /\ UNCHANGED kids
\* ^C kills what the shell waits for, from the process it looks at on.
WaitInterrupted ==
    /\ sh.at \in {"wait", "fg"} /\ sh.i <= Len(sh.pids) /\ ~Done(sh.pids[sh.i])
    /\ kids' = Restrict(kids, DOMAIN kids \ ToSet(SubSeq(sh.pids, sh.i, Len(sh.pids))))
    /\ EndOfWait(sh)

---------------------------------------------------------------------------
(* Children *)

\* The child's side of fork: pipes to their places, then the redirections. One that cannot
\* open a file exits, as it may at any time.
TakenIn(t, w) ==
    CloseIn(CloseIn(CloseIn(Dup2(Dup2(t, w.prev, 0), w.w, 1), w.prev), w.w), w.r)
ChildStart(p) ==
    /\ kids[p].todo # <<>>
    /\ LET w == Head(kids[p].todo) IN
       /\ MayRedirect(kids[p].fds, w.redirs, Len(w.redirs))
       /\ kids' = [kids EXCEPT ![p] =
              [fds |-> ApplyRedirs(TakenIn(@.fds, w), w.redirs, Len(w.redirs), IF FreePipes = {} THEN 0 ELSE NewPipe),
               todo |-> <<>>]]
    /\ UNCHANGED <<sh, jobs>>
ChildExit(p) ==
    /\ kids' = Restrict(kids, DOMAIN kids \ {p})
    /\ UNCHANGED <<sh, jobs>>

---------------------------------------------------------------------------

ShellInit ==
    /\ \E script \in Scripts \union {<<>>} :
          sh = [at |-> "prompt", fds |-> Std, line |-> NoLine, seg |-> 0, pids |-> <<>>, i |-> 0,
                prev |-> NoFile, job |-> 0, script |-> script # <<>>, rest |-> script]
    /\ jobs = [j \in 1..JobMax |-> Unused]
    /\ kids = [p \in {} |-> Std]

Command == \/ InterruptPrompt
           \/ \E line \in Lines : TypeLine(line)
ShellStep ==
    \/ ScriptLine \/ ScriptEnd
    \/ EmptySegment \/ GiveUp \/ RunInProcess \/ ForkSegment \/ Spawned \/ LineDone
    \/ WaitNext \/ Waited \/ WaitInterrupted
    \/ \E p \in DOMAIN kids : ChildStart(p) \/ ChildExit(p)

ShellNext == Command \/ ShellStep

ShellSpec == ShellInit /\ [][ShellNext]_shellVars

---------------------------------------------------------------------------
(* Properties *)

Holders(end) == {p \in DOMAIN kids : \E f \in Fd : kids[p].fds[f] = end}

\* Between two lines the shell holds its standard descriptors and nothing else, and once
\* the children have taken their places every end of a pipe is held by one of them at
\* most: a reader sees the end when its writer exits, and a writer when its reader does.
\* Standard error may be left in a file.
PipesCloseDown ==
    sh.at \in {"prompt", "wait", "fg"} =>
        /\ \A f \in Fd : sh.fds[f] \in (IF f = 2 THEN {Tty, File} ELSE {Std[f]})
        /\ (\A p \in DOMAIN kids : kids[p].todo = <<>>)
              => \A n \in Pipe : /\ Cardinality(Holders(ReadEnd(n))) <= 1
                                 /\ Cardinality(Holders(WriteEnd(n))) <= 1

\* A job leaves the table only when none of its processes is left, or is killed with it.
JobEndsWithProcesses ==
    [][\A j \in 1..JobMax :
          (jobs[j] # Unused /\ jobs'[j] = Unused)
             => \A i \in DOMAIN jobs[j] : jobs[j][i] \notin DOMAIN kids']_shellVars
==============================================================================
