---------------------------- MODULE CommandExec ----------------------------
(***************************************************************************)
(* The shell tool runs a command (tools/shell.c) and takes what it leaves  *)
(* behind away again.  In the sandbox (sandbox/sandbox.c) a wrapper        *)
(* process sets namespaces up and forks the command, which is process 1 of *)
(* its PID namespace; without it the command is a plain child in a process *)
(* group of its own.  The parent holds the agent lock meanwhile.           *)
(*                                                                         *)
(* A process is [state, group, out, err, dies, killed]: whether it is in   *)
(* the process group of the tracked pid, holds the write end of the output *)
(* and of the error pipe, has asked for the death of its parent            *)
(* (PR_SET_PDEATHSIG), and has a SIGKILL pending.  The kernel is external: *)
(* a pending SIGKILL takes effect later, and with process 1 its whole      *)
(* namespace dies.  Nobody else kills the processes.  Memory exhaustion    *)
(* and failing pipes are left out.                                         *)
(***************************************************************************)
EXTENDS Integers, FiniteSets

CONSTANT MaxRuns    \* bound on the commands that are run

Procs == {"wrapper", "cmd", "bg"}
NoProc == [state |-> "none", group |-> FALSE, out |-> FALSE, err |-> FALSE,
           dies |-> FALSE, killed |-> FALSE]

VARIABLES
    mode,      \* "sandbox" or "plain"
    parent,    \* "idle", "iso", "drain", "reap", "wait" or "done"
    proc,      \* the processes of the command
    byte,      \* an isolation byte is in the error pipe
    result,    \* what the tool returned
    cgroup,    \* the control group of the command: it was made, or not
    left,      \* how many control groups could not be removed
    runs

execVars == <<mode, parent, proc, byte, result, cgroup, left, runs>>

Alive(p) == proc[p].state \notin {"none", "dead"}

\* The pid that fork returned to the parent.
Tracked == IF mode = "sandbox" THEN "wrapper" ELSE "cmd"

ExecInit ==
    /\ mode = "plain" /\ parent = "idle"
    /\ proc = [p \in Procs |-> NoProc]
    /\ byte = FALSE /\ result = "none" /\ runs = 0
    /\ cgroup = FALSE /\ left = 0

-----------------------------------------------------------------------------
(* The parent. *)

\* shell_execute refuses a command by the allowlist or the blocklist.
Blocked ==
    /\ parent = "idle"
    /\ result' = "blocked"
    /\ UNCHANGED <<mode, parent, proc, byte, cgroup, left, runs>>

Forked == [NoProc EXCEPT !.state = "setup", !.group = TRUE, !.out = TRUE, !.err = TRUE]

\* The directory of a control group is made if the kernel has controllers; the
\* command runs without one otherwise.
cgroup_prepare == cgroup' \in BOOLEAN

\* pipe, cgroup_prepare and fork; in the plain mode both sides call setpgid.
shell_execute ==
    /\ parent = "idle" /\ runs < MaxRuns
    /\ runs' = runs + 1
    /\ byte' = FALSE /\ result' = "none" /\ UNCHANGED left
    /\ \/ /\ mode' = "sandbox" /\ parent' = "iso" /\ cgroup_prepare
          /\ proc' = [[p \in Procs |-> NoProc] EXCEPT !["wrapper"] = Forked]
       \/ /\ mode' = "plain" /\ parent' = "drain" /\ cgroup' = FALSE
          /\ proc' = [[p \in Procs |-> NoProc] EXCEPT !["cmd"] = [Forked EXCEPT !.err = FALSE]]

\* read_isolation_byte: a byte, or nothing within the timeout, is a failure; end
\* of file means that the command was started.
read_isolation_byte ==
    /\ parent = "iso"
    /\ \/ byte /\ parent' = "reap" /\ result' = "not isolated"
       \/ ~byte /\ parent' = "reap" /\ result' = "not isolated"
       \/ /\ ~byte /\ \A p \in Procs : ~(Alive(p) /\ proc[p].err)
          /\ parent' = "drain" /\ UNCHANGED result
    /\ UNCHANGED <<mode, proc, byte, cgroup, left, runs>>

\* The output is read up to end of file, a full buffer or the deadline, by
\* drain_pipe or by the loop of run_unsandboxed.
drain_pipe ==
    /\ parent = "drain"
    /\ \/ (\A p \in Procs : ~(Alive(p) /\ proc[p].out)) /\ UNCHANGED result
       \/ (\E p \in Procs : Alive(p) /\ proc[p].out) /\ UNCHANGED result
       \/ result' = "timed out"
    /\ parent' = "reap"
    /\ UNCHANGED <<mode, proc, byte, cgroup, left, runs>>

Killed(ps) == [p \in Procs |-> [proc[p] EXCEPT !.killed = @ \/ (p \in ps /\ Alive(p))]]

\* Mutant: only the tracked process is killed, not its group.
Mut_kill_command_tree == Killed({Tracked})

\* kill(-pid) and kill(pid).
kill_command_tree == Killed({p \in Procs : proc[p].group} \cup {Tracked})

\* rmdir, which the kernel refuses while a process is in the control group.
cgroup_remove ==
    /\ cgroup' = FALSE
    /\ left' = IF cgroup /\ \E p \in Procs : Alive(p) THEN left + 1 ELSE left

\* In the sandbox what is not found dead is killed, the process and its group.
reap_child ==
    /\ parent = "reap" /\ mode = "sandbox"
    /\ \/ ~Alive(Tracked) /\ parent' = "done" /\ cgroup_remove /\ UNCHANGED <<proc, result>>
       \/ /\ Alive(Tracked)
          /\ proc' = kill_command_tree /\ parent' = "wait"
          /\ result' = IF result = "none" THEN "timed out" ELSE result
          /\ UNCHANGED <<cgroup, left>>
    /\ UNCHANGED <<mode, byte, runs>>

\* Without it the group is killed in any case, and then looked at.
reap_running_child ==
    /\ parent = "reap" /\ mode = "plain"
    /\ proc' = kill_command_tree /\ parent' = "wait"
    /\ result' = IF result = "none" /\ Alive(Tracked) THEN "timed out" ELSE result
    /\ UNCHANGED <<mode, byte, cgroup, left, runs>>

\* waitpid returns; the control group is removed and the tool returns.
Reaped ==
    /\ parent = "wait" /\ ~Alive(Tracked)
    /\ parent' = "done" /\ cgroup_remove
    /\ UNCHANGED <<mode, proc, byte, result, runs>>

\* The next command.
Return ==
    /\ parent = "done"
    /\ parent' = "idle"
    /\ UNCHANGED <<mode, proc, byte, result, cgroup, left, runs>>

-----------------------------------------------------------------------------
(* The processes. *)

Runs(p, s) == proc[p].state = s /\ ~proc[p].killed

\* The death of a process: process 1 takes its namespace with it, and a command
\* that asked for it is killed with the wrapper.
Dead(p) ==
    proc' = [q \in Procs |->
        IF q = p THEN [proc[q] EXCEPT !.state = "dead"]
        ELSE IF /\ Alive(q)
                /\ \/ mode = "sandbox" /\ p = "cmd" /\ q = "bg"
                   \/ p = "wrapper" /\ q = "cmd" /\ proc[q].dies
        THEN [proc[q] EXCEPT !.killed = TRUE]
        ELSE proc[q]]

KillTakesEffect(p) ==
    /\ Alive(p) /\ proc[p].killed
    /\ Dead(p)
    /\ UNCHANGED <<mode, parent, byte, result, cgroup, left, runs>>

\* The namespaces are refused, without and with a user namespace: the wrapper
\* reports and exits.
IsolationFails ==
    /\ Runs("wrapper", "setup")
    /\ byte' = TRUE /\ Dead("wrapper")
    /\ UNCHANGED <<mode, parent, result, cgroup, left, runs>>

\* The wrapper is isolated and forks the command.
setup_child_process ==
    /\ Runs("wrapper", "setup")
    /\ proc' = [proc EXCEPT !["wrapper"].state = "wait", !["wrapper"].err = FALSE,
                            !["cmd"] = Forked]
    /\ UNCHANGED <<mode, parent, byte, result, cgroup, left, runs>>

\* The command asks for its death with the wrapper.
AsksToDie ==
    /\ mode = "sandbox" /\ Runs("cmd", "setup")
    /\ proc' = [proc EXCEPT !["cmd"].dies = TRUE, !["cmd"].state = "restrict"]
    /\ UNCHANGED <<mode, parent, byte, result, cgroup, left, runs>>

\* Working directory, /proc and Landlock; a failure is reported.
setup_command_process ==
    /\ Runs("cmd", "restrict")
    /\ \/ byte' = TRUE /\ Dead("cmd")
       \/ /\ proc' = [proc EXCEPT !["cmd"].state = "run", !["cmd"].err = FALSE]
          /\ UNCHANGED byte
    /\ UNCHANGED <<mode, parent, result, cgroup, left, runs>>

PlainExec ==
    /\ mode = "plain" /\ Runs("cmd", "setup")
    /\ proc' = [proc EXCEPT !["cmd"].state = "run"]
    /\ UNCHANGED <<mode, parent, byte, result, cgroup, left, runs>>

\* What a command may do: start something in the background, which may leave
\* the process group, close its output, and exit.
StartsBackground ==
    /\ Runs("cmd", "run") /\ proc["bg"].state = "none"
    /\ proc' = [proc EXCEPT !["bg"] = [proc["cmd"] EXCEPT !.dies = FALSE]]
    /\ UNCHANGED <<mode, parent, byte, result, cgroup, left, runs>>

LeavesGroup ==
    /\ Runs("bg", "run") /\ proc["bg"].group
    /\ proc' = [proc EXCEPT !["bg"].group = FALSE]
    /\ UNCHANGED <<mode, parent, byte, result, cgroup, left, runs>>

ClosesOutput(p) ==
    /\ Runs(p, "run") /\ proc[p].out
    /\ proc' = [proc EXCEPT ![p].out = FALSE]
    /\ UNCHANGED <<mode, parent, byte, result, cgroup, left, runs>>

Exits(p) ==
    /\ Runs(p, "run")
    /\ Dead(p)
    /\ UNCHANGED <<mode, parent, byte, result, cgroup, left, runs>>

wait_and_exit_with_child ==
    /\ Runs("wrapper", "wait") /\ ~Alive("cmd")
    /\ Dead("wrapper")
    /\ UNCHANGED <<mode, parent, byte, result, cgroup, left, runs>>

ExecNext ==
    \/ Blocked \/ shell_execute \/ read_isolation_byte \/ drain_pipe
    \/ reap_child \/ reap_running_child \/ Reaped \/ Return
    \/ IsolationFails \/ setup_child_process \/ AsksToDie \/ setup_command_process \/ PlainExec
    \/ StartsBackground \/ LeavesGroup \/ wait_and_exit_with_child
    \/ \E p \in {"cmd", "bg"} : ClosesOutput(p) \/ Exits(p)
    \/ \E p \in Procs : KillTakesEffect(p)

ExecSpec == ExecInit /\ [][ExecNext]_execVars

-----------------------------------------------------------------------------
(* Properties. *)

\* When the tool returns nothing of the command goes on: every process is dead
\* or about to be, however the parent got there - a failed or a slow isolation,
\* an output closed early, a full buffer, the deadline - and whatever the
\* command had started.  Outside the sandbox this does not hold of a process
\* that left the group (sandbox.c:383-404, shell.c:63-94).
Ending(p) == ~Alive(p) \/ proc[p].killed
NothingLeft ==
    parent \in {"done", "idle"} =>
        \A p \in Procs :
            \/ Ending(p)
            \/ mode = "sandbox" /\ p = "bg" /\ Ending("cmd")
            \/ mode = "plain" /\ ~proc[p].group
=============================================================================
