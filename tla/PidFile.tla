------------------------------ MODULE PidFile ------------------------------
(***************************************************************************)
(* The operating system's process table and the pid files that describe    *)
(* it (local/pid).  A pid file is the only link between the command that   *)
(* started a process and the commands that look for it later: it names a   *)
(* pid, is read and written without a lock, and outlives the process.      *)
(*                                                                         *)
(* Two kinds of processes have a pid: the commands started by a runner     *)
(* (Pids, reused by the system once reaped) and the symfony processes that *)
(* execute runners (Hosts).  Reading a file that is missing, truncated or  *)
(* not JSON gives a PidFile whose Pid is 0: the three are NoPid here.      *)
(***************************************************************************)
CONSTANTS Runners,  \* the Runner values of the symfony processes
          Pids,     \* pids the system gives to commands
          Hosts,    \* pids of the symfony processes themselves
          Paths,    \* pid files
          NoPid,    \* the zero Pid
          Nobody    \* the parent of a process that no runner waits for

ASSUME PidAssumption ==
    /\ Pids \cap Hosts = {}
    /\ NoPid \notin Pids \cup Hosts
    /\ Nobody \notin Runners

VARIABLES proc,    \* Pids -> free, run, or the exit status of a zombie
          parent,  \* Pids -> the runner whose cmd.Wait reaps it
          term,    \* pids that received a terminating signal
          up,      \* Hosts that are alive
          pidf     \* Paths -> the Pid field of the file

pidVars == <<proc, parent, term, up, pidf>>

Zombie == {"ok", "err"}

PidTypeOK ==
    /\ proc \in [Pids -> {"free", "run"} \cup Zombie]
    /\ parent \in [Pids -> Runners \cup {Nobody}]
    /\ term \in SUBSET Pids
    /\ up \in SUBSET Hosts
    /\ pidf \in [Paths -> Pids \cup Hosts \cup {NoPid}]

\* Files left by processes that died (a crash, a reboot) may name any pid.
PidInit ==
    /\ proc = [p \in Pids |-> "free"]
    /\ parent = [p \in Pids |-> Nobody]
    /\ term = {}
    /\ up = Hosts
    /\ pidf \in [Paths -> Pids \cup {NoPid}]

(***************************************************************************)
(* Signal 0 reaches a zombie as well as a living process, of any owner.    *)
(***************************************************************************)
IsRunning(x) ==
    \/ x \in Pids /\ proc[x] # "free"
    \/ x \in up

LiveChildren(r) == {p \in Pids : parent[p] = r}

(***************************************************************************)
(* The system starts, ends and reaps processes.                            *)
(***************************************************************************)
Spawn(p, owner) ==
    /\ proc[p] = "free"
    /\ proc' = [proc EXCEPT ![p] = "run"]
    /\ parent' = [parent EXCEPT ![p] = owner]
    /\ term' = term \ {p}

Reap(p) ==
    /\ proc[p] \in Zombie
    /\ proc' = [proc EXCEPT ![p] = "free"]
    /\ parent' = [parent EXCEPT ![p] = Nobody]
    /\ term' = term \ {p}

Exit(p) ==
    /\ proc[p] = "run"
    /\ \E status \in Zombie : proc' = [proc EXCEPT ![p] = status]
    /\ UNCHANGED <<parent, term, up, pidf>>

\* An unrelated program gets a pid that is free.
ForeignStart(p) ==
    /\ Spawn(p, Nobody)
    /\ UNCHANGED <<up, pidf>>

\* Processes nobody waits for are reaped by init.
InitReaps(p) ==
    /\ parent[p] = Nobody
    /\ Reap(p)
    /\ UNCHANGED <<up, pidf>>

(***************************************************************************)
(* The process group of a command is its own (Setpgid), so a signal sent   *)
(* to the group reaches the command and neither the host nor a sibling.    *)
(***************************************************************************)
Terminate(P) == term' = term \cup {p \in Pids : p \in P /\ proc[p] = "run"}

\* Removing a file that exists succeeds; one that does not is no error.
RemovePidFile(f) == pidf' = [pidf EXCEPT ![f] = NoPid]

WritePidFile(f, x) == pidf' = [pidf EXCEPT ![f] = x]
=============================================================================
