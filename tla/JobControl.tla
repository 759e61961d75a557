------------------------------ MODULE JobControl ------------------------------
(* What the kernel and a job-control shell do around `wado` and the children  *)
(* it confines: process states as `waitid` reports them, ids that are used    *)
(* again, the terminal's foreground group and mode, and the stops and         *)
(* continues of the host's own group. Not code of the repository: it is here  *)
(* as wado-host/src/sandbox.rs and sandbox/terminal.rs rely on it.            *)
EXTENDS Naturals

CONSTANTS Child,    \* one spawn each, and the process group it leads
          Host,     \* the host's group; as a mode, the one the host set
          Shell,    \* the group of the shell that runs the host
          MaxStops  \* stops of children and Ctrl-Z of the host in a behaviour

ASSUME GroupsAssumption == Host # Shell /\ Host \notin Child /\ Shell \notin Child
ASSUME MaxStopsAssumption == MaxStops \in Nat

VARIABLES proc,    \* what the id of each child names
          status,  \* how the child ended, once it has
          told,    \* whether the child's stop is still to be reported
          kin,     \* whether the child's group holds live descendants
          fg,      \* the terminal's foreground group
          mode,    \* who set the terminal's mode
          host,    \* the host's process
          tstp,    \* whether a SIGTSTP to the host is not delivered yet
          orphan,  \* what `orphaned` answers, which does not change
          stops

kernel == <<proc, status, told, kin, fg, mode, host, tstp, orphan, stops>>

Live == {"running", "stopped"}

KernelTypeOK ==
  /\ proc \in [Child -> Live \cup {"none", "zombie", "reaped", "stranger", "struck"}]
  /\ status \in [Child -> {"exited", "signaled"}]
  /\ told \in [Child -> BOOLEAN]
  /\ kin \in [Child -> BOOLEAN]
  /\ fg \in Child \cup {Host, Shell}
  /\ mode \in Child \cup {Host}
  /\ host \in {"running", "stopped", "exited"}
  /\ tstp \in BOOLEAN
  /\ orphan \in BOOLEAN
  /\ stops \in 0 .. MaxStops

(* The host may be started in the background.                                 *)
KernelInit ==
  /\ proc = [c \in Child |-> "none"]
  /\ status = [c \in Child |-> "exited"]
  /\ told = [c \in Child |-> FALSE]
  /\ kin = [c \in Child |-> FALSE]
  /\ fg \in {Host, Shell}
  /\ mode = Host
  /\ host = "running"
  /\ tstp = FALSE
  /\ orphan \in BOOLEAN
  /\ stops = 0

------------------------------------------------------------------------------
(* Calls of the host.                                                         *)

(* fork and exec: a live leader, which may start descendants.                 *)
Start(c) ==
  /\ proc' = [proc EXCEPT ![c] = "running"]
  /\ \E k \in BOOLEAN : kin' = [kin EXCEPT ![c] = k]

(* killpg with SIGKILL of the groups in `S`. A group is gone with its leader  *)
(* reaped, unless its id was given to a stranger.                             *)
KillGroups(S) ==
  /\ proc' = [c \in Child |-> CASE c \in S /\ proc[c] \in Live -> "zombie"
                                [] c \in S /\ proc[c] = "stranger" -> "struck"
                                [] OTHER -> proc[c]]
  /\ status' = [c \in Child |->
                  IF c \in S /\ proc[c] \in Live THEN "signaled" ELSE status[c]]
  /\ told' = [c \in Child |-> told[c] /\ c \notin S]
  /\ kin' = [c \in Child |-> kin[c] /\ c \notin S]

(* killpg with SIGCONT. A stop that was continued is no longer reported.      *)
ContinueGroup(c) ==
  /\ proc' = [proc EXCEPT ![c] = CASE @ = "stopped" -> "running"
                                   [] @ = "stranger" -> "struck"
                                   [] OTHER -> @]
  /\ told' = [told EXCEPT ![c] = FALSE]

------------------------------------------------------------------------------
(* Steps of the children.                                                     *)

(* A child ends by itself, or by a signal such as Ctrl-C.                     *)
ChildEnds(c) ==
  /\ proc[c] = "running"
  /\ proc' = [proc EXCEPT ![c] = "zombie"]
  /\ \E s \in {"exited", "signaled"} : status' = [status EXCEPT ![c] = s]
  /\ UNCHANGED <<told, kin, fg, mode, host, tstp, orphan, stops>>

(* A child stops: Ctrl-Z, a use of the terminal from the background, SIGSTOP. *)
ChildStops(c) ==
  /\ proc[c] = "running"
  /\ stops < MaxStops
  /\ proc' = [proc EXCEPT ![c] = "stopped"]
  /\ told' = [told EXCEPT ![c] = TRUE]
  /\ stops' = stops + 1
  /\ UNCHANGED <<status, kin, fg, mode, host, tstp, orphan>>

(* Only the foreground group sets the mode.                                   *)
ChildSetsMode(c) ==
  /\ proc[c] = "running"
  /\ fg = c
  /\ mode' = c
  /\ UNCHANGED <<proc, status, told, kin, fg, host, tstp, orphan, stops>>

(* The id of a reaped child passes to an unrelated process.                   *)
IdReused(c) ==
  /\ proc[c] = "reaped"
  /\ proc' = [proc EXCEPT ![c] = "stranger"]
  /\ UNCHANGED <<status, told, kin, fg, mode, host, tstp, orphan, stops>>

------------------------------------------------------------------------------
(* Steps of the user and the shell. Where the host's group is not orphaned.   *)

(* Ctrl-Z with the host in the foreground.                                    *)
CtrlZ ==
  /\ host = "running" /\ fg = Host /\ ~orphan
  /\ stops < MaxStops
  /\ tstp' = TRUE
  /\ stops' = stops + 1
  /\ UNCHANGED <<proc, status, told, kin, fg, mode, host, orphan>>

(* The stop is delivered to one thread of the host, and stops the others when *)
(* it acts on it: the thread that called killpg may run on until then.        *)
HostStops ==
  /\ host = "running" /\ tstp
  /\ host' = "stopped"
  /\ tstp' = FALSE
  /\ UNCHANGED <<proc, status, told, kin, fg, mode, orphan, stops>>

(* The shell sees the stop and takes the terminal.                            *)
ShellTakes ==
  /\ host = "stopped" /\ fg # Shell
  /\ fg' = Shell
  /\ UNCHANGED <<proc, status, told, kin, mode, host, tstp, orphan, stops>>

(* `fg` and `bg`. SIGCONT discards a stop that is not delivered.              *)
Foreground ==
  /\ fg = Shell /\ host # "exited" /\ ~orphan
  /\ fg' = Host
  /\ host' = "running"
  /\ tstp' = FALSE
  /\ UNCHANGED <<proc, status, told, kin, mode, orphan, stops>>

Background ==
  /\ fg = Shell /\ host = "stopped"
  /\ host' = "running"
  /\ tstp' = FALSE
  /\ UNCHANGED <<proc, status, told, kin, fg, mode, orphan, stops>>

ChildStep(c) == ChildEnds(c) \/ ChildStops(c) \/ ChildSetsMode(c) \/ IdReused(c)

ShellStep == CtrlZ \/ HostStops \/ ShellTakes \/ Foreground \/ Background

KernelNext == (\E c \in Child : ChildStep(c)) \/ ShellStep
==============================================================================
