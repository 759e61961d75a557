------------------------------- MODULE Children -------------------------------
(* The children a guest spawns through `core:process`: the thread that waits  *)
(* on each, the handle the guest keeps, and the terminal they hold in turns.  *)
(*                                                                            *)
(* Source: wado-host/src/sandbox.rs (`spawn`, `Child`),                       *)
(* wado-host/src/sandbox/terminal.rs and wado-host/src/process_host/posix.rs. *)
(*                                                                            *)
(* What runs under HOLD is one step, so the shell does not act between a look *)
(* at the foreground group and what follows from it; `stop_host` lets HOLD go *)
(* and is steps of its own.                                                   *)
EXTENDS JobControl

VARIABLES holder,  \* HOLD.holder
          saved,   \* HOLD.host_mode
          at,      \* where each child's spawn, and then its waiter, is
          left,    \* `child_mode` of `follow_stop`
          reaped,  \* Child::reaped
          ended    \* whether the guest has ended

hostVars == <<holder, saved, at, left, reaped, ended>>

vars == <<proc, status, told, kin, fg, mode, host, tstp, orphan, stops,
          holder, saved, at, left, reaped, ended>>

Free == [is |-> "host", pid |-> Host]
Reserved == [is |-> "reserved", pid |-> Host]
Held(c) == [is |-> "child", pid |-> c]
Suspended(c) == [is |-> "stopped", pid |-> c]

(* "elsewhere", "reserved", "unreserved": about to fork, the first with no    *)
(* stream from the terminal and then "awaiting" its end alone. "launched": the*)
(* child runs, `held_by` is to come. "stopping": HOLD let go, killpg to come. *)
(* "back": killpg returned. "asleep", "asleep again": waits of `follow_stop`. *)
Spawning == {"elsewhere", "reserved", "unreserved", "launched"}
Reserving == {"reserved", "launched"}
Stages == Spawning \cup
          {"idle", "failed", "awaiting", "waiting",
           "stop seen", "follow", "queued", "asleep", "stopping", "back",
           "asleep again", "resume", "release", "sweep", "reap", "done"}

TypeOK ==
  /\ KernelTypeOK
  /\ holder \in {Free, Reserved} \cup {Held(c) : c \in Child} \cup {Suspended(c) : c \in Child}
  /\ saved \in Child \cup {Host}
  /\ at \in [Child -> Stages]
  /\ left \in [Child -> Child \cup {Host}]
  /\ reaped \in [Child -> BOOLEAN]
  /\ ended \in BOOLEAN

Init ==
  /\ KernelInit
  /\ holder = Free
  /\ saved = Host
  /\ at = [c \in Child |-> "idle"]
  /\ left = [c \in Child |-> Host]
  /\ reaped = [c \in Child |-> FALSE]
  /\ ended = FALSE

------------------------------------------------------------------------------
Go(c, stage) == at' = [at EXCEPT ![c] = stage]

(* The waits of `follow_stop` look at the hold again.                         *)
Woken(stage) ==
  CASE stage = "asleep" -> "queued" [] stage = "asleep again" -> "back" [] OTHER -> stage

(* RETURNED is not notified.                                                  *)
TakeBack_Unnotified(c, stage, m) ==
  /\ fg' = Host
  /\ mode' = m
  /\ holder' = Free
  /\ Go(c, stage)
  /\ UNCHANGED saved

(* `take_back`: the terminal is the host's, and those who wait for it wake.   *)
TakeBack(c, stage, m) ==
  /\ fg' = Host
  /\ mode' = m
  /\ holder' = Free
  /\ at' = [d \in Child |-> IF d = c THEN stage ELSE Woken(at[d])]
  /\ UNCHANGED saved

(* `hand_over`, then the mode and the terminal to the child.                  *)
HandOver(c, m) ==
  /\ saved' = mode
  /\ holder' = Held(c)
  /\ mode' = m
  /\ fg' = c
  /\ Go(c, "resume")

------------------------------------------------------------------------------
(* The spawn. Guests of one process, as the instances of `wado serve`, spawn  *)
(* at the same time.                                                          *)

(* No stream of the child is the terminal.                                    *)
SpawnElsewhere(c) ==
  /\ at[c] = "idle" /\ ~ended
  /\ Go(c, "elsewhere")
  /\ UNCHANGED <<kernel, holder, saved, left, reaped, ended>>

(* The holder's pid is recorded before it is known.                           *)
Reserve(c) ==
  /\ at[c] = "idle" /\ ~ended
  /\ IF holder = Free /\ fg = Host
     THEN /\ saved' = mode
          /\ holder' = Reserved
          /\ Go(c, "reserved")
     ELSE /\ Go(c, "unreserved")
          /\ UNCHANGED <<saved, holder>>
  /\ UNCHANGED <<kernel, left, reaped, ended>>

(* The child of a reservation takes the terminal before its program starts.   *)
Fork(c) ==
  /\ Start(c)
  /\ \/ at[c] = "reserved" /\ fg' = c /\ Go(c, "launched")
     \/ at[c] = "unreserved" /\ Go(c, "waiting") /\ UNCHANGED fg
     \/ at[c] = "elsewhere" /\ Go(c, "awaiting") /\ UNCHANGED fg
  /\ UNCHANGED <<status, told, mode, host, tstp, orphan, stops,
                 holder, saved, left, reaped, ended>>

(* The backend fails, before or after its fork: a reservation is dropped.     *)
ForkFails(c) ==
  /\ \/ at[c] = "reserved" /\ TakeBack(c, "failed", mode)
     \/ /\ at[c] \in {"unreserved", "elsewhere"}
        /\ Go(c, "failed")
        /\ UNCHANGED <<fg, mode, holder, saved>>
  /\ UNCHANGED <<proc, status, told, kin, host, tstp, orphan, stops, left, reaped, ended>>

HeldBy(c) ==
  /\ at[c] = "launched"
  /\ holder' = Held(c)
  /\ Go(c, "waiting")
  /\ UNCHANGED <<kernel, saved, left, reaped, ended>>

------------------------------------------------------------------------------
(* The waiter.                                                                *)

(* `wait` of a child that does not use the terminal: its stops go unseen.     *)
WaitForEnd(c) ==
  /\ at[c] = "awaiting" /\ proc[c] = "zombie"
  /\ Go(c, "sweep")
  /\ UNCHANGED <<kernel, holder, saved, left, reaped, ended>>

(* `wait_id` of `follow_stops`, which leaves what it sees to be waited for.   *)
WaitId(c) ==
  /\ at[c] = "waiting"
  /\ \/ proc[c] = "stopped" /\ told[c] /\ Go(c, "stop seen")
     \/ proc[c] = "zombie" /\ Go(c, "release")
  /\ UNCHANGED <<kernel, holder, saved, left, reaped, ended>>

(* The stop is taken, unless the child moved on.                              *)
TakeStop(c) ==
  /\ at[c] = "stop seen"
  /\ told' = [told EXCEPT ![c] = FALSE]
  /\ Go(c, "follow")
  /\ UNCHANGED <<proc, status, kin, fg, mode, host, tstp, orphan, stops,
                 holder, saved, left, reaped, ended>>

(* The host stops with the child before it takes the terminal back.           *)
FollowHeld_ForegroundKept(c) ==
  /\ at[c] = "follow" /\ holder = Held(c)
  /\ IF orphan
     THEN Go(c, "resume") /\ UNCHANGED <<mode, holder, left>>
     ELSE /\ left' = [left EXCEPT ![c] = mode]
          /\ mode' = saved
          /\ holder' = Suspended(c)
          /\ Go(c, "stopping")
  /\ UNCHANGED <<proc, status, told, kin, fg, host, tstp, orphan, stops, saved, reaped, ended>>

(* `follow_stop` of the child that holds the terminal.                        *)
FollowHeld(c) ==
  /\ at[c] = "follow" /\ holder = Held(c)
  /\ IF orphan
     THEN Go(c, "resume") /\ UNCHANGED <<fg, mode, holder, left>>
     ELSE /\ left' = [left EXCEPT ![c] = mode]
          /\ fg' = Host
          /\ mode' = saved
          /\ holder' = Suspended(c)
          /\ Go(c, "stopping")
  /\ UNCHANGED <<proc, status, told, kin, host, tstp, orphan, stops, saved, reaped, ended>>

(* `follow_stop` of another child: it waits for the terminal, and stops the   *)
(* host where that is in the background.                                      *)
FollowOther(c) ==
  /\ at[c] = "queued" \/ (at[c] = "follow" /\ holder # Held(c))
  /\ \/ holder # Free /\ Go(c, "asleep") /\ UNCHANGED <<fg, mode, holder, saved>>
     \/ holder = Free /\ fg = Host /\ HandOver(c, mode)
     \/ /\ holder = Free /\ fg # Host
        /\ Go(c, IF orphan THEN "waiting" ELSE "stopping")
        /\ UNCHANGED <<fg, mode, holder, saved>>
  /\ UNCHANGED <<proc, status, told, kin, host, tstp, orphan, stops, left, reaped, ended>>

(* `stop_host`, which the code takes to return once the host is continued.    *)
StopHost(c) ==
  /\ at[c] = "stopping"
  /\ tstp' = TRUE
  /\ Go(c, "back")
  /\ UNCHANGED <<proc, status, told, kin, fg, mode, host, orphan, stops,
                 holder, saved, left, reaped, ended>>

(* The child that held the terminal gets it again with its mode, or the host  *)
(* takes it, in the background as it is.                                      *)
BackHeld(c) ==
  /\ at[c] = "back" /\ holder = Suspended(c)
  /\ IF fg = Host THEN HandOver(c, left[c]) ELSE TakeBack(c, "resume", saved)
  /\ UNCHANGED <<proc, status, told, kin, host, tstp, orphan, stops, left, reaped, ended>>

BackOther(c) ==
  /\ at[c] = "back" /\ holder # Suspended(c)
  /\ \/ holder # Free /\ Go(c, "asleep again") /\ UNCHANGED <<fg, mode, holder, saved>>
     \/ holder = Free /\ fg = Host /\ HandOver(c, mode)
     \/ holder = Free /\ fg # Host /\ Go(c, "resume") /\ UNCHANGED <<fg, mode, holder, saved>>
  /\ UNCHANGED <<proc, status, told, kin, host, tstp, orphan, stops, left, reaped, ended>>

(* `signal_group(SIGCONT)`                                                    *)
Resume(c) ==
  /\ at[c] = "resume"
  /\ IF reaped[c] THEN UNCHANGED <<proc, told>> ELSE ContinueGroup(c)
  /\ Go(c, "waiting")
  /\ UNCHANGED <<status, kin, fg, mode, host, tstp, orphan, stops,
                 holder, saved, left, reaped, ended>>

(* However the child ended, the terminal keeps its mode.                      *)
Release_ModeKept(c) ==
  /\ at[c] = "release"
  /\ IF holder = Held(c)
     THEN TakeBack(c, "sweep", mode)
     ELSE Go(c, "sweep") /\ UNCHANGED <<fg, mode, holder, saved>>
  /\ UNCHANGED <<proc, status, told, kin, host, tstp, orphan, stops, left, reaped, ended>>

(* `release`: a child that a signal ended leaves the host's mode.             *)
Release(c) ==
  /\ at[c] = "release"
  /\ IF holder = Held(c)
     THEN TakeBack(c, "sweep", IF status[c] = "exited" THEN mode ELSE saved)
     ELSE Go(c, "sweep") /\ UNCHANGED <<fg, mode, holder, saved>>
  /\ UNCHANGED <<proc, status, told, kin, host, tstp, orphan, stops, left, reaped, ended>>

(* The leader is reaped, its group left alone.                                *)
Sweep_LeaderOnly(c) ==
  /\ at[c] = "sweep" /\ Go(c, "reap")
  /\ UNCHANGED <<kernel, holder, saved, left, reaped, ended>>

(* `wait` kills what is left of the group before it reaps the leader.         *)
Sweep(c) ==
  /\ at[c] = "sweep"
  /\ IF reaped[c] THEN UNCHANGED <<proc, status, told, kin>> ELSE KillGroups({c})
  /\ Go(c, "reap")
  /\ UNCHANGED <<fg, mode, host, tstp, orphan, stops, holder, saved, left, reaped, ended>>

(* The waiter reaps, and `signal_group` is not told.                          *)
Reap_Untold(c) ==
  /\ at[c] = "reap"
  /\ proc' = [proc EXCEPT ![c] = "reaped"]
  /\ Go(c, "done")
  /\ UNCHANGED <<status, told, kin, fg, mode, host, tstp, orphan, stops,
                 holder, saved, left, reaped, ended>>

Reap(c) ==
  /\ at[c] = "reap"
  /\ proc' = [proc EXCEPT ![c] = "reaped"]
  /\ reaped' = [reaped EXCEPT ![c] = TRUE]
  /\ Go(c, "done")
  /\ UNCHANGED <<status, told, kin, fg, mode, host, tstp, orphan, stops,
                 holder, saved, left, ended>>

------------------------------------------------------------------------------
(* The guest's handles, from the spawn's return to the end of the guest.      *)
Handles == {c \in Child : at[c] \notin Spawning \cup {"idle", "failed"}}

(* `kill`, or the handle's drop: nothing once the child is reaped.            *)
Kill(c) ==
  /\ c \in Handles
  /\ ~ended
  /\ KillGroups({c} \ {d \in Child : reaped[d]})
  /\ UNCHANGED <<fg, mode, host, tstp, orphan, stops, holder, saved, at, left, reaped, ended>>

(* The guests end, each between two of its spawns, and their handles with the *)
(* stores.                                                                    *)
GuestEnds ==
  /\ ~ended
  /\ \A c \in Child : at[c] \notin Spawning
  /\ ended' = TRUE
  /\ KillGroups({c \in Handles : ~reaped[c]})
  /\ UNCHANGED <<fg, mode, host, tstp, orphan, stops, holder, saved, at, left, reaped>>

(* `restore_at_exit`, where no thread is in a step under HOLD.                *)
HostExits ==
  /\ ended
  /\ host' = "exited"
  /\ tstp' = FALSE
  /\ IF holder # Free THEN fg' = Host /\ mode' = saved ELSE UNCHANGED <<fg, mode>>
  /\ UNCHANGED <<proc, status, told, kin, orphan, stops, holder, saved, at, left, reaped, ended>>

------------------------------------------------------------------------------
Spawn(c) == SpawnElsewhere(c) \/ Reserve(c) \/ Fork(c) \/ ForkFails(c) \/ HeldBy(c)

Waiter(c) ==
  \/ WaitForEnd(c) \/ WaitId(c) \/ TakeStop(c) \/ FollowHeld(c) \/ FollowOther(c) \/ StopHost(c)
  \/ BackHeld(c) \/ BackOther(c) \/ Resume(c) \/ Release(c) \/ Sweep(c) \/ Reap(c)

HostNext == (\E c \in Child : Spawn(c) \/ Waiter(c) \/ Kill(c)) \/ GuestEnds \/ HostExits

World == KernelNext /\ UNCHANGED hostVars

Next == (host = "running" /\ HostNext) \/ World

(* The scheduler runs each thread, the user resumes a host that stopped, and  *)
(* a child that keeps running ends.                                           *)
Spec ==
  /\ Init /\ [][Next]_vars
  /\ \A c \in Child :
       /\ WF_vars(host = "running" /\ (Fork(c) \/ HeldBy(c)))
       /\ WF_vars(host = "running" /\ Waiter(c))
       /\ WF_vars(ChildEnds(c) /\ UNCHANGED hostVars)
  /\ WF_vars((HostStops \/ ShellTakes \/ Foreground) /\ UNCHANGED hostVars)

------------------------------------------------------------------------------
(* Properties.                                                                *)

(* A group is signalled only while its leader is not reaped: no signal of     *)
(* `signal_group` meets a process that was given the child's id.              *)
NoStrangerSignalled == \A c \in Child : proc[c] # "struck"

(* A descendant never outlives the child `wait` reaps.                        *)
NoneOutlives == \A c \in Child : proc[c] \in {"reaped", "stranger"} => ~kin[c]

(* The hold always has a thread that will give it back: who holds the         *)
(* terminal is being spawned, is waited for, or stops with the host.          *)
HoldIsFollowed ==
  \A c \in Child :
    /\ at[c] \in Reserving => holder = Reserved
    /\ holder = Held(c) => at[c] \in {"waiting", "stop seen", "follow", "resume", "release"}
    /\ holder = Suspended(c) => at[c] \in {"stopping", "back"}

(* A reservation is of one spawn.                                             *)
ReservedOnce ==
  /\ holder = Reserved => \E c \in Child : at[c] \in Reserving
  /\ \A c, d \in Child : (at[c] \in Reserving /\ at[d] \in Reserving) => c = d

(* A child in the foreground is the holder, or about to be recorded as it.    *)
ForegroundIsHolder ==
  \A c \in Child : host # "exited" /\ fg = c => holder = Held(c) \/ at[c] = "launched"

TerminalIsFollowed == HoldIsFollowed /\ ReservedOnce /\ ForegroundIsHolder

(* A mode the host may find on its terminal: its own, or one a child that     *)
(* ended by itself chose.                                                     *)
Chosen(m) ==
  m = Host \/ (proc[m] \in {"zombie", "reaped", "stranger", "struck"} /\ status[m] = "exited")

(* The terminal that is back with the host, also while it stops with the      *)
(* child, is never in the mode of a child that stopped or that a signal ended.*)
ModeComesBack ==
  (holder = Free \/ \E c \in Child : holder = Suspended(c)) => Chosen(mode)

(* A host that exits while a child holds the terminal leaves it to the shell. *)
ExitGivesBack ==
  host = "exited" => fg \in {Host, Shell} /\ Chosen(mode)

(* The terminal and its mode come back, however the child and the host end.   *)
TerminalComesBack == ModeComesBack /\ ExitGivesBack

(* Every child that runs is waited for to its end and reported, whoever holds *)
(* the terminal meanwhile, except by an orphaned host in the background.      *)
ChildrenReported ==
  \A c \in Child :
    at[c] = "waiting" ~> at[c] = "done" \/ host = "exited" \/ (orphan /\ fg = Shell)
==============================================================================
