---------------------------- MODULE ChildrenProofs ----------------------------
(* The safety of `Children`, for any set of children and any number of stops. *)
EXTENDS Children, TLAPS

Ended == {"zombie", "reaped", "stranger", "struck"}

(* The waiter's place bounds what the child's id may name: the leader keeps   *)
(* it until `wait` reaps, which `signal_group` knows of.                      *)
Before == {"idle", "failed", "elsewhere", "reserved", "unreserved"}
Watched == {"launched", "awaiting", "waiting", "stop seen", "follow", "queued", "asleep",
            "stopping", "back", "asleep again", "resume"}

ProcAt(c) ==
  /\ at[c] \in Before => proc[c] = "none" /\ ~kin[c]
  /\ at[c] \in Watched => proc[c] \in Live \cup {"zombie"}
  /\ at[c] \in {"release", "sweep", "reap"} => proc[c] = "zombie"
  /\ at[c] = "done" => proc[c] \in {"reaped", "stranger"}
  /\ at[c] \in {"reap", "done"} => ~kin[c]
  /\ reaped[c] <=> at[c] = "done"

ProcInv == \A c \in Child : ProcAt(c)

HoldInv ==
  /\ HoldIsFollowed
  /\ ReservedOnce
  /\ ForegroundIsHolder
  /\ ended => \A c \in Child : at[c] \notin Spawning

(* What `take_back` may restore was chosen, and so was what is in place while *)
(* no child holds the terminal.                                               *)
ModeInv ==
  /\ ModeComesBack
  /\ ExitGivesBack
  /\ holder # Free => Chosen(saved)
  /\ \A c \in Child : at[c] = "reserved" => Chosen(mode)
  /\ \A c \in Child : (holder = Held(c) \/ at[c] = "launched") => (mode = c \/ Chosen(mode))
  /\ \A c \in Child : holder = Suspended(c) => (left[c] = c \/ Chosen(left[c]))

USE GroupsAssumption, MaxStopsAssumption DEF GroupsAssumption, MaxStopsAssumption

(* The initial states are well typed.                                         *)
LEMMA InitTyped == Init => TypeOK
<1> SUFFICES ASSUME Init PROVE TypeOK
  OBVIOUS
<1>1. KernelTypeOK
  <2>1. stops \in 0 .. MaxStops
    BY DEF Init, KernelInit
  <2>2. told \in [Child -> BOOLEAN] /\ kin \in [Child -> BOOLEAN]
    BY DEF Init, KernelInit
  <2>3. /\ proc \in [Child -> Live \cup {"none", "zombie", "reaped", "stranger", "struck"}]
        /\ status \in [Child -> {"exited", "signaled"}]
    BY DEF Init, KernelInit
  <2>4. tstp \in BOOLEAN /\ orphan \in BOOLEAN
    BY DEF Init, KernelInit
  <2>5. /\ fg \in Child \cup {Host, Shell}
        /\ mode \in Child \cup {Host}
        /\ host \in {"running", "stopped", "exited"}
    BY DEF Init, KernelInit
  <2>6. QED
    BY <2>1, <2>2, <2>3, <2>4, <2>5 DEF KernelTypeOK
<1>2. holder = Free /\ saved \in Child \cup {Host} /\ ended \in BOOLEAN
  BY DEF Init
<1>3. at \in [Child -> Stages]
  BY DEF Init, Stages
<1>4. left \in [Child -> Child \cup {Host}]
  BY DEF Init
<1>5. reaped \in [Child -> BOOLEAN]
  BY DEF Init
<1>6. QED
  BY <1>1, <1>2, <1>3, <1>4, <1>5 DEF TypeOK

(* No stage is out of `Stages`, and `take_back` wakes only those who sleep.    *)
LEMMA GoTyped ==
  ASSUME TypeOK, NEW c \in Child, NEW stage \in Stages, Go(c, stage)
  PROVE  at' \in [Child -> Stages]
BY DEF TypeOK, Go

LEMMA TakeBackTyped ==
  ASSUME TypeOK, NEW c \in Child, NEW stage \in Stages, NEW m \in Child \cup {Host},
         TakeBack(c, stage, m)
  PROVE  /\ fg' = Host /\ mode' \in Child \cup {Host} /\ holder' = Free /\ saved' = saved
         /\ at' \in [Child -> Stages]
<1>1. "queued" \in Stages /\ "back" \in Stages
  BY DEF Stages
<1>2. QED
  BY <1>1 DEF TypeOK, TakeBack, Woken

LEMMA HandOverTyped ==
  ASSUME TypeOK, NEW c \in Child, NEW m \in Child \cup {Host}, HandOver(c, m)
  PROVE  /\ fg' = c /\ mode' = m /\ holder' = Held(c) /\ saved' = mode
         /\ at' \in [Child -> Stages]
<1>1. "resume" \in Stages
  BY DEF Stages
<1>2. QED
  BY <1>1, GoTyped DEF HandOver

(* The kernel's own steps leave the kernel well typed.                        *)
LEMMA KernelTyped ==
  ASSUME KernelTypeOK, KernelNext
  PROVE  KernelTypeOK'
<1>1. CASE ShellStep
  <2> USE DEF KernelTypeOK
  <2>1. CASE CtrlZ BY <2>1 DEF CtrlZ
  <2>2. CASE HostStops BY <2>2 DEF HostStops
  <2>3. CASE ShellTakes BY <2>3 DEF ShellTakes
  <2>4. CASE Foreground BY <2>4 DEF Foreground
  <2>5. CASE Background BY <2>5 DEF Background
  <2>6. QED BY <1>1, <2>1, <2>2, <2>3, <2>4, <2>5 DEF ShellStep
<1>2. ASSUME NEW c \in Child, ChildStep(c) PROVE KernelTypeOK'
  <2> USE DEF KernelTypeOK
  <2>1. CASE ChildEnds(c) BY <2>1 DEF ChildEnds
  <2>2. CASE ChildStops(c) BY <2>2 DEF ChildStops, Live
  <2>3. CASE ChildSetsMode(c) BY <2>3 DEF ChildSetsMode
  <2>4. CASE IdReused(c) BY <2>4 DEF IdReused
  <2>5. QED BY <1>2, <2>1, <2>2, <2>3, <2>4 DEF ChildStep
<1>3. QED BY <1>1, <1>2 DEF KernelNext

LEMMA KillTyped ==
  ASSUME KernelTypeOK, NEW S, KillGroups(S),
         UNCHANGED <<fg, mode, host, tstp, orphan, stops>>
  PROVE  KernelTypeOK'
BY DEF KernelTypeOK, KillGroups

(* Every step keeps the types.                                                *)
LEMMA StepTyped == TypeOK /\ [Next]_vars => TypeOK'
<1> SUFFICES ASSUME TypeOK, [Next]_vars PROVE TypeOK'
  OBVIOUS
<1>1. CASE World
  BY <1>1, KernelTyped DEF World, TypeOK, hostVars
<1>2. ASSUME NEW c \in Child, Spawn(c) PROVE TypeOK'
  <2>1. CASE SpawnElsewhere(c)
    BY ZenonT(60), <2>1, GoTyped DEF SpawnElsewhere, TypeOK, KernelTypeOK, Stages, Spawning, kernel
  <2>2. CASE Reserve(c)
    BY <2>2, GoTyped DEF Reserve, TypeOK, KernelTypeOK, Stages, Spawning, kernel
  <2>3. CASE Fork(c)
    <3>1. KernelTypeOK'
      BY <2>3 DEF Fork, Start, TypeOK, KernelTypeOK, Live
    <3>2. at' \in [Child -> Stages]
      BY <2>3, GoTyped DEF Fork, Stages, Spawning
    <3>3. QED BY <2>3, <3>1, <3>2 DEF Fork, TypeOK
  <2>4. CASE ForkFails(c)
    <3>1. "failed" \in Stages
      BY DEF Stages
    <3>2. CASE at[c] = "reserved" /\ TakeBack(c, "failed", mode)
      BY <2>4, <3>1, <3>2, TakeBackTyped DEF ForkFails, TypeOK, KernelTypeOK
    <3>3. CASE Go(c, "failed") /\ UNCHANGED <<fg, mode, holder, saved>>
      BY <2>4, <3>1, <3>3, GoTyped DEF ForkFails, TypeOK, KernelTypeOK
    <3>4. QED BY <2>4, <3>2, <3>3 DEF ForkFails
  <2>5. CASE HeldBy(c)
    BY <2>5, GoTyped DEF HeldBy, TypeOK, KernelTypeOK, Stages, kernel
  <2>6. QED BY <1>2, <2>1, <2>2, <2>3, <2>4, <2>5 DEF Spawn
<1>3. ASSUME NEW c \in Child, Waiter(c) PROVE TypeOK'
  <2>1. CASE WaitForEnd(c)
    BY ZenonT(60), <2>1, GoTyped DEF WaitForEnd, TypeOK, KernelTypeOK, Stages, kernel
  <2>2. CASE WaitId(c)
    <3>1. at' \in [Child -> Stages]
      BY <2>2, GoTyped DEF WaitId, Stages
    <3>2. QED BY <2>2, <3>1 DEF WaitId, TypeOK, KernelTypeOK, kernel
  <2>3. CASE TakeStop(c)
    BY ZenonT(60), <2>3, GoTyped DEF TakeStop, TypeOK, KernelTypeOK, Stages
  <2>4. CASE FollowHeld(c)
    <3>1. at' \in [Child -> Stages]
      BY <2>4, GoTyped DEF FollowHeld, Stages
    <3>2. QED BY <2>4, <3>1 DEF FollowHeld, TypeOK, KernelTypeOK
  <2>5. CASE FollowOther(c)
    <3>1. CASE holder # Free /\ Go(c, "asleep") /\ UNCHANGED <<fg, mode, holder, saved>>
      BY ZenonT(60), <2>5, <3>1, GoTyped DEF FollowOther, TypeOK, KernelTypeOK, Stages
    <3>2. CASE holder = Free /\ fg = Host /\ HandOver(c, mode)
      BY <2>5, <3>2, HandOverTyped DEF FollowOther, TypeOK, KernelTypeOK
    <3>3. CASE /\ Go(c, IF orphan THEN "waiting" ELSE "stopping")
               /\ UNCHANGED <<fg, mode, holder, saved>>
      <4>1. (IF orphan THEN "waiting" ELSE "stopping") \in Stages
        BY DEF Stages
      <4>2. at' \in [Child -> Stages]
        BY <3>3, <4>1, GoTyped
      <4>3. QED BY <2>5, <3>3, <4>2 DEF FollowOther, TypeOK, KernelTypeOK
    <3>4. QED BY <2>5, <3>1, <3>2, <3>3 DEF FollowOther
  <2>6. CASE StopHost(c)
    BY <2>6, GoTyped DEF StopHost, TypeOK, KernelTypeOK, Stages
  <2>7. CASE BackHeld(c)
    <3>1. left[c] \in Child \cup {Host} /\ saved \in Child \cup {Host} /\ "resume" \in Stages
      BY DEF TypeOK, Stages
    <3>2. CASE HandOver(c, left[c])
      BY <2>7, <3>1, <3>2, HandOverTyped DEF BackHeld, TypeOK, KernelTypeOK
    <3>3. CASE TakeBack(c, "resume", saved)
      BY <2>7, <3>1, <3>3, TakeBackTyped DEF BackHeld, TypeOK, KernelTypeOK
    <3>4. QED BY <2>7, <3>2, <3>3 DEF BackHeld
  <2>8. CASE BackOther(c)
    <3>1. CASE HandOver(c, mode)
      BY <2>8, <3>1, HandOverTyped DEF BackOther, TypeOK, KernelTypeOK
    <3>2. CASE UNCHANGED <<fg, mode, holder, saved>> /\ (Go(c, "resume") \/ Go(c, "asleep again"))
      BY ZenonT(60), <2>8, <3>2, GoTyped DEF BackOther, TypeOK, KernelTypeOK, Stages
    <3>3. QED BY <2>8, <3>1, <3>2 DEF BackOther
  <2>9. CASE Resume(c)
    <3>1. KernelTypeOK'
      BY <2>9 DEF Resume, ContinueGroup, TypeOK, KernelTypeOK, Live
    <3>2. QED BY <2>9, <3>1, GoTyped DEF Resume, TypeOK, Stages
  <2>10. CASE Release(c)
    <3>1. "sweep" \in Stages /\ saved \in Child \cup {Host} /\ mode \in Child \cup {Host}
      BY DEF TypeOK, KernelTypeOK, Stages
    <3>2. CASE TakeBack(c, "sweep", IF status[c] = "exited" THEN mode ELSE saved)
      <4> DEFINE m == IF status[c] = "exited" THEN mode ELSE saved
      <4>1. m \in Child \cup {Host}
        BY <3>1
      <4>2. /\ fg' = Host /\ mode' \in Child \cup {Host} /\ holder' = Free /\ saved' = saved
            /\ at' \in [Child -> Stages]
        BY <3>1, <3>2, <4>1, TakeBackTyped
      <4>3. QED BY <2>10, <4>2 DEF Release, TypeOK, KernelTypeOK
    <3>3. CASE Go(c, "sweep") /\ UNCHANGED <<fg, mode, holder, saved>>
      BY <2>10, <3>1, <3>3, GoTyped DEF Release, TypeOK, KernelTypeOK
    <3>4. QED BY <2>10, <3>2, <3>3 DEF Release
  <2>11. CASE Sweep(c)
    <3>1. KernelTypeOK'
      BY <2>11, KillTyped DEF Sweep, TypeOK, KernelTypeOK
    <3>2. QED BY <2>11, <3>1, GoTyped DEF Sweep, TypeOK, Stages
  <2>12. CASE Reap(c)
    BY ZenonT(60), <2>12, GoTyped DEF Reap, TypeOK, KernelTypeOK, Stages
  <2>13. QED
    BY <1>3, <2>1, <2>2, <2>3, <2>4, <2>5, <2>6, <2>7, <2>8, <2>9, <2>10, <2>11, <2>12 DEF Waiter
<1>4. ASSUME NEW c \in Child, Kill(c) PROVE TypeOK'
  BY <1>4, KillTyped DEF Kill, TypeOK
<1>5. CASE GuestEnds
  BY <1>5, KillTyped DEF GuestEnds, TypeOK
<1>6. CASE HostExits
  BY <1>6 DEF HostExits, TypeOK, KernelTypeOK
<1>7. CASE UNCHANGED vars
  BY <1>7 DEF vars, TypeOK, KernelTypeOK
<1>8. QED
  BY <1>1, <1>2, <1>3, <1>4, <1>5, <1>6, <1>7 DEF Next, HostNext

(* A step of the host that moves one child within its class of stages, and    *)
(* wakes others or not.                                                       *)
SameClass(old, new) ==
  \/ old \in Before /\ new \in Before
  \/ old \in Watched /\ new \in Watched
  \/ old \in {"release", "sweep"} /\ new \in {"release", "sweep"}

LEMMA ProcStays ==
  ASSUME ProcInv, UNCHANGED <<proc, kin, reaped>>,
         NEW d \in Child, at'[d] = at[d] \/ SameClass(at[d], at'[d])
  PROVE  ProcAt(d)'
<1>1. ProcAt(d)
  BY DEF ProcInv
<1>2. CASE at'[d] = at[d]
  BY <1>1, <1>2 DEF ProcAt
<1>3. CASE SameClass(at[d], at'[d])
  BY <1>1, <1>3 DEF ProcAt, Before, Watched, SameClass
<1>4. QED BY <1>2, <1>3

LEMMA GoKeepsProc ==
  ASSUME TypeOK, ProcInv, UNCHANGED <<proc, kin, reaped>>,
         NEW c \in Child, NEW stage, SameClass(at[c], stage), Go(c, stage)
  PROVE  ProcInv'
<1> SUFFICES ASSUME NEW d \in Child PROVE ProcAt(d)'
  BY DEF ProcInv
<1>1. at'[d] = at[d] \/ SameClass(at[d], at'[d])
  BY DEF Go, TypeOK
<1>2. QED BY <1>1, ProcStays

LEMMA TakeBackKeepsProc ==
  ASSUME TypeOK, ProcInv, UNCHANGED <<proc, kin, reaped>>,
         NEW c \in Child, NEW stage, SameClass(at[c], stage), NEW m, TakeBack(c, stage, m)
  PROVE  ProcInv'
<1> SUFFICES ASSUME NEW d \in Child PROVE ProcAt(d)'
  BY DEF ProcInv
<1>1. at'[d] = at[d] \/ SameClass(at[d], at'[d])
  <2>1. CASE d = c
    BY <2>1 DEF TakeBack
  <2>2. CASE d # c
    BY <2>2 DEF TakeBack, Woken, SameClass, Watched
  <2>3. QED BY <2>1, <2>2
<1>2. QED BY <1>1, ProcStays

(* The child's id names what the waiter's place allows, whatever a step does. *)
LEMMA StepProc == TypeOK /\ ProcInv /\ [Next]_vars => ProcInv'
<1> SUFFICES ASSUME TypeOK, ProcInv, [Next]_vars PROVE ProcInv'
  OBVIOUS
<1>1. CASE World
  <2> USE DEF ProcInv, ProcAt, Before, Watched, TypeOK, KernelTypeOK, Live, World, hostVars
  <2>1. CASE ShellStep
    BY <1>1, <2>1 DEF ShellStep, CtrlZ, HostStops, ShellTakes, Foreground, Background
  <2>2. ASSUME NEW c \in Child, ChildStep(c) PROVE ProcInv'
    <3>1. CASE ChildEnds(c) BY <1>1, <3>1 DEF ChildEnds
    <3>2. CASE ChildStops(c) BY <1>1, <3>2 DEF ChildStops
    <3>3. CASE ChildSetsMode(c) BY <1>1, <3>3 DEF ChildSetsMode
    <3>4. CASE IdReused(c) BY <1>1, <3>4 DEF IdReused
    <3>5. QED BY <2>2, <3>1, <3>2, <3>3, <3>4 DEF ChildStep
  <2>3. QED BY <1>1, <2>1, <2>2 DEF KernelNext
<1>2. ASSUME NEW c \in Child, Spawn(c) PROVE ProcInv'
  <2>1. CASE SpawnElsewhere(c)
    BY <2>1, GoKeepsProc DEF SpawnElsewhere, SameClass, Before, kernel
  <2>2. CASE Reserve(c)
    <3>1. UNCHANGED <<proc, kin, reaped>> /\ at[c] \in Before
      BY <2>2 DEF Reserve, kernel, Before
    <3>2. Go(c, "reserved") \/ Go(c, "unreserved")
      BY <2>2 DEF Reserve
    <3>3. SameClass(at[c], "reserved") /\ SameClass(at[c], "unreserved")
      BY <3>1 DEF SameClass, Before
    <3>4. QED BY <3>1, <3>2, <3>3, GoKeepsProc
  <2>3. CASE Fork(c)
    <3> SUFFICES ASSUME NEW d \in Child PROVE ProcAt(d)'
      BY DEF ProcInv
    <3> USE DEF ProcInv, ProcAt, Before, Watched, TypeOK, KernelTypeOK, Live, Go
    <3>1. CASE d = c BY <2>3, <3>1 DEF Fork, Start
    <3>2. CASE d # c BY <2>3, <3>2 DEF Fork, Start
    <3>3. QED BY <3>1, <3>2
  <2>4. CASE ForkFails(c)
    <3>1. UNCHANGED <<proc, kin, reaped>> /\ SameClass(at[c], "failed")
      BY <2>4 DEF ForkFails, Before, SameClass
    <3>2. Go(c, "failed") \/ TakeBack(c, "failed", mode)
      BY <2>4 DEF ForkFails
    <3>3. QED BY <3>1, <3>2, GoKeepsProc, TakeBackKeepsProc
  <2>5. CASE HeldBy(c)
    BY <2>5, GoKeepsProc DEF HeldBy, SameClass, Watched, kernel
  <2>6. QED BY <1>2, <2>1, <2>2, <2>3, <2>4, <2>5 DEF Spawn
<1>3. ASSUME NEW c \in Child, Waiter(c) PROVE ProcInv'
  <2>1. CASE WaitForEnd(c)
    <3> SUFFICES ASSUME NEW d \in Child PROVE ProcAt(d)'
      BY DEF ProcInv
    <3>1. QED BY <2>1 DEF WaitForEnd, kernel, Go, ProcInv, ProcAt, Before, Watched, TypeOK
  <2>2. CASE WaitId(c)
    <3>1. CASE Go(c, "stop seen")
      BY <2>2, <3>1, GoKeepsProc DEF WaitId, SameClass, Watched, kernel
    <3>2. CASE proc[c] = "zombie" /\ Go(c, "release")
      <4> SUFFICES ASSUME NEW d \in Child PROVE ProcAt(d)'
        BY DEF ProcInv
      <4>1. QED BY <2>2, <3>2 DEF WaitId, kernel, Go, ProcInv, ProcAt, Before, Watched, TypeOK
    <3>3. QED BY <2>2, <3>1, <3>2 DEF WaitId
  <2>3. CASE TakeStop(c)
    BY <2>3, GoKeepsProc DEF TakeStop, SameClass, Watched
  <2>4. CASE FollowHeld(c)
    <3>1. UNCHANGED <<proc, kin, reaped>> /\ (Go(c, "resume") \/ Go(c, "stopping"))
      BY <2>4 DEF FollowHeld
    <3>2. SameClass(at[c], "resume") /\ SameClass(at[c], "stopping")
      BY <2>4 DEF FollowHeld, SameClass, Watched
    <3>3. QED BY <3>1, <3>2, GoKeepsProc
  <2>5. CASE FollowOther(c)
    <3>1. /\ UNCHANGED <<proc, kin, reaped>>
          /\ Go(c, "asleep") \/ Go(c, "resume") \/ Go(c, "waiting") \/ Go(c, "stopping")
      BY <2>5 DEF FollowOther, HandOver
    <3>2. at[c] \in Watched
      BY <2>5 DEF FollowOther, Watched
    <3>3. \A stage \in {"asleep", "resume", "waiting", "stopping"} : SameClass(at[c], stage)
      BY <3>2 DEF SameClass, Watched
    <3>4. QED BY <3>1, <3>3, GoKeepsProc
  <2>6. CASE StopHost(c)
    BY <2>6, GoKeepsProc DEF StopHost, SameClass, Watched
  <2>7. CASE BackHeld(c)
    <3>1. UNCHANGED <<proc, kin, reaped>> /\ (Go(c, "resume") \/ TakeBack(c, "resume", saved))
      BY <2>7 DEF BackHeld, HandOver
    <3>2. SameClass(at[c], "resume")
      BY <2>7 DEF BackHeld, SameClass, Watched
    <3>3. QED BY <3>1, <3>2, GoKeepsProc, TakeBackKeepsProc
  <2>8. CASE BackOther(c)
    <3>1. UNCHANGED <<proc, kin, reaped>> /\ (Go(c, "resume") \/ Go(c, "asleep again"))
      BY <2>8 DEF BackOther, HandOver
    <3>2. SameClass(at[c], "resume") /\ SameClass(at[c], "asleep again")
      BY <2>8 DEF BackOther, SameClass, Watched
    <3>3. QED BY <3>1, <3>2, GoKeepsProc
  <2>9. CASE Resume(c)
    <3> SUFFICES ASSUME NEW d \in Child PROVE ProcAt(d)'
      BY DEF ProcInv
    <3> USE DEF ProcInv, ProcAt, Before, Watched, TypeOK, KernelTypeOK, Live, Go
    <3>1. QED BY <2>9 DEF Resume, ContinueGroup
  <2>10. CASE Release(c)
    <3>1. /\ UNCHANGED <<proc, kin, reaped>>
          /\ \/ Go(c, "sweep")
             \/ TakeBack(c, "sweep", IF status[c] = "exited" THEN mode ELSE saved)
      BY <2>10 DEF Release
    <3>2. SameClass(at[c], "sweep")
      BY <2>10 DEF Release, SameClass
    <3>3. QED BY <3>1, <3>2, GoKeepsProc, TakeBackKeepsProc
  <2>11. CASE Sweep(c)
    <3> SUFFICES ASSUME NEW d \in Child PROVE ProcAt(d)'
      BY DEF ProcInv
    <3> USE DEF ProcInv, ProcAt, Before, Watched, TypeOK, KernelTypeOK, Live, Go
    <3>1. QED BY <2>11 DEF Sweep, KillGroups
  <2>12. CASE Reap(c)
    <3> SUFFICES ASSUME NEW d \in Child PROVE ProcAt(d)'
      BY DEF ProcInv
    <3> USE DEF ProcInv, ProcAt, Before, Watched, TypeOK, KernelTypeOK, Live, Go
    <3>1. QED BY <2>12 DEF Reap
  <2>13. QED
    BY <1>3, <2>1, <2>2, <2>3, <2>4, <2>5, <2>6, <2>7, <2>8, <2>9, <2>10, <2>11, <2>12 DEF Waiter
<1>4. ASSUME NEW c \in Child, Kill(c) PROVE ProcInv'
  BY <1>4 DEF Kill, KillGroups, ProcInv, ProcAt, Before, Watched, TypeOK, KernelTypeOK, Live
<1>5. CASE GuestEnds
  BY <1>5 DEF GuestEnds, KillGroups, ProcInv, ProcAt, Before, Watched, TypeOK, KernelTypeOK, Live
<1>6. CASE HostExits
  BY <1>6 DEF HostExits, ProcInv, ProcAt
<1>7. CASE UNCHANGED vars
  BY <1>7 DEF vars, ProcInv, ProcAt
<1>8. QED
  BY <1>1, <1>2, <1>3, <1>4, <1>5, <1>6, <1>7 DEF Next, HostNext

(* The values of `Holder` differ, and name their child.                       *)
LEMMA Holders ==
  /\ Free # Reserved
  /\ \A c : /\ Held(c) # Free /\ Held(c) # Reserved
            /\ Suspended(c) # Free /\ Suspended(c) # Reserved
  /\ \A c, d : /\ Held(c) # Suspended(d)
               /\ Held(c) = Held(d) => c = d
               /\ Suspended(c) = Suspended(d) => c = d
BY DEF Free, Reserved, Held, Suspended

(* The waking of those who sleep takes nobody to or from a hold.              *)
LEMMA TakeBackKeepsHold ==
  ASSUME TypeOK, HoldInv, NEW c \in Child, NEW stage, NEW m, TakeBack(c, stage, m),
         stage \notin Spawning, ended' = ended,
         at[c] = "reserved" \/ holder = Held(c) \/ holder = Suspended(c)
  PROVE  HoldInv'
<1> USE Holders DEF HoldInv
<1>1. \A d \in Child : /\ at'[d] \in Spawning => d # c /\ at'[d] = at[d]
                      /\ at'[d] \notin Reserving
  <2>1. \A d \in Child : at[d] \in Reserving => d = c
    BY DEF ReservedOnce, HoldIsFollowed, Reserving
  <2>2. \A d \in Child : at'[d] = IF d = c THEN stage ELSE Woken(at[d])
    BY DEF TakeBack
  <2>3. QED BY <2>1, <2>2 DEF Woken, Spawning, Reserving
<1>2. fg' = Host /\ holder' = Free
  BY DEF TakeBack
<1>3. HoldIsFollowed'
  BY <1>1, <1>2 DEF HoldIsFollowed
<1>4. ReservedOnce'
  BY <1>1, <1>2 DEF ReservedOnce
<1>5. ForegroundIsHolder'
  BY <1>2 DEF ForegroundIsHolder
<1>6. QED BY <1>1, <1>3, <1>4, <1>5

LEMMA HandOverKeepsHold ==
  ASSUME TypeOK, HoldInv, NEW c \in Child, NEW m, HandOver(c, m),
         ended' = ended, host' = host, fg = Host,
         holder = Free \/ holder = Suspended(c)
  PROVE  HoldInv'
<1> USE Holders DEF HoldInv
<1>1. fg' = c /\ holder' = Held(c)
  BY DEF HandOver
<1>2. \A d \in Child : at'[d] = IF d = c THEN "resume" ELSE at[d]
  BY DEF HandOver, Go, TypeOK
<1>3. HoldIsFollowed'
  BY <1>1, <1>2 DEF HoldIsFollowed, Reserving
<1>4. ReservedOnce'
  BY <1>1, <1>2 DEF ReservedOnce, Reserving
<1>5. ForegroundIsHolder'
  BY <1>1 DEF ForegroundIsHolder
<1>6. QED BY <1>2, <1>3, <1>4, <1>5 DEF Spawning

(* A step of one child's thread away from the hold.                           *)
LEMMA GoKeepsHold ==
  ASSUME TypeOK, HoldInv, NEW c \in Child, NEW stage, Go(c, stage),
         UNCHANGED <<holder, fg, host, ended>>,
         at[c] \notin Reserving, stage \notin Reserving,
         stage \in Spawning => ~ended,
         holder = Held(c) => stage \in {"waiting", "stop seen", "follow", "resume", "release"},
         holder = Suspended(c) => stage \in {"stopping", "back"}
  PROVE  HoldInv'
<1> USE DEF HoldInv
<1>1. \A d \in Child : at'[d] = IF d = c THEN stage ELSE at[d]
  BY DEF Go, TypeOK
<1>2. HoldIsFollowed'
  BY <1>1 DEF HoldIsFollowed
<1>3. ReservedOnce'
  BY <1>1 DEF ReservedOnce
<1>4. ForegroundIsHolder'
  BY <1>1 DEF ForegroundIsHolder, Reserving
<1>5. QED BY <1>1, <1>2, <1>3, <1>4

(* Every step keeps the hold with a thread, and the foreground with the hold. *)
LEMMA StepHold == TypeOK /\ HoldInv /\ [Next]_vars => HoldInv'
<1> SUFFICES ASSUME TypeOK, HoldInv, [Next]_vars PROVE HoldInv'
  OBVIOUS
<1> USE Holders
<1>1. CASE World
  <2>1. UNCHANGED <<holder, at, ended>>
    BY <1>1 DEF World, hostVars
  <2>2. host' # "exited" => host # "exited"
    BY <1>1 DEF World, KernelNext, ChildStep, ChildEnds, ChildStops, ChildSetsMode, IdReused,
                ShellStep, CtrlZ, HostStops, ShellTakes, Foreground, Background
  <2>3. fg' = fg \/ fg' \in {Host, Shell}
    BY <1>1 DEF World, KernelNext, ChildStep, ChildEnds, ChildStops, ChildSetsMode, IdReused,
                ShellStep, CtrlZ, HostStops, ShellTakes, Foreground, Background
  <2>4. HoldIsFollowed' /\ ReservedOnce'
    BY <2>1 DEF HoldInv, HoldIsFollowed, ReservedOnce
  <2>5. ForegroundIsHolder'
    BY <2>1, <2>2, <2>3 DEF HoldInv, ForegroundIsHolder
  <2>6. QED BY <2>1, <2>4, <2>5 DEF HoldInv
<1>2. ASSUME NEW c \in Child, Spawn(c) PROVE HoldInv'
  <2>1. CASE SpawnElsewhere(c)
    BY <2>1, GoKeepsHold DEF SpawnElsewhere, kernel, Reserving, HoldInv, HoldIsFollowed
  <2>2. CASE Reserve(c)
    <3>1. UNCHANGED <<fg, host, ended>> /\ ~ended /\ at[c] = "idle"
      BY <2>2 DEF Reserve, kernel
    <3>2. holder # Held(c) /\ holder # Suspended(c)
      BY <3>1 DEF HoldInv, HoldIsFollowed
    <3>3. CASE holder' = holder /\ Go(c, "unreserved")
      BY <3>1, <3>2, <3>3, GoKeepsHold DEF Reserving
    <3>4. CASE holder = Free /\ fg = Host /\ holder' = Reserved /\ Go(c, "reserved")
      <4>1. \A d \in Child : at'[d] = IF d = c THEN "reserved" ELSE at[d]
        BY <3>4 DEF Go, TypeOK
      <4>2. \A d \in Child : at[d] \notin Reserving
        BY <3>4 DEF HoldInv, HoldIsFollowed
      <4>3. HoldIsFollowed'
        BY <3>4, <4>1, <4>2 DEF HoldIsFollowed
      <4>4. ReservedOnce'
        BY <4>1, <4>2 DEF ReservedOnce, Reserving
      <4>5. ForegroundIsHolder'
        BY <3>1, <3>4 DEF ForegroundIsHolder
      <4>6. QED BY <3>1, <4>3, <4>4, <4>5 DEF HoldInv
    <3>5. QED BY <2>2, <3>3, <3>4 DEF Reserve
  <2>3. CASE Fork(c)
    <3>1. CASE at[c] = "reserved" /\ fg' = c /\ Go(c, "launched")
      <4>1. UNCHANGED <<holder, ended>> /\ holder = Reserved
        BY <2>3, <3>1 DEF Fork, HoldInv, HoldIsFollowed, Reserving
      <4>2. \A d \in Child : at'[d] = IF d = c THEN "launched" ELSE at[d]
        BY <3>1 DEF Go, TypeOK
      <4>3. \A d \in Child : at[d] \in Reserving => d = c
        BY <3>1 DEF HoldInv, ReservedOnce, Reserving
      <4>4. HoldIsFollowed'
        BY <4>1, <4>2, <4>3 DEF HoldInv, HoldIsFollowed
      <4>5. ReservedOnce'
        BY <4>2, <4>3 DEF ReservedOnce, Reserving
      <4>6. ForegroundIsHolder'
        BY <3>1, <4>2 DEF ForegroundIsHolder
      <4>7. ended' => \A d \in Child : at'[d] \notin Spawning
        BY <3>1, <4>1 DEF HoldInv, Spawning
      <4>8. QED BY <4>4, <4>5, <4>6, <4>7 DEF HoldInv
    <3>2. CASE at[c] \in {"unreserved", "elsewhere"} /\ UNCHANGED fg
      <4>1. UNCHANGED <<holder, fg, host, ended>>
        BY <2>3, <3>2 DEF Fork
      <4>2. holder # Held(c) /\ holder # Suspended(c)
        BY <3>2 DEF HoldInv, HoldIsFollowed
      <4>3. Go(c, "waiting") \/ Go(c, "awaiting")
        BY <2>3, <3>2 DEF Fork
      <4>4. QED BY <3>2, <4>1, <4>2, <4>3, GoKeepsHold DEF Reserving, Spawning
    <3>3. QED BY <2>3, <3>1, <3>2 DEF Fork
  <2>4. CASE ForkFails(c)
    <3>1. CASE at[c] = "reserved" /\ TakeBack(c, "failed", mode)
      BY <2>4, <3>1, TakeBackKeepsHold DEF ForkFails, Spawning
    <3>2. CASE /\ at[c] \in {"unreserved", "elsewhere"} /\ Go(c, "failed")
               /\ UNCHANGED <<fg, mode, holder, saved>>
      <4>1. holder # Held(c) /\ holder # Suspended(c)
        BY <3>2 DEF HoldInv, HoldIsFollowed
      <4>2. QED BY <2>4, <3>2, <4>1, GoKeepsHold DEF ForkFails, Reserving, Spawning
    <3>3. QED BY <2>4, <3>1, <3>2 DEF ForkFails
  <2>5. CASE HeldBy(c)
    <3>1. UNCHANGED <<fg, host, ended>> /\ holder' = Held(c) /\ holder = Reserved
      BY <2>5 DEF HeldBy, kernel, HoldInv, HoldIsFollowed, Reserving
    <3>2. \A d \in Child : at'[d] = IF d = c THEN "waiting" ELSE at[d]
      BY <2>5 DEF HeldBy, Go, TypeOK
    <3>3. \A d \in Child : at[d] \in Reserving => d = c
      BY <2>5 DEF HeldBy, HoldInv, ReservedOnce, Reserving
    <3>4. HoldIsFollowed' /\ ReservedOnce'
      BY <3>1, <3>2, <3>3 DEF HoldIsFollowed, ReservedOnce, Reserving
    <3>5. ForegroundIsHolder'
      BY <3>1, <3>2, <3>3 DEF HoldInv, ForegroundIsHolder, Reserving
    <3>6. QED BY <3>1, <3>2, <3>4, <3>5 DEF HoldInv, Spawning
  <2>6. QED BY <1>2, <2>1, <2>2, <2>3, <2>4, <2>5 DEF Spawn
<1>3. ASSUME NEW c \in Child, Waiter(c) PROVE HoldInv'
  <2>1. CASE WaitForEnd(c)
    BY <2>1, GoKeepsHold DEF WaitForEnd, kernel, Reserving, Spawning, HoldInv, HoldIsFollowed
  <2>2. CASE WaitId(c)
    <3>1. Go(c, "stop seen") \/ Go(c, "release")
      BY <2>2 DEF WaitId
    <3>2. QED
      BY <2>2, <3>1, GoKeepsHold DEF WaitId, kernel, Reserving, Spawning, HoldInv, HoldIsFollowed
  <2>3. CASE TakeStop(c)
    BY <2>3, GoKeepsHold DEF TakeStop, Reserving, Spawning, HoldInv, HoldIsFollowed
  <2>4. CASE FollowHeld(c)
    <3>1. CASE orphan
      BY <2>4, <3>1, GoKeepsHold DEF FollowHeld, Reserving, Spawning
    <3>2. CASE ~orphan
      <4>1. fg' = Host /\ holder' = Suspended(c) /\ holder = Held(c) /\ ended' = ended
        BY <2>4, <3>2 DEF FollowHeld
      <4>2. \A d \in Child : at'[d] = IF d = c THEN "stopping" ELSE at[d]
        BY <2>4, <3>2 DEF FollowHeld, Go, TypeOK
      <4>3. HoldIsFollowed' /\ ReservedOnce'
        BY <4>1, <4>2 DEF HoldInv, HoldIsFollowed, ReservedOnce, Reserving
      <4>4. ForegroundIsHolder'
        BY <4>1 DEF ForegroundIsHolder
      <4>5. QED BY <4>1, <4>2, <4>3, <4>4 DEF HoldInv, Spawning
    <3>3. QED BY <3>1, <3>2
  <2>5. CASE FollowOther(c)
    <3>1. UNCHANGED <<host, ended>> /\ at[c] \in {"queued", "follow"} /\ holder # Held(c)
      BY <2>5 DEF FollowOther, HoldInv, HoldIsFollowed
    <3>2. CASE holder = Free /\ fg = Host /\ HandOver(c, mode)
      BY <3>1, <3>2, HandOverKeepsHold
    <3>3. CASE UNCHANGED <<fg, holder>> /\ (Go(c, "asleep") \/ Go(c, "waiting") \/ Go(c, "stopping"))
      <4>1. holder # Suspended(c)
        BY <3>1 DEF HoldInv, HoldIsFollowed
      <4>2. QED BY <3>1, <3>3, <4>1, GoKeepsHold DEF Reserving, Spawning
    <3>4. QED BY <2>5, <3>2, <3>3 DEF FollowOther
  <2>6. CASE StopHost(c)
    BY <2>6, GoKeepsHold DEF StopHost, Reserving, Spawning, HoldInv, HoldIsFollowed
  <2>7. CASE BackHeld(c)
    <3>1. CASE fg = Host /\ HandOver(c, left[c])
      BY <2>7, <3>1, HandOverKeepsHold DEF BackHeld
    <3>2. CASE TakeBack(c, "resume", saved)
      BY <2>7, <3>2, TakeBackKeepsHold DEF BackHeld, Spawning
    <3>3. QED BY <2>7, <3>1, <3>2 DEF BackHeld
  <2>8. CASE BackOther(c)
    <3>1. UNCHANGED <<host, ended>> /\ at[c] = "back" /\ holder # Suspended(c)
      BY <2>8 DEF BackOther
    <3>2. CASE holder = Free /\ fg = Host /\ HandOver(c, mode)
      BY <3>1, <3>2, HandOverKeepsHold
    <3>3. CASE UNCHANGED <<fg, holder>> /\ (Go(c, "asleep again") \/ Go(c, "resume"))
      <4>1. holder # Held(c)
        BY <3>1 DEF HoldInv, HoldIsFollowed
      <4>2. QED BY <3>1, <3>3, <4>1, GoKeepsHold DEF Reserving, Spawning
    <3>4. QED BY <2>8, <3>2, <3>3 DEF BackOther
  <2>9. CASE Resume(c)
    BY <2>9, GoKeepsHold DEF Resume, Reserving, Spawning, HoldInv, HoldIsFollowed
  <2>10. CASE Release(c)
    <3>1. CASE holder = Held(c)
      BY <2>10, <3>1, TakeBackKeepsHold DEF Release, Spawning
    <3>2. CASE holder # Held(c)
      BY <2>10, <3>2, GoKeepsHold DEF Release, Reserving, Spawning, HoldInv, HoldIsFollowed
    <3>3. QED BY <3>1, <3>2
  <2>11. CASE Sweep(c)
    BY <2>11, GoKeepsHold DEF Sweep, Reserving, Spawning, HoldInv, HoldIsFollowed
  <2>12. CASE Reap(c)
    BY <2>12, GoKeepsHold DEF Reap, Reserving, Spawning, HoldInv, HoldIsFollowed
  <2>13. QED
    BY <1>3, <2>1, <2>2, <2>3, <2>4, <2>5, <2>6, <2>7, <2>8, <2>9, <2>10, <2>11, <2>12 DEF Waiter
<1>4. ASSUME NEW c \in Child, Kill(c) PROVE HoldInv'
  BY <1>4 DEF Kill, HoldInv, HoldIsFollowed, ReservedOnce, ForegroundIsHolder
<1>5. CASE GuestEnds
  BY <1>5 DEF GuestEnds, HoldInv, HoldIsFollowed, ReservedOnce, ForegroundIsHolder
<1>6. CASE HostExits
  BY <1>6 DEF HostExits, HoldInv, HoldIsFollowed, ReservedOnce, ForegroundIsHolder
<1>7. CASE UNCHANGED vars
  BY <1>7 DEF vars, HoldInv, HoldIsFollowed, ReservedOnce, ForegroundIsHolder
<1>8. QED
  BY <1>1, <1>2, <1>3, <1>4, <1>5, <1>6, <1>7 DEF Next, HostNext

(* A mode a child chose as it exited stays chosen: nothing changes how it     *)
(* ended, and its id names no child that lives again.                         *)
ChosenNext(m) == m = Host \/ (proc'[m] \in Ended /\ status'[m] = "exited")

LEMMA ChosenStays ==
  ASSUME TypeOK, ProcInv, [Next]_vars, NEW m \in Child \cup {Host}, Chosen(m)
  PROVE  ChosenNext(m)
<1>1. CASE m = Host
  BY <1>1 DEF ChosenNext
<1>2. CASE m \in Child /\ proc[m] \in Ended /\ status[m] = "exited"
  <2> USE DEF Ended, Live, TypeOK, KernelTypeOK, ChosenNext
  <2>1. CASE World
    BY <1>2, <2>1 DEF World, KernelNext, ChildStep, ChildEnds, ChildStops, ChildSetsMode, IdReused,
                      ShellStep, CtrlZ, HostStops, ShellTakes, Foreground, Background
  <2>2. ASSUME NEW c \in Child, Spawn(c) PROVE ChosenNext(m)
    <3>1. CASE Fork(c)
      <4>1. m # c
        BY <1>2, <3>1 DEF Fork, ProcInv, ProcAt, Before
      <4>2. QED BY <1>2, <3>1, <4>1 DEF Fork, Start
    <3>2. CASE ~Fork(c)
      BY <1>2, <2>2, <3>2 DEF Spawn, SpawnElsewhere, Reserve, ForkFails, HeldBy, kernel
    <3>3. QED BY <3>1, <3>2
  <2>3. ASSUME NEW c \in Child, Waiter(c) PROVE ChosenNext(m)
    <3>1. CASE Resume(c) BY <1>2, <3>1 DEF Resume, ContinueGroup
    <3>2. CASE Sweep(c) BY <1>2, <3>2 DEF Sweep, KillGroups
    <3>3. CASE Reap(c) BY <1>2, <3>3 DEF Reap
    <3>4. CASE UNCHANGED <<proc, status>> BY <1>2, <3>4
    <3>5. QED
      BY <2>3, <3>1, <3>2, <3>3, <3>4
      DEF Waiter, WaitForEnd, WaitId, TakeStop, FollowHeld, FollowOther, StopHost, BackHeld,
          BackOther, Release, kernel
  <2>4. CASE \E S : KillGroups(S) BY <1>2, <2>4 DEF KillGroups
  <2>5. CASE UNCHANGED <<proc, status>> BY <1>2, <2>5
  <2>6. QED
    BY <2>1, <2>2, <2>3, <2>4, <2>5 DEF Next, HostNext, Kill, GuestEnds, HostExits, vars
<1>3. QED BY <1>1, <1>2 DEF Chosen, Ended

(* A step that touches neither the mode nor the hold.                         *)
LEMMA ModeStays ==
  ASSUME TypeOK, ProcInv, ModeInv, [Next]_vars, UNCHANGED <<mode, holder, saved, left>>,
         host' = "exited" => host = "exited" /\ fg' = fg,
         \A d \in Child : at'[d] \in Reserving => at'[d] = at[d]
  PROVE  ModeInv'
<1> USE DEF ModeInv
<1>1. /\ Chosen(mode) => Chosen(mode)'
      /\ Chosen(saved) => Chosen(saved)'
      /\ \A d \in Child : Chosen(left[d]) => Chosen(left[d])'
  BY ChosenStays DEF TypeOK, KernelTypeOK, Chosen, ChosenNext, Ended
<1>2. ModeComesBack' /\ ExitGivesBack'
  BY <1>1 DEF ModeComesBack, ExitGivesBack
<1>3. holder' # Free => Chosen(saved)'
  BY <1>1 DEF Free
<1>4. \A d \in Child : at'[d] = "reserved" => Chosen(mode)'
  BY <1>1 DEF Reserving
<1>5. \A d \in Child : (holder' = Held(d) \/ at'[d] = "launched") => (mode' = d \/ Chosen(mode)')
  BY <1>1 DEF Reserving
<1>6. \A d \in Child : holder' = Suspended(d) => (left'[d] = d \/ Chosen(left[d])')
  BY <1>1
<1>7. QED BY <1>2, <1>3, <1>4, <1>5, <1>6 DEF Held, Suspended, Free

LEMMA TakeBackKeepsMode ==
  ASSUME TypeOK, ProcInv, HoldInv, [Next]_vars, NEW c \in Child, NEW stage, NEW m,
         TakeBack(c, stage, m), stage \notin Spawning, m \in Child \cup {Host}, Chosen(m),
         at[c] = "reserved" \/ holder = Held(c) \/ holder = Suspended(c),
         host' # "exited"
  PROVE  ModeInv'
<1> USE Holders
<1>1. Chosen(mode)'
  BY ChosenStays DEF TakeBack, Chosen, ChosenNext, Ended
<1>2. holder' = Free
  BY DEF TakeBack
<1>3. \A d \in Child : at'[d] \notin Reserving
  <2>1. \A d \in Child : at[d] \in Reserving => d = c
    BY DEF HoldInv, ReservedOnce, HoldIsFollowed, Reserving
  <2>2. \A d \in Child : at'[d] = IF d = c THEN stage ELSE Woken(at[d])
    BY DEF TakeBack
  <2>3. QED BY <2>1, <2>2 DEF Woken, Spawning, Reserving
<1>4. ModeComesBack' /\ ExitGivesBack'
  BY <1>1 DEF ModeComesBack, ExitGivesBack
<1>5. QED BY <1>1, <1>2, <1>3, <1>4 DEF ModeInv, Reserving

LEMMA HandOverKeepsMode ==
  ASSUME TypeOK, ProcInv, HoldInv, [Next]_vars, NEW c \in Child, NEW m, HandOver(c, m),
         m = c \/ (m \in Child \cup {Host} /\ Chosen(m)), Chosen(mode),
         holder = Free \/ holder = Suspended(c), host' # "exited"
  PROVE  ModeInv'
<1> USE Holders
<1>1. Chosen(saved)'
  BY ChosenStays DEF HandOver, Chosen, ChosenNext, Ended, TypeOK, KernelTypeOK
<1>2. mode' = c \/ Chosen(mode)'
  BY ChosenStays DEF HandOver, Chosen, ChosenNext, Ended
<1>3. holder' = Held(c)
  BY DEF HandOver
<1>4. \A d \in Child : at'[d] \notin Reserving
  BY DEF HandOver, Go, TypeOK, HoldInv, HoldIsFollowed, Reserving
<1>5. ModeComesBack' /\ ExitGivesBack'
  BY <1>3 DEF ModeComesBack, ExitGivesBack
<1>6. QED BY <1>1, <1>2, <1>3, <1>4, <1>5 DEF ModeInv, Reserving

(* Every step keeps the terminal's mode one the host may find.                *)
LEMMA StepMode == TypeOK /\ ProcInv /\ HoldInv /\ ModeInv /\ [Next]_vars => ModeInv'
<1> SUFFICES ASSUME TypeOK, ProcInv, HoldInv, ModeInv, [Next]_vars PROVE ModeInv'
  OBVIOUS
<1> USE Holders
<1>1. CASE World
  <2>1. ASSUME NEW c \in Child, ChildSetsMode(c) PROVE ModeInv'
    <3>1. /\ mode' = c /\ fg = c /\ host' = host
          /\ UNCHANGED <<holder, at, saved, left>>
      BY <1>1, <2>1 DEF ChildSetsMode, World, hostVars
    <3>2. host # "exited"
      BY <3>1 DEF ModeInv, ExitGivesBack
    <3>3. holder = Held(c) \/ (at[c] = "launched" /\ holder = Reserved)
      BY <3>1, <3>2 DEF HoldInv, ForegroundIsHolder, HoldIsFollowed, Reserving
    <3>4. Chosen(saved)'
      BY <3>1, <3>3, ChosenStays DEF ModeInv, TypeOK, Chosen, ChosenNext, Ended
    <3>5. \A d \in Child : at[d] # "reserved" /\ (holder = Held(d) \/ at[d] = "launched" => d = c)
      BY <3>3 DEF HoldInv, HoldIsFollowed, ReservedOnce, Reserving
    <3>6. ModeComesBack' /\ ExitGivesBack'
      BY <3>1, <3>2, <3>3 DEF ModeComesBack, ExitGivesBack
    <3>7. QED BY <3>1, <3>3, <3>4, <3>5, <3>6 DEF ModeInv
  <2>2. CASE \A c \in Child : ~ChildSetsMode(c)
    <3>1. UNCHANGED <<mode, holder, saved, left, at>>
      BY <1>1, <2>2 DEF World, hostVars, KernelNext, ChildStep, ChildEnds, ChildStops, IdReused,
                        ShellStep, CtrlZ, HostStops, ShellTakes, Foreground, Background
    <3>2. host' = "exited" => host = "exited" /\ fg' = fg
      BY <1>1, <2>2 DEF World, KernelNext, ChildStep, ChildEnds, ChildStops, IdReused,
                        ShellStep, CtrlZ, HostStops, ShellTakes, Foreground, Background
    <3>3. QED BY <3>1, <3>2, ModeStays
  <2>3. QED BY <2>1, <2>2
<1>2. ASSUME NEW c \in Child, Spawn(c), host = "running" PROVE ModeInv'
  <2>1. CASE SpawnElsewhere(c)
    BY <1>2, <2>1, ModeStays DEF SpawnElsewhere, kernel, Go, TypeOK, Reserving
  <2>2. CASE Reserve(c)
    <3>1. CASE holder' = holder /\ saved' = saved /\ Go(c, "unreserved")
      BY <1>2, <2>2, <3>1, ModeStays DEF Reserve, kernel, Go, TypeOK, Reserving
    <3>2. CASE holder = Free /\ saved' = mode /\ holder' = Reserved /\ Go(c, "reserved")
      <4>1. UNCHANGED <<mode, host, proc, status>>
        BY <2>2 DEF Reserve, kernel
      <4>2. Chosen(mode)' /\ Chosen(saved)'
        BY <3>2, <4>1 DEF ModeInv, ModeComesBack, Chosen
      <4>3. \A d \in Child : at'[d] # "launched"
        BY <3>2 DEF Go, TypeOK, HoldInv, HoldIsFollowed, Reserving
      <4>4. ModeComesBack' /\ ExitGivesBack'
        BY <1>2, <4>1, <4>2 DEF ModeComesBack, ExitGivesBack
      <4>5. QED BY <3>2, <4>2, <4>3, <4>4 DEF ModeInv
    <3>3. QED BY <2>2, <3>1, <3>2 DEF Reserve
  <2>3. CASE Fork(c)
    <3>1. UNCHANGED <<mode, holder, saved, left, host>>
      BY <2>3 DEF Fork
    <3>2. CASE at[c] = "reserved" /\ Go(c, "launched")
      <4>1. Chosen(mode)' /\ holder = Reserved
        BY <3>1, <3>2, ChosenStays
        DEF ModeInv, Chosen, ChosenNext, Ended, TypeOK, KernelTypeOK, HoldInv, HoldIsFollowed, Reserving
      <4>2. Chosen(saved)'
        BY <3>1, <4>1, ChosenStays DEF ModeInv, Chosen, ChosenNext, Ended, TypeOK
      <4>3. ModeComesBack' /\ ExitGivesBack'
        BY <1>2, <3>1, <4>1 DEF ModeComesBack, ExitGivesBack
      <4>4. QED BY <3>1, <4>1, <4>2, <4>3 DEF ModeInv
    <3>3. CASE Go(c, "waiting") \/ Go(c, "awaiting")
      BY <1>2, <3>1, <3>3, ModeStays DEF Go, TypeOK, Reserving
    <3>4. QED BY <2>3, <3>2, <3>3 DEF Fork
  <2>4. CASE ForkFails(c)
    <3>1. host' # "exited"
      BY <1>2, <2>4 DEF ForkFails
    <3>2. CASE at[c] = "reserved" /\ TakeBack(c, "failed", mode)
      BY <3>1, <3>2, TakeBackKeepsMode DEF ModeInv, TypeOK, KernelTypeOK, Spawning
    <3>3. CASE Go(c, "failed") /\ UNCHANGED <<fg, mode, holder, saved>>
      BY <2>4, <3>1, <3>3, ModeStays DEF ForkFails, Go, TypeOK, Reserving
    <3>4. QED BY <2>4, <3>2, <3>3 DEF ForkFails
  <2>5. CASE HeldBy(c)
    <3>1. UNCHANGED <<mode, saved, left, host, proc, status>> /\ at[c] = "launched"
          /\ holder = Reserved /\ holder' = Held(c)
      BY <2>5 DEF HeldBy, kernel, HoldInv, HoldIsFollowed, Reserving
    <3>2. \A d \in Child : at'[d] \notin Reserving
      BY <2>5 DEF HeldBy, Go, TypeOK, HoldInv, ReservedOnce, Reserving
    <3>3. Chosen(saved)' /\ (mode' = c \/ Chosen(mode)')
      BY <3>1 DEF ModeInv, Chosen
    <3>4. ModeComesBack' /\ ExitGivesBack'
      BY <1>2, <3>1 DEF ModeComesBack, ExitGivesBack
    <3>5. QED BY <3>1, <3>2, <3>3, <3>4 DEF ModeInv, Reserving
  <2>6. QED BY <1>2, <2>1, <2>2, <2>3, <2>4, <2>5 DEF Spawn
<1>3. ASSUME NEW c \in Child, Waiter(c), host = "running" PROVE ModeInv'
  <2>1. CASE /\ UNCHANGED <<mode, holder, saved, left, host>>
             /\ \E stage \in {"sweep", "stop seen", "release", "follow", "resume", "asleep", "waiting",
                              "stopping", "back", "asleep again", "reap", "done"} : Go(c, stage)
    BY <1>3, <2>1, ModeStays DEF Go, TypeOK, Reserving
  <2>2. host' = host
    BY <1>3 DEF Waiter, WaitForEnd, WaitId, TakeStop, FollowHeld, FollowOther, StopHost, BackHeld,
                BackOther, Resume, Release, Sweep, Reap, kernel
  <2>3. CASE FollowHeld(c) /\ ~orphan
    <3>1. mode' = saved /\ holder = Held(c) /\ holder' = Suspended(c) /\ saved' = saved
      BY <2>3 DEF FollowHeld
    <3>2. left'[c] = mode
      BY <2>3 DEF FollowHeld, TypeOK
    <3>3. \A d \in Child : at'[d] \notin Reserving
      BY <2>3 DEF FollowHeld, Go, TypeOK, HoldInv, HoldIsFollowed, Reserving
    <3>4. Chosen(saved)' /\ Chosen(mode)'
      BY <3>1, ChosenStays DEF ModeInv, TypeOK, Chosen, ChosenNext, Ended
    <3>5. left'[c] = c \/ Chosen(left[c])'
      BY <3>1, <3>2, ChosenStays DEF ModeInv, TypeOK, KernelTypeOK, Chosen, ChosenNext, Ended
    <3>6. ModeComesBack' /\ ExitGivesBack'
      BY <1>3, <2>2, <3>4 DEF ModeComesBack, ExitGivesBack
    <3>7. QED BY <3>1, <3>3, <3>4, <3>5, <3>6 DEF ModeInv, Reserving
  <2>4. CASE (FollowOther(c) \/ BackOther(c)) /\ holder = Free /\ HandOver(c, mode)
    BY <1>3, <2>2, <2>4, HandOverKeepsMode DEF ModeInv, ModeComesBack, TypeOK, KernelTypeOK
  <2>5. CASE BackHeld(c)
    <3>1. Chosen(mode) /\ Chosen(saved) /\ (left[c] = c \/ Chosen(left[c]))
      BY <2>5 DEF BackHeld, ModeInv, ModeComesBack
    <3>2. CASE HandOver(c, left[c])
      BY <1>3, <2>2, <2>5, <3>1, <3>2, HandOverKeepsMode DEF BackHeld, TypeOK
    <3>3. CASE TakeBack(c, "resume", saved)
      BY <1>3, <2>2, <2>5, <3>1, <3>3, TakeBackKeepsMode DEF BackHeld, TypeOK, Spawning
    <3>4. QED BY <2>5, <3>2, <3>3 DEF BackHeld
  <2>6. CASE Release(c) /\ holder = Held(c)
    <3> DEFINE m == IF status[c] = "exited" THEN mode ELSE saved
    <3>1. m \in Child \cup {Host}
      BY DEF TypeOK, KernelTypeOK
    <3>2. Chosen(saved) /\ (mode = c \/ Chosen(mode)) /\ proc[c] = "zombie"
      BY <2>6 DEF Release, ModeInv, ProcInv, ProcAt
    <3>3. Chosen(m)
      BY <3>2 DEF Chosen
    <3>4. TakeBack(c, "sweep", m)
      BY <2>6 DEF Release
    <3> HIDE DEF m
    <3>5. QED BY <1>3, <2>2, <2>6, <3>1, <3>3, <3>4, TakeBackKeepsMode DEF Spawning
  <2>7. QED
    <3>1. CASE WaitForEnd(c) BY <2>1, <3>1 DEF WaitForEnd, kernel
    <3>2. CASE WaitId(c) BY <2>1, <3>2 DEF WaitId, kernel
    <3>3. CASE TakeStop(c) BY <2>1, <3>3 DEF TakeStop
    <3>4. CASE FollowHeld(c) BY <2>1, <2>3, <3>4 DEF FollowHeld
    <3>5. CASE FollowOther(c) BY <2>1, <2>4, <3>5 DEF FollowOther
    <3>6. CASE StopHost(c) BY <2>1, <3>6 DEF StopHost
    <3>7. CASE BackOther(c) BY <2>1, <2>4, <3>7 DEF BackOther
    <3>8. CASE Resume(c) BY <2>1, <3>8 DEF Resume
    <3>9. CASE Release(c) BY <2>1, <2>6, <3>9 DEF Release
    <3>10. CASE Sweep(c) BY <2>1, <3>10 DEF Sweep
    <3>11. CASE Reap(c) BY <2>1, <3>11 DEF Reap
    <3>12. QED
      BY <1>3, <2>5, <3>1, <3>2, <3>3, <3>4, <3>5, <3>6, <3>7, <3>8, <3>9, <3>10, <3>11 DEF Waiter
<1>4. ASSUME NEW c \in Child, Kill(c), host = "running" PROVE ModeInv'
  BY <1>4, ModeStays DEF Kill
<1>5. CASE GuestEnds /\ host = "running"
  BY <1>5, ModeStays DEF GuestEnds
<1>6. CASE HostExits /\ host = "running"
  <2>1. UNCHANGED <<proc, status, holder, saved, at, left>> /\ ended
    BY <1>6 DEF HostExits
  <2>2. \A d \in Child : at[d] \notin Reserving
    BY <2>1 DEF HoldInv, Spawning, Reserving
  <2>3. fg' \in {Host, Shell} /\ (mode' = saved \/ mode' = mode) /\ Chosen(mode)'
    <3>1. CASE holder # Free
      BY <1>6, <2>1, <3>1 DEF HostExits, ModeInv, Chosen
    <3>2. CASE holder = Free
      BY <1>6, <2>1, <2>2, <3>2
      DEF HostExits, ModeInv, ModeComesBack, Chosen, HoldInv, ForegroundIsHolder, Reserving, TypeOK, KernelTypeOK
    <3>3. QED BY <3>1, <3>2
  <2>4. Chosen(saved) => Chosen(saved)'
    BY <2>1 DEF Chosen
  <2>5. \A d \in Child : Chosen(left[d]) => Chosen(left[d])'
    BY <2>1 DEF Chosen
  <2>6. ModeComesBack' /\ ExitGivesBack'
    BY <2>3 DEF ModeComesBack, ExitGivesBack
  <2>7. QED BY <2>1, <2>2, <2>3, <2>4, <2>5, <2>6 DEF ModeInv, Reserving
<1>7. CASE UNCHANGED vars
  BY <1>7, ModeStays DEF vars
<1>8. QED
  BY <1>1, <1>2, <1>3, <1>4, <1>5, <1>6, <1>7 DEF Next, HostNext

------------------------------------------------------------------------------
IInv == TypeOK /\ ProcInv /\ HoldInv /\ ModeInv

LEMMA InitInv == Init => IInv
<1> SUFFICES ASSUME Init PROVE IInv
  OBVIOUS
<1> USE Holders DEF Init, KernelInit
<1>1. TypeOK
  BY InitTyped
<1>2. ProcInv
  BY DEF ProcInv, ProcAt, Before, Watched
<1>3. HoldInv
  BY DEF HoldInv, HoldIsFollowed, ReservedOnce, ForegroundIsHolder, Reserving
<1>4. ModeInv
  BY DEF ModeInv, ModeComesBack, ExitGivesBack, Chosen
<1>5. QED BY <1>1, <1>2, <1>3, <1>4 DEF IInv

(* In every reachable state the id of a child names what its waiter's place   *)
(* allows, the hold has a thread, and the mode is one the host may find.      *)
LEMMA ChildrenInv == Spec => []IInv
<1>1. IInv /\ [Next]_vars => IInv'
  BY StepTyped, StepProc, StepHold, StepMode DEF IInv
<1>2. QED BY InitInv, <1>1, PTL DEF Spec

(* The state of the children, the hold and the kernel keeps its types.        *)
THEOREM ChildrenTypeOK == Spec => []TypeOK
<1>1. IInv => TypeOK
  BY DEF IInv
<1>2. QED BY <1>1, ChildrenInv, PTL

(* `signal_group`, called from any thread at any time, never signals a group  *)
(* whose id was given away (sandbox.rs, `Child`).                             *)
THEOREM ChildrenNoStrangerSignalled == Spec => []NoStrangerSignalled
<1>1. IInv => NoStrangerSignalled
  BY DEF IInv, TypeOK, Stages, Spawning, ProcInv, ProcAt, Before, Watched, Live, NoStrangerSignalled
<1>2. QED BY <1>1, ChildrenInv, PTL

(* No descendant is left in the group of a child `wait` reaped.               *)
THEOREM ChildrenNoneOutlives == Spec => []NoneOutlives
<1>1. IInv => NoneOutlives
  BY DEF IInv, TypeOK, Stages, Spawning, ProcInv, ProcAt, Before, Watched, Live, NoneOutlives
<1>2. QED BY <1>1, ChildrenInv, PTL

(* Whoever holds the terminal has a thread that will give it back, and the    *)
(* foreground group is the host's, the shell's or the holder's.               *)
THEOREM ChildrenTerminalIsFollowed == Spec => []TerminalIsFollowed
<1>1. IInv => TerminalIsFollowed
  BY DEF IInv, HoldInv, TerminalIsFollowed
<1>2. QED BY <1>1, ChildrenInv, PTL

(* The terminal comes back in a mode the host, or a child that exited, chose, *)
(* also as the host exits.                                                    *)
THEOREM ChildrenTerminalComesBack == Spec => []TerminalComesBack
<1>1. IInv => TerminalComesBack
  BY DEF IInv, ModeInv, TerminalComesBack
<1>2. QED BY <1>1, ChildrenInv, PTL
==============================================================================
