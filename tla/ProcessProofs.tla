----------------------------- MODULE ProcessProofs -----------------------------
(***************************************************************************)
(* Proofs about processes (module Process), for every number of process    *)
(* slots and harts.                                                        *)
(*                                                                         *)
(* IInv below is inductive.  That a sleeper in wait has missed no zombie   *)
(* needs wait_lock: what wait has seen in its scan stays so until it       *)
(* sleeps (ScanStays), and a parent woken up by exit stays awake until its *)
(* child is a zombie (WokenStays), because in between one process has the  *)
(* lock.  That a parent is alive needs that reparent leaves nobody behind  *)
(* (NoneLeft), which again only the lock keeps so until the exit is over.  *)
(***************************************************************************)
EXTENDS Process, TLAPS

\* Where a process is in the kernel tells its state: one that is in a system
\* call is alive, one that has left exit is a zombie, and one that sleeps does
\* so in wait, on its own address.
PlaceAndState ==
  \A p \in Proc :
    /\ pc[p] # "user" => state[p] \notin {"UNUSED", "USED"}
    /\ state[p] = "ZOMBIE" <=> pc[p] = "dead"
    /\ state[p] = "SLEEPING" => pc[p] = "wait" /\ chan[p] = p

\* init is alive and does not exit.
InitAlive ==
  state[init] \notin {"UNUSED", "USED", "ZOMBIE"} /\ pc[init] \notin Exiting

\* A slot has no parent until fork_parent.  The slot of a fork under way is
\* the forker's alone, and its parent is the forker once that is set.
ForkSlot ==
  /\ \A p \in Proc : state[p] = "UNUSED" => parent[p] = None
  /\ \A p, q \in Proc : child[p] # None /\ child[p] = child[q] => p = q
  /\ \A p, q \in Proc :
       child[p] = q
         => /\ state[q] = "USED"
            /\ parent[q] = IF pc[p] = "runnable" THEN p ELSE None

\* Nobody is left whose parent is past reparent.
NoneLeft ==
  \A p, q \in Proc : pc[p] \in {"wakeup", "zombie", "dead"} => parent[q] # p

\* What wait has found in its scan holds until it sleeps.
ScanStays ==
  \A p \in Proc : pc[p] = "sleep" => Kids(p) # {} /\ Zombies(p) = {}

\* The parent that exit has woken up stays awake until its child is a zombie.
WokenStays ==
  \A p, q \in Proc : pc[q] = "zombie" /\ parent[q] = p => state[p] # "SLEEPING"

IInv ==
  /\ TypeOK /\ OneHart /\ PlaceAndState /\ InitAlive /\ ForkSlot
  /\ NoneLeft /\ ParentAlive /\ ScanStays /\ WokenStays /\ NoLostWakeup

\* init has a slot, and None is none.
LEMMA Slots == init \in Proc /\ None \notin Proc
BY ProcessAssumption DEF Proc, init, None

\* scheduler only changes who runs.
LEMMA scheduler_IInv ==
  ASSUME IInv, NEW h \in Hart, NEW p \in Proc, scheduler(h, p)
  PROVE  IInv'
<1>. USE Slots DEF IInv, scheduler
<1>1. TypeOK'
  BY DEF TypeOK, Locked
<1>2. OneHart' /\ PlaceAndState' /\ InitAlive'
  BY DEF TypeOK, Locked, OneHart, PlaceAndState, InitAlive, Exiting
<1>3. ForkSlot' /\ NoneLeft' /\ ParentAlive'
  BY DEF TypeOK, Locked, ForkSlot, NoneLeft, ParentAlive
<1>4. ScanStays' /\ WokenStays' /\ NoLostWakeup'
  BY DEF TypeOK, Locked, ScanStays, Kids, Zombies, WokenStays, NoLostWakeup
<1>. QED BY <1>1, <1>2, <1>3, <1>4

\* A process that has a hart again releases its own lock.
LEMMA Resume_IInv ==
  ASSUME IInv, NEW p \in Proc, Resume(p)
  PROVE  IInv'
<1>. USE Slots DEF IInv, Resume
<1>1. TypeOK'
  BY DEF TypeOK, Locked
<1>2. OneHart' /\ PlaceAndState' /\ InitAlive'
  BY DEF TypeOK, Locked, OneHart, PlaceAndState, InitAlive, Exiting
<1>3. ForkSlot' /\ NoneLeft' /\ ParentAlive'
  BY DEF TypeOK, Locked, ForkSlot, NoneLeft, ParentAlive
<1>4. ScanStays' /\ WokenStays' /\ NoLostWakeup'
  BY DEF TypeOK, Locked, ScanStays, Kids, Zombies, WokenStays, NoLostWakeup
<1>. QED BY <1>1, <1>2, <1>3, <1>4

\* A hart drops a process that no longer runs.
LEMMA sched_IInv ==
  ASSUME IInv, NEW h \in Hart, sched(h)
  PROVE  IInv'
<1>. USE Slots DEF IInv, sched
<1>1. TypeOK'
  BY DEF TypeOK, Locked
<1>2. OneHart' /\ PlaceAndState' /\ InitAlive'
  BY DEF TypeOK, Locked, OneHart, PlaceAndState, InitAlive, Exiting
<1>3. ForkSlot' /\ NoneLeft' /\ ParentAlive'
  BY DEF TypeOK, Locked, ForkSlot, NoneLeft, ParentAlive
<1>4. ScanStays' /\ WokenStays' /\ NoLostWakeup'
  BY DEF TypeOK, Locked, ScanStays, Kids, Zombies, WokenStays, NoLostWakeup
<1>. QED BY <1>1, <1>2, <1>3, <1>4

\* A process that yields is runnable, with its place unchanged.
LEMMA yield_IInv ==
  ASSUME IInv, NEW p \in Proc, yield(p)
  PROVE  IInv'
<1>. USE Slots DEF IInv, yield, OnCpu
<1>1. TypeOK'
  BY DEF TypeOK, Locked
<1>2. OneHart' /\ PlaceAndState' /\ InitAlive'
  BY DEF TypeOK, Locked, OneHart, PlaceAndState, InitAlive, Exiting
<1>3. NoneLeft'
  BY DEF TypeOK, Locked, NoneLeft
<1>4. ForkSlot'
  BY DEF TypeOK, Locked, OneHart, ForkSlot
<1>5. ParentAlive'
  BY DEF TypeOK, Locked, OneHart, ParentAlive
<1>6. ScanStays' /\ WokenStays' /\ NoLostWakeup'
  BY DEF TypeOK, Locked, ScanStays, Kids, Zombies, WokenStays, NoLostWakeup
<1>. QED BY <1>1, <1>2, <1>3, <1>4, <1>5, <1>6

\* allocproc takes a slot that nobody else has.
LEMMA fork_IInv ==
  ASSUME IInv, NEW p \in Proc, fork(p)
  PROVE  IInv'
<1>. USE Slots DEF IInv, fork, OnCpu
<1>1. TypeOK'
  BY DEF TypeOK, Locked, PlaceAndState, ScanStays, Kids, Zombies
<1>2. OneHart' /\ InitAlive'
  BY DEF TypeOK, Locked, OneHart, InitAlive, Exiting
<1>3. PlaceAndState'
  BY DEF TypeOK, Locked, OneHart, PlaceAndState
<1>4. NoneLeft' /\ ParentAlive'
  BY DEF TypeOK, Locked, NoneLeft, ParentAlive
<1>5. ForkSlot'
  BY DEF TypeOK, Locked, PlaceAndState, ForkSlot
<1>6. ScanStays' /\ WokenStays' /\ NoLostWakeup'
  BY DEF TypeOK, Locked, ScanStays, Kids, Zombies, WokenStays, NoLostWakeup
<1>. QED BY <1>1, <1>2, <1>3, <1>4, <1>5, <1>6

\* The new process gets its parent under wait_lock.
LEMMA fork_parent_IInv ==
  ASSUME IInv, NEW p \in Proc, fork_parent(p)
  PROVE  IInv'
<1>. USE Slots DEF IInv, fork_parent, OnCpu, Goto
<1>1. TypeOK'
  BY DEF TypeOK, Locked
<1>2. OneHart' /\ PlaceAndState' /\ InitAlive'
  BY DEF TypeOK, Locked, OneHart, PlaceAndState, InitAlive, Exiting
<1>3. ForkSlot' /\ NoneLeft'
  BY DEF TypeOK, Locked, ForkSlot, NoneLeft
<1>4. ParentAlive'
  BY DEF TypeOK, Locked, OneHart, ParentAlive
<1>5. ScanStays' /\ WokenStays'
  BY DEF TypeOK, Locked, ScanStays, Kids, Zombies, WokenStays
<1>6. NoLostWakeup'
  BY DEF TypeOK, Locked, ForkSlot, NoLostWakeup, Kids, Zombies
<1>. QED BY <1>1, <1>2, <1>3, <1>4, <1>5, <1>6

\* The forker, which is running, is the parent of the new process.
LEMMA fork_runnable_IInv ==
  ASSUME IInv, NEW p \in Proc, fork_runnable(p)
  PROVE  IInv'
<1>. USE Slots DEF IInv, fork_runnable, OnCpu, Goto
<1>1. TypeOK'
  BY DEF TypeOK, Locked
<1>2. InitAlive'
  BY DEF TypeOK, Locked, InitAlive, Exiting
<1>3. OneHart'
  BY DEF TypeOK, Locked, OneHart, ForkSlot
<1>4. PlaceAndState'
  BY DEF TypeOK, Locked, PlaceAndState, ForkSlot
<1>5. ForkSlot' /\ NoneLeft'
  BY DEF TypeOK, Locked, ForkSlot, NoneLeft
<1>6. ParentAlive'
  BY DEF TypeOK, Locked, OneHart, ForkSlot, ParentAlive
<1>7. ScanStays' /\ WokenStays' /\ NoLostWakeup'
  BY DEF TypeOK, Locked, ScanStays, Kids, Zombies, WokenStays, NoLostWakeup
<1>. QED BY <1>1, <1>2, <1>3, <1>4, <1>5, <1>6, <1>7

\* init never gets here.
LEMMA exit_IInv ==
  ASSUME IInv, NEW p \in Proc, exit(p)
  PROVE  IInv'
<1>. USE Slots DEF IInv, exit, OnCpu, Goto
<1>1. TypeOK'
  BY DEF TypeOK, Locked
<1>2. OneHart' /\ InitAlive'
  BY DEF TypeOK, Locked, OneHart, InitAlive, Exiting
<1>3. PlaceAndState'
  BY DEF TypeOK, Locked, OneHart, PlaceAndState
<1>4. ForkSlot' /\ NoneLeft' /\ ParentAlive'
  BY DEF TypeOK, Locked, ForkSlot, NoneLeft, ParentAlive
<1>5. ScanStays' /\ WokenStays' /\ NoLostWakeup'
  BY DEF TypeOK, Locked, ScanStays, Kids, Zombies, WokenStays, NoLostWakeup
<1>. QED BY <1>1, <1>2, <1>3, <1>4, <1>5

\* Acquiring wait_lock: nobody else is between its acquire and release.
LEMMA exit_lock_IInv ==
  ASSUME IInv, NEW p \in Proc, exit_lock(p)
  PROVE  IInv'
<1>. USE Slots DEF IInv, exit_lock, OnCpu, Goto, Acquire
<1>1. TypeOK'
  BY DEF TypeOK, Locked
<1>2. OneHart' /\ PlaceAndState' /\ InitAlive'
  BY DEF TypeOK, Locked, OneHart, PlaceAndState, InitAlive, Exiting
<1>3. ForkSlot' /\ NoneLeft' /\ ParentAlive'
  BY DEF TypeOK, Locked, ForkSlot, NoneLeft, ParentAlive
<1>4. ScanStays' /\ WokenStays' /\ NoLostWakeup'
  BY DEF TypeOK, Locked, ScanStays, Kids, Zombies, WokenStays, NoLostWakeup
<1>. QED BY <1>1, <1>2, <1>3, <1>4

\* The children go to init, which is alive and woken up.
LEMMA reparent_IInv ==
  ASSUME IInv, NEW p \in Proc, reparent(p)
  PROVE  IInv'
<1>. USE Slots DEF IInv, reparent, OnCpu, Goto, Kids, Woken, CanWake
<1>1. TypeOK'
  BY DEF TypeOK, Locked
<1>2. OneHart' /\ PlaceAndState' /\ InitAlive'
  BY DEF TypeOK, Locked, OneHart, PlaceAndState, InitAlive, Exiting
<1>3. ForkSlot'
  BY DEF TypeOK, Locked, ForkSlot
<1>4. NoneLeft'
  BY DEF TypeOK, Locked, InitAlive, Exiting, NoneLeft
<1>5. ParentAlive'
  BY DEF TypeOK, Locked, InitAlive, Exiting, ParentAlive
<1>6. ScanStays' /\ WokenStays'
  BY DEF TypeOK, Locked, ScanStays, Zombies, WokenStays
<1>7. NoLostWakeup'
  BY DEF TypeOK, Locked, PlaceAndState, NoLostWakeup, Zombies
<1>. QED BY <1>1, <1>2, <1>3, <1>4, <1>5, <1>6, <1>7

\* The parent is awake after the wakeup.
LEMMA exit_wakeup_IInv ==
  ASSUME IInv, NEW p \in Proc, exit_wakeup(p)
  PROVE  IInv'
<1>. USE Slots DEF IInv, exit_wakeup, OnCpu, Goto, Woken, CanWake
<1>1. TypeOK'
  BY DEF TypeOK, Locked
<1>2. OneHart' /\ PlaceAndState' /\ InitAlive'
  BY DEF TypeOK, Locked, OneHart, PlaceAndState, InitAlive, Exiting
<1>3. ForkSlot' /\ NoneLeft' /\ ParentAlive'
  BY DEF TypeOK, Locked, ForkSlot, NoneLeft, ParentAlive
<1>4. NoLostWakeup'
  BY DEF TypeOK, Locked, NoLostWakeup, Kids, Zombies
<1>5. ScanStays'
  <2>1. wait_lock = p /\ \A q \in Proc : pc'[q] # "sleep"
    BY DEF TypeOK, Locked
  <2>. QED BY <2>1 DEF ScanStays
<1>6. WokenStays'
  BY DEF TypeOK, Locked, PlaceAndState, WokenStays
<1>. QED BY <1>1, <1>2, <1>3, <1>4, <1>5, <1>6

\* A zombie leaves no children behind (NoneLeft), and its parent is awake to
\* see it (WokenStays).
LEMMA exit_zombie_IInv ==
  ASSUME IInv, NEW p \in Proc, exit_zombie(p)
  PROVE  IInv'
<1>. USE Slots DEF IInv, exit_zombie, OnCpu, Goto, Release
<1>1. TypeOK'
  <2>1. /\ state' \in [Proc -> {"UNUSED", "USED", "SLEEPING", "RUNNABLE", "RUNNING", "ZOMBIE"}]
        /\ plock' \in [Proc -> BOOLEAN]
        /\ pc' \in [Proc -> {"user", "parent", "runnable", "exit", "wait", "dead"} \cup Locked]
    BY DEF TypeOK
  <2>2. \A r \in Proc : wait_lock' = r <=> pc'[r] \in Locked
    BY DEF TypeOK, Locked
  <2>. QED BY <2>1, <2>2 DEF TypeOK
<1>2. OneHart' /\ PlaceAndState' /\ InitAlive'
  BY DEF TypeOK, Locked, OneHart, PlaceAndState, InitAlive, Exiting
<1>3. NoneLeft'
  BY DEF TypeOK, Locked, NoneLeft
<1>4. ForkSlot'
  BY DEF TypeOK, Locked, OneHart, ForkSlot
<1>5. ParentAlive'
  BY DEF TypeOK, Locked, OneHart, NoneLeft, ParentAlive
<1>6. ScanStays' /\ WokenStays'
  BY DEF TypeOK, Locked, ScanStays, Kids, Zombies, WokenStays
<1>7. NoLostWakeup'
  BY DEF TypeOK, Locked, WokenStays, NoLostWakeup, Kids, Zombies
<1>. QED BY <1>1, <1>2, <1>3, <1>4, <1>5, <1>6, <1>7

\* wait is entered by a running process.
LEMMA wait_IInv ==
  ASSUME IInv, NEW p \in Proc, wait(p)
  PROVE  IInv'
<1>. USE Slots DEF IInv, wait, OnCpu, Goto
<1>1. TypeOK'
  BY DEF TypeOK, Locked
<1>2. OneHart' /\ InitAlive'
  BY DEF TypeOK, Locked, OneHart, InitAlive, Exiting
<1>3. PlaceAndState'
  BY DEF TypeOK, Locked, OneHart, PlaceAndState
<1>4. ForkSlot' /\ NoneLeft' /\ ParentAlive'
  BY DEF TypeOK, Locked, ForkSlot, NoneLeft, ParentAlive
<1>5. ScanStays' /\ WokenStays' /\ NoLostWakeup'
  BY DEF TypeOK, Locked, ScanStays, Kids, Zombies, WokenStays, NoLostWakeup
<1>. QED BY <1>1, <1>2, <1>3, <1>4, <1>5

\* As for exit_lock.
LEMMA wait_acquire_IInv ==
  ASSUME IInv, NEW p \in Proc, wait_acquire(p)
  PROVE  IInv'
<1>. USE Slots DEF IInv, wait_acquire, OnCpu, Goto, Acquire
<1>1. TypeOK'
  BY DEF TypeOK, Locked
<1>2. OneHart' /\ InitAlive'
  BY DEF TypeOK, Locked, OneHart, InitAlive, Exiting
<1>3. PlaceAndState'
  BY DEF TypeOK, Locked, OneHart, PlaceAndState
<1>4. ForkSlot' /\ NoneLeft' /\ ParentAlive'
  BY DEF TypeOK, Locked, ForkSlot, NoneLeft, ParentAlive
<1>5. ScanStays' /\ WokenStays' /\ NoLostWakeup'
  BY DEF TypeOK, Locked, ScanStays, Kids, Zombies, WokenStays, NoLostWakeup
<1>. QED BY <1>1, <1>2, <1>3, <1>4, <1>5

\* freeproc: the slot is a zombie's, which has no children left (NoneLeft) and
\* no fork under way.
LEMMA wait_reap_IInv ==
  ASSUME IInv, NEW p \in Proc, wait_reap(p)
  PROVE  IInv'
<1>. USE Slots DEF IInv, wait_reap, OnCpu, OffCpu, Release, Kids, Zombies
<1>1. TypeOK'
  <2>1. PICK q \in Zombies(p) :
          /\ state' = [state EXCEPT ![q] = "UNUSED"]
          /\ parent' = [parent EXCEPT ![q] = None]
          /\ killed' = [killed EXCEPT ![q] = FALSE]
          /\ chan' = [chan EXCEPT ![q] = None]
          /\ pc' = [pc EXCEPT ![p] = "user", ![q] = "user"]
    BY ZenonT(40)
  <2>2. q \in Proc /\ pc[q] = "dead" /\ pc[p] = "scan" /\ wait_lock = p
    BY <2>1 DEF TypeOK, Locked, PlaceAndState
  <2>3. /\ state' \in [Proc -> {"UNUSED", "USED", "SLEEPING", "RUNNABLE", "RUNNING", "ZOMBIE"}]
        /\ parent' \in [Proc -> Proc \cup {None}] /\ chan' \in [Proc -> Proc \cup {None}]
        /\ killed' \in [Proc -> BOOLEAN]
    BY <2>1, <2>2 DEF TypeOK
  <2>4. /\ pc' \in [Proc -> {"user", "parent", "runnable", "exit", "wait", "dead"} \cup Locked]
        /\ \A r \in Proc : pc'[r] = IF r \in {p, q} THEN "user" ELSE pc[r]
    BY <2>1, <2>2 DEF TypeOK
  <2>5. \A r \in Proc : wait_lock' = r <=> pc'[r] \in Locked
    BY <2>2, <2>4 DEF TypeOK, Locked
  <2>. QED BY <2>2, <2>3, <2>4, <2>5 DEF TypeOK
<1>2. OneHart' /\ InitAlive'
  BY DEF TypeOK, Locked, OneHart, InitAlive, Exiting
<1>3. PlaceAndState'
  BY DEF TypeOK, Locked, OneHart, PlaceAndState
<1>4. ForkSlot'
  BY DEF TypeOK, Locked, OneHart, PlaceAndState, ForkSlot
<1>5. NoneLeft'
  BY DEF TypeOK, Locked, OneHart, NoneLeft
<1>6. ParentAlive'
  BY DEF TypeOK, Locked, OneHart, ParentAlive
<1>7. WokenStays'
  BY DEF TypeOK, Locked, WokenStays
<1>8. ScanStays'
  BY DEF TypeOK, Locked, OneHart, ScanStays
<1>9. NoLostWakeup'
  BY DEF TypeOK, Locked, OneHart, NoLostWakeup
<1>. QED BY <1>1, <1>2, <1>3, <1>4, <1>5, <1>6, <1>7, <1>8, <1>9

\* copyout fails: the zombie stays.
LEMMA wait_badaddr_IInv ==
  ASSUME IInv, NEW p \in Proc, wait_badaddr(p)
  PROVE  IInv'
<1>. USE Slots DEF IInv, wait_badaddr, OnCpu, OffCpu, Release, Goto, Kids, Zombies
<1>1. TypeOK'
  BY DEF TypeOK, Locked
<1>2. OneHart' /\ PlaceAndState' /\ InitAlive'
  BY DEF TypeOK, Locked, OneHart, PlaceAndState, InitAlive, Exiting
<1>3. ForkSlot' /\ NoneLeft' /\ ParentAlive'
  BY DEF TypeOK, Locked, ForkSlot, NoneLeft, ParentAlive
<1>4. ScanStays' /\ WokenStays' /\ NoLostWakeup'
  BY DEF TypeOK, Locked, ScanStays, WokenStays, NoLostWakeup
<1>. QED BY <1>1, <1>2, <1>3, <1>4

\* The scan finds children and no zombie.
LEMMA wait_scan_IInv ==
  ASSUME IInv, NEW p \in Proc, wait_scan(p)
  PROVE  IInv'
<1>. USE Slots DEF IInv, wait_scan, OnCpu, Release, Goto, Kids, Zombies
<1>1. TypeOK'
  BY DEF TypeOK, Locked
<1>2. OneHart' /\ PlaceAndState' /\ InitAlive'
  BY DEF TypeOK, Locked, OneHart, PlaceAndState, InitAlive, Exiting
<1>3. ForkSlot' /\ NoneLeft' /\ ParentAlive'
  BY DEF TypeOK, Locked, ForkSlot, NoneLeft, ParentAlive
<1>4. ScanStays' /\ WokenStays' /\ NoLostWakeup'
  BY DEF TypeOK, Locked, ScanStays, WokenStays, NoLostWakeup
<1>. QED BY <1>1, <1>2, <1>3, <1>4

\* wait sleeps on what its scan has found: ScanStays.
LEMMA wait_sleep_IInv ==
  ASSUME IInv, NEW p \in Proc, wait_sleep(p)
  PROVE  IInv'
<1>. USE Slots DEF IInv, wait_sleep, OnCpu, Release, Goto, Asleep_on
<1>1. TypeOK'
  BY DEF TypeOK, Locked
<1>2. OneHart' /\ PlaceAndState' /\ InitAlive'
  BY DEF TypeOK, Locked, OneHart, PlaceAndState, InitAlive, Exiting
<1>3. NoneLeft'
  BY DEF TypeOK, Locked, NoneLeft
<1>4. ForkSlot'
  BY DEF TypeOK, Locked, OneHart, ForkSlot
<1>5. ParentAlive'
  BY DEF TypeOK, Locked, OneHart, ParentAlive
<1>6. ScanStays' /\ WokenStays'
  BY DEF TypeOK, Locked, ScanStays, Kids, Zombies, WokenStays
<1>7. NoLostWakeup'
  BY DEF TypeOK, Locked, OneHart, ScanStays, Kids, Zombies, NoLostWakeup
<1>. QED BY <1>1, <1>2, <1>3, <1>4, <1>5, <1>6, <1>7

\* A killed sleeper is woken up.
LEMMA kill_IInv ==
  ASSUME IInv, NEW p \in Proc, NEW q \in Proc, kill(p, q)
  PROVE  IInv'
<1>. USE Slots DEF IInv, kill, OnCpu
<1>1. TypeOK'
  BY DEF TypeOK, Locked, OneHart
<1>2. OneHart' /\ PlaceAndState' /\ InitAlive'
  BY DEF TypeOK, Locked, OneHart, PlaceAndState, InitAlive, Exiting
<1>3. ForkSlot' /\ NoneLeft' /\ ParentAlive'
  BY DEF TypeOK, Locked, ForkSlot, NoneLeft, ParentAlive
<1>4. WokenStays' /\ NoLostWakeup'
  BY DEF TypeOK, Locked, WokenStays, NoLostWakeup, Kids, Zombies
<1>5. ScanStays'
  BY DEF TypeOK, Locked, OneHart, ScanStays, Kids, Zombies
<1>. QED BY <1>1, <1>2, <1>3, <1>4, <1>5


-----------------------------------------------------------------------------
(* The theorems.                                                           *)

\* The boot state: init is the only process.
LEMMA Init_IInv == Init => IInv
<1>. SUFFICES ASSUME Init PROVE IInv
  OBVIOUS
<1>. USE Slots DEF Init
<1>1. TypeOK
  BY DEF TypeOK, Locked
<1>2. OneHart /\ PlaceAndState /\ InitAlive
  BY DEF OneHart, PlaceAndState, InitAlive, Exiting
<1>3. ForkSlot /\ NoneLeft /\ ParentAlive
  BY DEF ForkSlot, NoneLeft, ParentAlive
<1>4. ScanStays /\ WokenStays /\ NoLostWakeup
  BY DEF ScanStays, Kids, Zombies, WokenStays, NoLostWakeup
<1>. QED BY <1>1, <1>2, <1>3, <1>4 DEF IInv

\* Every step of a process in fork, exit or wait preserves IInv.
LEMMA KernelStep_IInv ==
  ASSUME IInv, NEW p \in Proc, KernelStep(p)
  PROVE  IInv'
<1>1. CASE fork_parent(p) \/ fork_runnable(p)
  BY <1>1, fork_parent_IInv, fork_runnable_IInv
<1>2. CASE exit_lock(p) \/ reparent(p) \/ exit_wakeup(p) \/ exit_zombie(p)
  BY <1>2, exit_lock_IInv, reparent_IInv, exit_wakeup_IInv, exit_zombie_IInv
<1>3. CASE wait_acquire(p) \/ wait_reap(p) \/ wait_badaddr(p)
  BY <1>3, wait_acquire_IInv, wait_reap_IInv, wait_badaddr_IInv
<1>4. CASE wait_scan(p) \/ wait_sleep(p)
  BY <1>4, wait_scan_IInv, wait_sleep_IInv
<1>. QED BY <1>1, <1>2, <1>3, <1>4 DEF KernelStep

\* IInv holds in every state the process table can reach.
THEOREM InductiveInvariant == Spec => []IInv
<1>1. IInv /\ [Next]_vars => IInv'
  <2>. SUFFICES ASSUME IInv, [Next]_vars PROVE IInv'
    OBVIOUS
  <2>1. ASSUME NEW p \in Proc, KernelStep(p) PROVE IInv'
    BY <2>1, KernelStep_IInv
  <2>2. ASSUME NEW p \in Proc, fork(p) \/ exit(p) \/ wait(p) PROVE IInv'
    BY <2>2, fork_IInv, exit_IInv, wait_IInv
  <2>3. ASSUME NEW p \in Proc, yield(p) \/ Resume(p) PROVE IInv'
    BY <2>3, yield_IInv, Resume_IInv
  <2>4. ASSUME NEW p \in Proc, NEW q \in Proc, kill(p, q) PROVE IInv'
    BY <2>4, kill_IInv
  <2>5. ASSUME NEW h \in Hart, sched(h) \/ \E p \in Proc : scheduler(h, p) PROVE IInv'
    BY <2>5, sched_IInv, scheduler_IInv, SMTT(30)
  <2>6. CASE UNCHANGED vars
    BY <2>6 DEF vars, IInv, TypeOK, Locked, OneHart, PlaceAndState, InitAlive, Exiting,
                ForkSlot, NoneLeft, ParentAlive, ScanStays, Kids, Zombies, WokenStays,
                NoLostWakeup
  <2>. QED BY <2>1, <2>2, <2>3, <2>4, <2>5, <2>6 DEF Next
<1>. QED BY <1>1, Init_IInv, PTL DEF Spec

\* No process is on two harts, and none is dispatched or freed before it has
\* left its hart, for any number of harts and process slots.
THEOREM RunsOnce == Spec => []OneHart
<1>1. IInv => OneHart
  BY DEF IInv
<1>. QED BY <1>1, InductiveInvariant, PTL

\* Every process but init has a parent that is alive, and so can wait for it:
\* reparent leaves no child behind, whatever runs beside it.
THEOREM ParentsLive == Spec => []ParentAlive
<1>1. IInv => ParentAlive
  BY DEF IInv
<1>. QED BY <1>1, InductiveInvariant, PTL

\* Nobody sleeps in wait while it has a zombie child, or no child at all.
THEOREM ZombiesSeen == Spec => []NoLostWakeup
<1>1. IInv => NoLostWakeup
  BY DEF IInv
<1>. QED BY <1>1, InductiveInvariant, PTL
=============================================================================
