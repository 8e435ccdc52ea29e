-------------------------------- MODULE Process --------------------------------
(***************************************************************************)
(* Processes of kernel/proc.c: fork, exit, wait, kill, sleep and wakeup,   *)
(* and the scheduler on each hart.  Memory is in module Mmap; here a       *)
(* process is its state, its parent and where it is in the kernel.         *)
(*                                                                         *)
(* wait_lock is modelled by its holder.  p->lock is modelled where it is   *)
(* held over a switch: from sleep, exit or yield to the release in         *)
(* scheduler, and from scheduler to the release after sched or in forkret. *)
(* Everything else done with p->lock held is one step that waits for it.   *)
(* The scan of wait is one step too: while wait_lock is held no process    *)
(* becomes a zombie and none gets another parent.                          *)
(***************************************************************************)
EXTENDS Integers, FiniteSets

CONSTANTS NPROC,  \* process slots (64); slot 1 is initproc
          NHART   \* harts (up to NCPU = 8)

ASSUME ProcessAssumption == NPROC \in Nat \ {0} /\ NHART \in Nat \ {0}

Proc == 1 .. NPROC
Hart == 1 .. NHART
init == 1
None == 0

VARIABLES state,      \* p->state
          chan,       \* p->chan: None, or the process whose address it is
          killed,     \* p->killed
          parent,     \* p->parent
          plock,      \* p->lock is held over a switch
          wait_lock,  \* the holder of wait_lock
          hart,       \* c->proc
          pc,         \* where p is
          child       \* np, of a fork under way

vars == <<state, chan, killed, parent, plock, wait_lock, hart, pc, child>>

Init ==
  /\ state = [p \in Proc |-> IF p = init THEN "RUNNABLE" ELSE "UNUSED"]
  /\ chan = [p \in Proc |-> None]
  /\ killed = [p \in Proc |-> FALSE]
  /\ parent = [p \in Proc |-> None]
  /\ plock = [p \in Proc |-> FALSE]
  /\ wait_lock = None
  /\ hart = [h \in Hart |-> None]
  /\ pc = [p \in Proc |-> "user"]
  /\ child = [p \in Proc |-> None]

\* p executes instructions on some hart.
OnCpu(p) == ~plock[p] /\ \E h \in Hart : hart[h] = p

\* The children that reparent and wait look for.
Kids(p) == {q \in Proc : parent[q] = p}
Zombies(p) == {q \in Kids(p) : state[q] = "ZOMBIE"}

\* acquire(&wait_lock) by p, and release.
Acquire(p) == wait_lock = None /\ wait_lock' = p
Release == wait_lock' = None
Goto(p, l) == pc' = [pc EXCEPT ![p] = l]

-----------------------------------------------------------------------------
(* Switching.                                                              *)

\* scheduler picks p.
scheduler(h, p) ==
  /\ hart[h] = None
  /\ state[p] = "RUNNABLE" /\ ~plock[p]
  /\ state' = [state EXCEPT ![p] = "RUNNING"]
  /\ hart' = [hart EXCEPT ![h] = p]
  /\ plock' = [plock EXCEPT ![p] = TRUE]
  /\ UNCHANGED <<chan, killed, parent, wait_lock, pc, child>>

\* p continues after sched, or in forkret, and releases its lock.
Resume(p) ==
  /\ plock[p] /\ state[p] = "RUNNING"
  /\ plock' = [plock EXCEPT ![p] = FALSE]
  /\ chan' = [chan EXCEPT ![p] = None]
  /\ UNCHANGED <<state, killed, parent, wait_lock, hart, pc, child>>

\* sched, back to the scheduler, which releases p's lock.
sched(h) ==
  /\ hart[h] # None
  /\ plock[hart[h]] /\ state[hart[h]] # "RUNNING"
  /\ plock' = [plock EXCEPT ![hart[h]] = FALSE]
  /\ hart' = [hart EXCEPT ![h] = None]
  /\ UNCHANGED <<state, chan, killed, parent, wait_lock, pc, child>>

\* A timer interrupt while p neither holds wait_lock nor spins on it in exit or
\* wait: acquire turns interrupts off before it spins.
yield(p) ==
  /\ OnCpu(p)
  /\ pc[p] \in {"user", "parent", "runnable"}
  /\ plock' = [plock EXCEPT ![p] = TRUE]
  /\ state' = [state EXCEPT ![p] = "RUNNABLE"]
  /\ UNCHANGED <<chan, killed, parent, wait_lock, hart, pc, child>>

-----------------------------------------------------------------------------
(* sleep and wakeup.                                                       *)

\* sleep, with p->lock taken, up to sched.
Asleep_on(p, c) ==
  /\ state' = [state EXCEPT ![p] = "SLEEPING"]
  /\ chan' = [chan EXCEPT ![p] = c]
  /\ plock' = [plock EXCEPT ![p] = TRUE]

\* wakeup(c) by p, as the value of state: p's own lock is not taken.
Woken(p, c) ==
  [q \in Proc |-> IF q # p /\ state[q] = "SLEEPING" /\ chan[q] = c
                    THEN "RUNNABLE" ELSE state[q]]

\* wakeup can take the lock of every sleeper on c.
CanWake(p, c) == \A q \in Proc \ {p} : state[q] = "SLEEPING" /\ chan[q] = c => ~plock[q]

-----------------------------------------------------------------------------
(* fork.                                                                   *)

\* allocproc and what fork does with the child's lock held.  The search for a
\* slot is not atomic, so any unused slot may be the one it finds.
fork(p) ==
  /\ OnCpu(p) /\ pc[p] = "user" /\ ~killed[p]
  /\ \E np \in Proc :
       /\ state[np] = "UNUSED" /\ ~plock[np]
       /\ state' = [state EXCEPT ![np] = "USED"]
       /\ child' = [child EXCEPT ![p] = np]
       /\ pc' = [pc EXCEPT ![p] = "parent", ![np] = "user"]
  /\ UNCHANGED <<chan, killed, parent, plock, wait_lock, hart>>

\* np->parent = p, with wait_lock.
fork_parent(p) ==
  /\ OnCpu(p) /\ pc[p] = "parent"
  /\ wait_lock = None
  /\ parent' = [parent EXCEPT ![child[p]] = p]
  /\ Goto(p, "runnable")
  /\ UNCHANGED <<state, chan, killed, plock, wait_lock, hart, child>>

\* np->state = RUNNABLE, with np->lock.
fork_runnable(p) ==
  /\ OnCpu(p) /\ pc[p] = "runnable"
  /\ state' = [state EXCEPT ![child[p]] = "RUNNABLE"]
  /\ child' = [child EXCEPT ![p] = None]
  /\ Goto(p, "user")
  /\ UNCHANGED <<chan, killed, parent, plock, wait_lock, hart>>

-----------------------------------------------------------------------------
(* exit.                                                                   *)

\* exit is called, by the program or by usertrap for a killed process.
exit(p) ==
  /\ OnCpu(p) /\ pc[p] = "user" /\ p # init
  /\ Goto(p, "exit")
  /\ UNCHANGED <<state, chan, killed, parent, plock, wait_lock, hart, child>>

exit_lock(p) ==
  /\ OnCpu(p) /\ pc[p] = "exit"
  /\ Acquire(p)
  /\ Goto(p, "reparent")
  /\ UNCHANGED <<state, chan, killed, parent, plock, hart, child>>

\* Mutant: the children are not handed over.
reparent_not(p) ==
  /\ OnCpu(p) /\ pc[p] = "reparent"
  /\ Goto(p, "wakeup")
  /\ UNCHANGED <<state, chan, killed, parent, plock, wait_lock, hart, child>>

\* reparent: p's children become init's, and init is woken up for each.
reparent(p) ==
  LET kids == Kids(p)
  IN /\ OnCpu(p) /\ pc[p] = "reparent"
     /\ kids # {} => CanWake(p, init)
     /\ parent' = [q \in Proc |-> IF q \in kids THEN init ELSE parent[q]]
     /\ state' = IF kids = {} THEN state ELSE Woken(p, init)
     /\ Goto(p, "wakeup")
     /\ UNCHANGED <<chan, killed, plock, wait_lock, hart, child>>

\* wakeup(p->parent).
exit_wakeup(p) ==
  /\ OnCpu(p) /\ pc[p] = "wakeup"
  /\ CanWake(p, parent[p])
  /\ state' = Woken(p, parent[p])
  /\ Goto(p, "zombie")
  /\ UNCHANGED <<chan, killed, parent, plock, wait_lock, hart, child>>

\* p->state = ZOMBIE with p->lock, which the scheduler will release.
exit_zombie(p) ==
  /\ OnCpu(p) /\ pc[p] = "zombie"
  /\ state' = [state EXCEPT ![p] = "ZOMBIE"]
  /\ plock' = [plock EXCEPT ![p] = TRUE]
  /\ Release
  /\ Goto(p, "dead")
  /\ UNCHANGED <<chan, killed, parent, hart, child>>

-----------------------------------------------------------------------------
(* wait.                                                                   *)

wait(p) ==
  /\ OnCpu(p) /\ pc[p] = "user" /\ ~killed[p]
  /\ Goto(p, "wait")
  /\ UNCHANGED <<state, chan, killed, parent, plock, wait_lock, hart, child>>

\* acquire(&wait_lock), at the start of wait or of sleep's end.
wait_acquire(p) ==
  /\ OnCpu(p) /\ pc[p] = "wait"
  /\ Acquire(p)
  /\ Goto(p, "scan")
  /\ UNCHANGED <<state, chan, killed, parent, plock, hart, child>>

\* Mutant: wait does not wait for the child to be off its hart.
OffCpu_any(q) == TRUE

\* "make sure the child isn't still in exit() or swtch()": q's lock is free.
OffCpu(q) == ~plock[q]

\* The scan finds its first zombie: freeproc, and wait returns its pid.
wait_reap(p) ==
  /\ OnCpu(p) /\ pc[p] = "scan"
  /\ \E q \in Zombies(p) :
       /\ \A r \in Zombies(p) : q <= r
       /\ OffCpu(q)
       /\ state' = [state EXCEPT ![q] = "UNUSED"]
       /\ parent' = [parent EXCEPT ![q] = None]
       /\ killed' = [killed EXCEPT ![q] = FALSE]
       /\ chan' = [chan EXCEPT ![q] = None]
       /\ pc' = [pc EXCEPT ![p] = "user", ![q] = "user"]
  /\ Release
  /\ UNCHANGED <<plock, hart, child>>

\* The scan finds a zombie but copyout of its status fails: wait returns -1.
wait_badaddr(p) ==
  /\ OnCpu(p) /\ pc[p] = "scan"
  /\ \E q \in Zombies(p) : OffCpu(q)
  /\ Release /\ Goto(p, "user")
  /\ UNCHANGED <<state, chan, killed, parent, plock, hart, child>>

\* No zombie: wait returns -1 if there is no child or the caller is killed.
wait_scan(p) ==
  /\ OnCpu(p) /\ pc[p] = "scan"
  /\ Zombies(p) = {}
  /\ IF Kids(p) = {} \/ killed[p]
       THEN Release /\ Goto(p, "user")
       ELSE Goto(p, "sleep") /\ UNCHANGED wait_lock
  /\ UNCHANGED <<state, chan, killed, parent, plock, hart, child>>

\* Mutant: sleep gives wait_lock up before the process is marked as sleeping.
wait_sleep_early(p) ==
  /\ OnCpu(p)
  /\ \/ /\ pc[p] = "sleep" /\ wait_lock = p
        /\ Release
        /\ UNCHANGED <<state, chan, plock, pc>>
     \/ /\ pc[p] = "sleep" /\ wait_lock # p
        /\ Asleep_on(p, p)
        /\ Goto(p, "wait")
        /\ UNCHANGED wait_lock
  /\ UNCHANGED <<killed, parent, hart, child>>

\* sleep(p, &wait_lock), up to sched.
wait_sleep(p) ==
  /\ OnCpu(p) /\ pc[p] = "sleep"
  /\ Asleep_on(p, p)
  /\ Release
  /\ Goto(p, "wait")
  /\ UNCHANGED <<killed, parent, hart, child>>

-----------------------------------------------------------------------------

\* kill(pid of q) by p; a program does not kill init.  An unused slot has pid 0,
\* and kill(0) finds the first one.
kill(p, q) ==
  /\ OnCpu(p) /\ pc[p] = "user" /\ ~killed[p]
  /\ state[q] = "UNUSED" => \A r \in Proc : state[r] = "UNUSED" => q <= r
  /\ q # init /\ ~plock[q]
  /\ killed' = [killed EXCEPT ![q] = TRUE]
  /\ state' = [state EXCEPT ![q] = IF @ = "SLEEPING" THEN "RUNNABLE" ELSE @]
  /\ UNCHANGED <<chan, parent, plock, wait_lock, hart, pc, child>>

\* What p does once it is in the kernel.
KernelStep(p) ==
  \/ fork_parent(p) \/ fork_runnable(p)
  \/ exit_lock(p) \/ reparent(p) \/ exit_wakeup(p) \/ exit_zombie(p)
  \/ wait_acquire(p) \/ wait_reap(p) \/ wait_badaddr(p) \/ wait_scan(p)
  \/ wait_sleep(p)

Next ==
  \/ \E p \in Proc : KernelStep(p) \/ fork(p) \/ exit(p) \/ wait(p) \/ yield(p) \/ Resume(p)
  \/ \E p, q \in Proc : kill(p, q)
  \/ \E h \in Hart : sched(h) \/ \E p \in Proc : scheduler(h, p)

Spec == Init /\ [][Next]_vars

\* scheduler goes round the process table, so that a process that is RUNNABLE
\* again and again gets a hart; a timer tick is long enough for some progress;
\* a free spinlock goes to any of those that spin on it, in the end to each.
\* init waits for ever (user/init.c).
FairSpec ==
  /\ Spec
  /\ \A h \in Hart : WF_vars(sched(h))
  /\ \A p \in Proc : /\ WF_vars(Resume(p))
                     /\ SF_vars(\E h \in Hart : scheduler(h, p))
                     /\ SF_vars(KernelStep(p))
  /\ SF_vars(wait(init))

-----------------------------------------------------------------------------
(* Properties.                                                             *)

\* Where wait_lock is held, where a process is in wait and where in exit.
Locked == {"reparent", "wakeup", "zombie", "scan", "sleep"}
InWait(p) == pc[p] \in {"wait", "scan", "sleep"}
Exiting == {"exit", "reparent", "wakeup", "zombie", "dead"}

\* Type invariant; wait_lock is held exactly between its acquire and its
\* release, and np is the slot of a fork under way.
TypeOK ==
  /\ state \in [Proc -> {"UNUSED", "USED", "SLEEPING", "RUNNABLE", "RUNNING", "ZOMBIE"}]
  /\ chan \in [Proc -> Proc \cup {None}] /\ parent \in [Proc -> Proc \cup {None}]
  /\ killed \in [Proc -> BOOLEAN] /\ plock \in [Proc -> BOOLEAN]
  /\ hart \in [Hart -> Proc \cup {None}]
  /\ pc \in [Proc -> {"user", "parent", "runnable", "exit", "wait", "dead"} \cup Locked]
  /\ wait_lock \in Proc \cup {None}
  /\ \A p \in Proc : wait_lock = p <=> pc[p] \in Locked
  /\ child \in [Proc -> Proc \cup {None}]
  /\ \A p \in Proc : child[p] # None <=> pc[p] \in {"parent", "runnable"}

\* A process is on at most one hart.  It is on one exactly if it is RUNNING, or
\* has its lock on the way to the scheduler: until then nobody dispatches it
\* again, and wait does not free it (proc.c:866).
OneHart ==
  /\ \A g, h \in Hart : hart[g] = hart[h] /\ hart[g] # None => g = h
  /\ \A p \in Proc :
       (\E h \in Hart : hart[h] = p)
         <=> state[p] = "RUNNING"
             \/ (plock[p] /\ state[p] \in {"SLEEPING", "RUNNABLE", "ZOMBIE"})
  /\ \A p \in Proc : state[p] \in {"UNUSED", "USED"} => ~plock[p]

\* No wakeup is lost: a process asleep in wait has a child, and none of its
\* children is a zombie that it could reap.
NoLostWakeup ==
  \A p \in Proc : state[p] = "SLEEPING" => Kids(p) # {} /\ Zombies(p) = {}

\* Whoever has been forked has a parent that will live to reap it: no parent is
\* a zombie or has been freed.
ParentAlive ==
  \A p \in Proc :
    state[p] \notin {"UNUSED", "USED"} /\ p # init
      => parent[p] # None /\ state[parent[p]] \notin {"UNUSED", "USED", "ZOMBIE"}

\* A process that waits while a child of its exits returns from wait.  (Which
\* zombie it gets is another matter: the scan starts at the first slot each
\* time, so one in a later slot can be passed over for ever.)
WaitReturns ==
  \A p, q \in Proc :
    InWait(p) /\ parent[q] = p /\ pc[q] \in Exiting ~> ~InWait(p)
=============================================================================
