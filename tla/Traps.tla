-------------------------------- MODULE Traps --------------------------------
(***************************************************************************)
(* Spinlocks (kernel/spinlock.c) and interrupts (kernel/trap.c) on several *)
(* harts, as the clock uses them: clockintr and sys_sleep share tickslock, *)
(* processes are preempted by the timer in user and in kernel mode, and    *)
(* are switched by scheduler, sched, yield, sleep and wakeup.              *)
(*                                                                         *)
(* What a thread (a process in the kernel, or the scheduler of a hart)     *)
(* still has to do is a list of instructions; a call prepends the body of  *)
(* the function, and so does an interrupt, wherever interrupts are         *)
(* enabled.  An instruction is one access to shared memory or to a hart's  *)
(* own registers and struct cpu.                                           *)
(***************************************************************************)
EXTENDS Integers, Sequences, FiniteSets, SequencesExt

CONSTANTS Proc, Hart,   \* disjoint sets of numbers
          Boot,         \* the hart with cpuid() = 0, which counts ticks
          Scene,        \* what may happen: records of the processes and harts
                        \* there are, and the system calls programs make
          TICKS         \* ticks is a uint: 2^32

ASSUME TrapsAssumption ==
  /\ Proc \subseteq Nat \ {0} /\ Hart \subseteq Nat \ {0} /\ Proc \cap Hart = {}
  /\ TICKS > 2
  /\ \A s \in Scene : s.procs \subseteq Proc /\ s.harts \subseteq Hart /\ Boot \in s.harts

Tickslock == 0
Lock == Proc \cup {Tickslock}
Thread == Proc \cup Hart   \* a hart stands for its scheduler

VARIABLES scene,                \* the scene that is played, chosen at the start
          locked, cpu,          \* struct spinlock
          noff, intena,         \* struct cpu
          sie, stvec, tp,       \* a hart's registers: interrupts are enabled,
                                \* where they go, and the hart's number
          hartid,               \* p->trapframe->kernel_hartid
          pending,              \* its timer has an interrupt pending
          run,                  \* the thread it runs
          todo,                 \* the instructions of each thread
          state,                \* p->state
          ticks, ticks0,        \* ticks, and ticks0 in sys_sleep
          panic

lock == <<locked, cpu>>
hart == <<noff, intena, sie>>
regs == <<stvec, tp, hartid>>
vars == <<lock, hart, regs, pending, run, todo, state, ticks, ticks0, panic>>

-----------------------------------------------------------------------------
(* The code, as lists of instructions.                                     *)

Acquire(l) == <<<<"push_off", l>>, <<"swap", l>>, <<"own", l>>>>
Release(l) == <<<<"disown", l>>, <<"open", l>>>>
killed(p) == Acquire(p) \o Release(p)

\* for(p = proc; ...), with the code of each p
ForEach(code) ==
  LET order == SetToSeq(DOMAIN code) IN FlattenSeq([i \in DOMAIN order |-> code[order[i]]])

yield(p) == Acquire(p) \o <<<<"runnable", p>>, <<"sched", p>>>> \o Release(p)

\* Mutant: tickslock is given up before p->lock is taken.
sleep_early(p) ==
  Release(Tickslock) \o Acquire(p) \o <<<<"asleep", p>>, <<"sched", p>>>>
  \o Release(p) \o Acquire(Tickslock)

sleep(p) ==
  Acquire(p) \o Release(Tickslock) \o <<<<"asleep", p>>, <<"sched", p>>>>
  \o Release(p) \o Acquire(Tickslock)

\* wakeup(&ticks), by thread t
wakeup(t) ==
  ForEach([q \in scene.procs \ {t} |-> Acquire(q) \o <<<<"wake", q>>>> \o Release(q)])

clockintr(t) ==
  Acquire(Tickslock) \o <<<<"tick", t>>>> \o wakeup(t) \o Release(Tickslock)

usertrapret == <<<<"intr_off", 0>>, <<"usertrapret", 0>>, <<"userret", 0>>, <<"user", 0>>>>

\* Scheduling is one round over the processes.
scheduler ==
  <<<<"intr_on", 0>>>> \o
  ForEach([p \in scene.procs |-> Acquire(p) \o <<<<"dispatch", p>>>> \o Release(p)])
  \o <<<<"again", 0>>>>

sys_sleep(p) == Acquire(Tickslock) \o <<<<"ticks0", p>>, <<"while", p>>>>
sys_uptime == Acquire(Tickslock) \o Release(Tickslock)

syscall(p, c) == IF c = "sleep" THEN sys_sleep(p) ELSE sys_uptime

\* usertrap: a system call c, and the timer
usertrap_call(p, c) ==
  <<<<"usertrap", 0>>>> \o killed(p) \o <<<<"intr_on", 0>>>> \o syscall(p, c)
  \o <<<<"work", 0>>>> \o killed(p) \o usertrapret

usertrap_timer(p) ==
  <<<<"usertrap", 0>>, <<"devintr", p>>>> \o killed(p) \o yield(p) \o usertrapret

\* kerneltrap for the timer, on hart h in thread t; enabled interrupts are what
\* sstatus says of the code that was interrupted.
kerneltrap(t, h) ==
  <<<<"devintr", t>>>> \o (IF t \in Proc THEN yield(t) ELSE <<>>) \o <<<<"sret", h>>>>

-----------------------------------------------------------------------------

\* Processes start in forkret, with the p->lock that scheduler took.
Init ==
  /\ scene \in Scene
  /\ locked = [l \in Lock |-> FALSE] /\ cpu = [l \in Lock |-> 0]
  /\ noff = [h \in Hart |-> 0] /\ intena = [h \in Hart |-> FALSE]
  /\ sie = [h \in Hart |-> FALSE] /\ stvec = [h \in Hart |-> "kernel"]
  /\ tp = [h \in Hart |-> h] /\ hartid = [p \in Proc |-> 0]
  /\ pending = [h \in Hart |-> FALSE]
  /\ run = [h \in Hart |-> h]
  /\ todo = [t \in Thread |-> IF t \in Hart THEN scheduler ELSE Release(t) \o usertrapret]
  /\ state = [p \in Proc |-> "runnable"]
  /\ ticks = 0 /\ ticks0 = [p \in Proc |-> 0]
  /\ panic = ""

Op(h) == Head(todo[run[h]])[1]
Arg(h) == Head(todo[run[h]])[2]
Then(h, code) == todo' = [todo EXCEPT ![run[h]] = code \o Tail(@)]
Step(h) == Then(h, <<>>)

mycpu(h) == tp[h]

holding(l, h) == locked[l] /\ cpu[l] = mycpu(h)

\* The panics of a step: the first message whose condition holds.
Check(bad, message) == panic' = IF bad /\ panic = "" THEN message ELSE panic

\* c->intena after push_off
Saved(h) == IF noff[mycpu(h)] = 0 THEN sie[h] ELSE intena[mycpu(h)]

push_off(h) ==
  /\ Op(h) = "push_off"
  /\ sie' = [sie EXCEPT ![h] = FALSE]
  /\ intena' = [intena EXCEPT ![mycpu(h)] = Saved(h)]
  /\ noff' = [noff EXCEPT ![mycpu(h)] = @ + 1]
  /\ Check(holding(Arg(h), h), "acquire")
  /\ Step(h)
  /\ UNCHANGED <<lock, regs, pending, run, state, ticks, ticks0>>

swap(h) ==
  /\ Op(h) = "swap" /\ ~locked[Arg(h)]
  /\ locked' = [locked EXCEPT ![Arg(h)] = TRUE]
  /\ Step(h)
  /\ UNCHANGED <<cpu, hart, regs, pending, run, state, ticks, ticks0, panic>>

own(h) ==
  /\ Op(h) = "own"
  /\ cpu' = [cpu EXCEPT ![Arg(h)] = mycpu(h)]
  /\ Step(h)
  /\ UNCHANGED <<locked, hart, regs, pending, run, state, ticks, ticks0, panic>>

\* Mutant: lk->cpu keeps the last holder.
Disowned_not(l) == cpu[l]

\* lk->cpu after release
Disowned(l) == 0

disown(h) ==
  /\ Op(h) = "disown"
  /\ Check(~holding(Arg(h), h), "release")
  /\ cpu' = [cpu EXCEPT ![Arg(h)] = Disowned(Arg(h))]
  /\ Step(h)
  /\ UNCHANGED <<locked, hart, regs, pending, run, state, ticks, ticks0>>

\* Mutant: every pop_off enables interrupts again.
Reenabled_each(h) == intena[mycpu(h)]

Reenabled(h) == noff[mycpu(h)] = 1 /\ intena[mycpu(h)]

\* The lock is open to others, and pop_off.
open(h) ==
  /\ Op(h) = "open"
  /\ locked' = [locked EXCEPT ![Arg(h)] = FALSE]
  /\ Check(sie[h] \/ noff[mycpu(h)] < 1, "pop_off")
  /\ noff' = [noff EXCEPT ![mycpu(h)] = @ - 1]
  /\ sie' = [sie EXCEPT ![h] = @ \/ Reenabled(h)]
  /\ Step(h)
  /\ UNCHANGED <<cpu, intena, regs, pending, run, state, ticks, ticks0>>

\* Mutant: kernelvec restores tp with the other registers.
Restored_tp(h) == IF Op(h) = "sret" THEN Arg(h) ELSE tp[h]

\* kernelvec restores every register but tp.
Restored(h) == tp[h]

\* intr_on and intr_off; sret to the kernel, with the interrupts it had enabled
intr(h) ==
  /\ Op(h) \in {"intr_on", "intr_off", "sret"}
  /\ sie' = [sie EXCEPT ![h] = Op(h) # "intr_off"]
  /\ tp' = [tp EXCEPT ![h] = Restored(h)]
  /\ Step(h)
  /\ UNCHANGED <<lock, noff, intena, stvec, hartid, pending, run, state, ticks, ticks0, panic>>

\* uservec and the begin of usertrap: tp is loaded from the trapframe, and traps
\* go to kernelvec.
usertrap(h) ==
  /\ Op(h) = "usertrap"
  /\ tp' = [tp EXCEPT ![h] = hartid[run[h]]]
  /\ stvec' = [stvec EXCEPT ![h] = "kernel"]
  /\ Step(h)
  /\ UNCHANGED <<lock, hart, hartid, pending, run, state, ticks, ticks0, panic>>

\* usertrapret, and userret in trampoline.S, which loads the program's tp.
userret(h) ==
  /\ \/ /\ Op(h) = "usertrapret"
        /\ hartid' = [hartid EXCEPT ![run[h]] = tp[h]]
        /\ stvec' = [stvec EXCEPT ![h] = "user"]
        /\ UNCHANGED <<sie, tp>>
     \/ /\ Op(h) = "userret"
        /\ tp' = [tp EXCEPT ![h] = 0]
        /\ sie' = [sie EXCEPT ![h] = TRUE]
        /\ UNCHANGED <<hartid, stvec>>
  /\ Step(h)
  /\ UNCHANGED <<lock, noff, intena, pending, run, state, ticks, ticks0, panic>>

\* Code of a system call that needs no lock.
work(h) ==
  /\ Op(h) = "work" /\ Step(h)
  /\ UNCHANGED <<lock, hart, regs, pending, run, state, ticks, ticks0, panic>>

-----------------------------------------------------------------------------
(* Processes.                                                              *)

setstate(h) ==
  /\ \/ Op(h) = "runnable" /\ state' = [state EXCEPT ![Arg(h)] = "runnable"]
     \/ Op(h) = "asleep" /\ state' = [state EXCEPT ![Arg(h)] = "sleeping"]
     \/ Op(h) = "wake"
        /\ state' = [state EXCEPT ![Arg(h)] = IF @ = "sleeping" THEN "runnable" ELSE @]
  /\ Step(h)
  /\ UNCHANGED <<lock, hart, regs, pending, run, ticks, ticks0, panic>>

\* Mutant: the process takes over intena of the hart that runs it next.
Kept_not(h) == <<>>

\* sched keeps intena on the stack while the process is away.
Kept(h) == <<<<"resume", intena[mycpu(h)]>>>>

\* sched: switch to the hart's scheduler.
sched(h) ==
  /\ Op(h) = "sched"
  /\ Check(~holding(run[h], h) \/ noff[mycpu(h)] # 1 \/ state[run[h]] = "running" \/ sie[h], "sched")
  /\ run' = [run EXCEPT ![h] = h]
  /\ Then(h, Kept(h))
  /\ UNCHANGED <<lock, hart, regs, pending, state, ticks, ticks0>>

resume(h) ==
  /\ Op(h) = "resume"
  /\ intena' = [intena EXCEPT ![mycpu(h)] = Arg(h)]
  /\ Step(h)
  /\ UNCHANGED <<lock, noff, sie, regs, pending, run, state, ticks, ticks0, panic>>

CanRun(p) == state[p] = "runnable"

\* scheduler: run the process if it can run.
dispatch(h) ==
  /\ Op(h) = "dispatch"
  /\ IF CanRun(Arg(h))
     THEN /\ state' = [state EXCEPT ![Arg(h)] = "running"]
          /\ run' = [run EXCEPT ![h] = Arg(h)]
     ELSE UNCHANGED <<state, run>>
  /\ Step(h)
  /\ UNCHANGED <<lock, hart, regs, pending, ticks, ticks0, panic>>

again(h) ==
  /\ Op(h) = "again" /\ Then(h, scheduler)
  /\ UNCHANGED <<lock, hart, regs, pending, run, state, ticks, ticks0, panic>>

-----------------------------------------------------------------------------
(* The clock.                                                              *)

\* devintr for the timer: the hart whose cpuid() is 0 counts.
devintr(h) ==
  /\ Op(h) = "devintr"
  /\ Then(h, (IF mycpu(h) = Boot THEN clockintr(run[h]) ELSE <<>>) \o <<<<"ack", 0>>>>)
  /\ UNCHANGED <<lock, hart, regs, pending, run, state, ticks, ticks0, panic>>

tick(h) ==
  /\ Op(h) = "tick"
  /\ ticks' = (ticks + 1) % TICKS
  /\ Step(h)
  /\ UNCHANGED <<lock, hart, regs, pending, run, state, ticks0, panic>>

ack(h) ==
  /\ Op(h) = "ack"
  /\ pending' = [pending EXCEPT ![h] = FALSE]
  /\ Step(h)
  /\ UNCHANGED <<lock, hart, regs, run, state, ticks, ticks0, panic>>

\* sys_sleep(1): the loop, which tests killed and sleeps.
while(h) ==
  /\ \/ /\ Op(h) = "ticks0"
        /\ ticks0' = [ticks0 EXCEPT ![run[h]] = ticks] /\ Step(h)
     \/ /\ Op(h) = "while"
        /\ LET p == run[h] IN
           IF (ticks - ticks0[p]) % TICKS < 1
           THEN Then(h, killed(p) \o sleep(p) \o <<<<"while", p>>>>)
           ELSE Then(h, Release(Tickslock))
        /\ UNCHANGED ticks0
  /\ UNCHANGED <<lock, hart, regs, pending, run, state, ticks, panic>>

\* timervec: the timer of a hart asks for an interrupt.
Timer(h) ==
  /\ ~pending[h] /\ pending' = [pending EXCEPT ![h] = TRUE]
  /\ UNCHANGED <<lock, hart, regs, run, todo, state, ticks, ticks0, panic>>

\* The hart takes the interrupt: in user space, or in the kernel.
Interrupt(h) ==
  /\ pending[h] /\ sie[h]
  /\ sie' = [sie EXCEPT ![h] = FALSE]
  /\ todo' = [todo EXCEPT ![run[h]] =
       IF stvec[h] = "user" THEN usertrap_timer(run[h])
                            ELSE kerneltrap(run[h], h) \o @]
  /\ Check((stvec[h] = "user") # (Op(h) = "user"), "trap")
  /\ UNCHANGED <<lock, noff, intena, regs, pending, run, state, ticks, ticks0>>

\* A program in user space makes a system call.
Ecall(h) ==
  /\ Op(h) = "user"
  /\ \E c \in scene.calls : todo' = [todo EXCEPT ![run[h]] = usertrap_call(run[h], c)]
  /\ sie' = [sie EXCEPT ![h] = FALSE]
  /\ UNCHANGED <<lock, noff, intena, regs, pending, run, state, ticks, ticks0, panic>>

-----------------------------------------------------------------------------

Execute(h) ==
  \/ push_off(h) \/ swap(h) \/ own(h) \/ disown(h) \/ open(h)
  \/ intr(h) \/ usertrap(h) \/ userret(h) \/ work(h)
  \/ setstate(h) \/ sched(h) \/ resume(h) \/ dispatch(h) \/ again(h)
  \/ devintr(h) \/ tick(h) \/ ack(h) \/ while(h)

Next ==
  /\ \E h \in scene.harts : Execute(h) \/ Timer(h) \/ Interrupt(h) \/ Ecall(h)
  /\ UNCHANGED scene

Spec == Init /\ [][Next]_<<scene, vars>>

-----------------------------------------------------------------------------

\* None of the panics of acquire, release, pop_off and sched is reached, and
\* a trap goes to usertrap exactly if it comes from user space.
NoPanic == panic = ""

\* A hart with a lock has its interrupts disabled, and as many push_offs as
\* locks and attempts to get one: an interrupt handler never meets a lock of
\* the code it interrupted (spinlock.c:24).
LocksMaskInterrupts ==
  \A h \in Hart :
    LET held == {l \in Lock : locked[l] /\ cpu[l] = h}
        between == IF Op(h) \in {"swap", "own", "open"} THEN 1 ELSE 0
    IN  noff[h] = Cardinality(held) + between /\ (noff[h] > 0 => ~sie[h])

\* Outside of its critical sections a system call runs with interrupts enabled,
\* whichever hart it is on by then, and so does a program (trap.c:65, :120).
InterruptsOn == \A h \in Hart : Op(h) \in {"work", "user"} => sie[h]

\* In the kernel tp is the number of the hart that runs the code, also after a
\* process has moved: mycpu() is right (kernelvec.S:56, trap.c:112).
OwnCpu == \A h \in Hart : Op(h) \notin {"user", "usertrap"} => tp[h] = h

\* A process does not sleep through a tick: as soon as ticks has changed since
\* its sys_sleep looked, somebody is on the way to wake it up (sysproc.c:60,
\* proc.c:1000, trap.c:172).
SleepersWoken ==
  \A p \in Proc : state[p] = "sleeping" /\ ticks # ticks0[p] =>
    \E t \in Thread : <<"wake", p>> \in Range(todo[t])
=============================================================================
