------------------------------- MODULE Console -------------------------------
(***************************************************************************)
(* The console (kernel/console.c) and its serial line (kernel/uart.c):     *)
(* processes read lines that are typed and edited, and write; the device   *)
(* interrupts when a character has come in and when it has sent all it     *)
(* had.                                                                    *)
(*                                                                         *)
(* consoleread holds cons.lock from one sleep to the next, which is one    *)
(* step.  consoleintr keeps the lock while it echoes, and uartputc keeps   *)
(* uart_tx_lock through uartstart: those take one step for each look at    *)
(* the device and for each write to it, as echo and uartstart do not       *)
(* exclude each other.                                                     *)
(***************************************************************************)
EXTENDS Integers, Sequences, FiniteSets

CONSTANTS Reader, Writer,    \* processes
          Scene,             \* what may happen: records of the keys typed, the
                             \* messages written and the lengths of reads
          INPUT_BUF_SIZE,    \* 128
          UART_TX_BUF_SIZE,  \* 32
          FIFO,              \* characters the device holds: 16
          WRAP,              \* cons.r, w and e are uints: 2^32
          TX_WRAP            \* uart_tx_r and uart_tx_w: 2^64

ASSUME ConsoleAssumption ==
  /\ Reader \cap Writer = {} /\ {"intr", "none"} \cap (Reader \cup Writer) = {}
  /\ \A s \in Scene : s.wants \subseteq Nat \ {0} /\ s.messages \subseteq Seq(STRING) \ {<<>>}
  /\ INPUT_BUF_SIZE \in Nat \ {0} /\ UART_TX_BUF_SIZE \in Nat \ {0}
  /\ WRAP \in Nat /\ WRAP % INPUT_BUF_SIZE = 0 /\ WRAP > INPUT_BUF_SIZE
  /\ TX_WRAP \in Nat /\ TX_WRAP % UART_TX_BUF_SIZE = 0 /\ TX_WRAP > UART_TX_BUF_SIZE
  /\ FIFO \in Nat /\ FIFO >= 2

VARIABLES scene,               \* the scene that is played, chosen at the start
          buf, r, w, e,        \* cons
          tx, tx_r, tx_w,      \* uart_tx_buf, uart_tx_r, uart_tx_w
          txlock,              \* who holds uart_tx_lock, or "none"
          at,                  \* where each process and the handler are
          n, target,           \* of each read
          todo,                \* what is left of each write
          key, echo,           \* the character in consoleintr, and how many
                               \* characters it still has to echo
          rhr,                 \* the device: a character come in, or "none"
          fifo,                \* how many characters it has to send
          irq,                 \* it has an interrupt pending
          overrun,             \* a character was written to a full device
          given, sent          \* what this step delivers to a reader, and moves
                               \* from uart_tx_buf to the device

cons == <<buf, r, w, e>>
ring == <<tx, tx_r, tx_w>>
device == <<rhr, fifo, irq, overrun>>
reads == <<n, target>>
intr == <<key, echo>>
vars == <<cons, ring, txlock, at, reads, todo, intr, device, given, sent>>

Thread == Writer \cup {"intr"}
Proc == Reader \cup Writer
Enders == {"nl", "D"}
Key == UNION {s.keys : s \in Scene}
Message == UNION {s.messages : s \in Scene}
Stored == (Key \ {"cr", "nul", "P", "F", "U", "H"}) \cup {"nl"}
InSlot == 0 .. INPUT_BUF_SIZE - 1
OutSlot == 0 .. UART_TX_BUF_SIZE - 1

\* consoleinit, uartinit
Init ==
  /\ scene \in Scene
  /\ buf = [i \in InSlot |-> "nul"] /\ r = 0 /\ w = 0 /\ e = 0
  /\ tx = [i \in OutSlot |-> "nul"] /\ tx_r = 0 /\ tx_w = 0
  /\ txlock = "none"
  /\ at = [t \in Proc \cup {"intr"} |-> "user"]
  /\ n = [p \in Reader |-> 0] /\ target = n
  /\ todo = [p \in Writer |-> <<>>]
  /\ key = "nul" /\ echo = 0
  /\ rhr = "none" /\ fifo = 0 /\ irq = FALSE /\ overrun = FALSE
  /\ given = <<>> /\ sent = <<>>

TxLen == (tx_w - tx_r) % TX_WRAP
Diff(a, b) == (a - b) % WRAP
Inc(a) == (a + 1) % WRAP
Goto(t, l) == at' = [at EXCEPT ![t] = l]

\* The characters numbered a up to b.
Between(a, b) == [i \in 1 .. Diff(b, a) |-> buf[((a + i - 1) % WRAP) % INPUT_BUF_SIZE]]

\* Nothing is delivered or moved by this step.
Quiet == given' = <<>> /\ sent' = <<>>

-----------------------------------------------------------------------------
(* consoleread.  The handler has cons.lock while it is in consoleintr.     *)

ConsLocked == at["intr"] \in {"echo", "thr_sync"}

sys_read(p) ==
  /\ at[p] = "user"
  /\ \E k \in scene.wants : n' = [n EXCEPT ![p] = k] /\ target' = [target EXCEPT ![p] = k]
  /\ Goto(p, "read") /\ Quiet
  /\ UNCHANGED <<cons, ring, txlock, todo, intr, device>>

Ready == Between(r, w)

\* The loop copies k characters before it meets one that ends it, runs out of
\* input or has all it wants.
Copied(p, k) ==
  /\ k <= n[p]
  /\ \A i \in 1 .. k : Ready[i] \notin Enders
  /\ k < n[p] /\ k < Len(Ready) => Ready[k + 1] \in Enders

\* The read takes `taken' characters and delivers `got' of them.
Take(p, taken, got, l) ==
  /\ r' = (r + taken) % WRAP
  /\ given' = SubSeq(Ready, 1, got) /\ sent' = <<>>
  /\ n' = [n EXCEPT ![p] = IF l = "user" THEN 0 ELSE @ - got]
  /\ target' = [target EXCEPT ![p] = IF l = "user" THEN 0 ELSE @]
  /\ Goto(p, l)
  /\ UNCHANGED <<buf, w, e, ring, txlock, todo, intr, device>>

\* Mutant: a ^D behind other characters is dropped.
SaveEof_not(p, k) == FALSE

\* The ^D that ends a read is left for the next one.
SaveEof(p, k) == n[p] - k < target[p]

\* From taking cons.lock until it is given up: the read has all it wants, the
\* line ends, the file ends, the process sleeps or finds that it is killed, or
\* character bad + 1 cannot be copied out.
consoleread(p) ==
  /\ at[p] = "read" /\ ~ConsLocked
  /\ \E k \in 0 .. Len(Ready) :
     /\ Copied(p, k)
     /\ \/ n[p] = k /\ Take(p, k, k, "user")
        \/ n[p] > k /\ k < Len(Ready) /\ Ready[k + 1] = "nl" /\ Take(p, k + 1, k + 1, "user")
        \/ /\ n[p] > k /\ k < Len(Ready) /\ Ready[k + 1] = "D"
           /\ Take(p, IF SaveEof(p, k) THEN k ELSE k + 1, k, "user")
        \/ n[p] > k /\ k = Len(Ready) /\ \E l \in {"rsleep", "user"} : Take(p, k, k, l)
        \/ \E bad \in 0 .. k : n[p] > bad /\ bad < Len(Ready) /\ Ready[bad + 1] # "D"
                               /\ Take(p, bad + 1, bad, "user")

\* kill: a sleeping reader goes round its loop.
kill(p) ==
  /\ at[p] = "rsleep" /\ Goto(p, "read") /\ Quiet
  /\ UNCHANGED <<cons, ring, txlock, reads, todo, intr, device>>

-----------------------------------------------------------------------------
(* uartputc and uartstart.                                                 *)

sys_write(p) ==
  /\ at[p] = "user"
  /\ \E m \in scene.messages : todo' = [todo EXCEPT ![p] = m]
  /\ Goto(p, "put") /\ Quiet
  /\ UNCHANGED <<cons, ring, txlock, reads, intr, device>>

\* consolewrite: the next character cannot be copied in.
consolewrite_bad(p) ==
  /\ at[p] = "put"
  /\ todo' = [todo EXCEPT ![p] = <<>>]
  /\ Goto(p, "user") /\ Quiet
  /\ UNCHANGED <<cons, ring, txlock, reads, intr, device>>

\* Mutant: full is found one character late.
TxFull_late == TxLen = UART_TX_BUF_SIZE + 1

TxFull == TxLen = UART_TX_BUF_SIZE

uartputc_full(p) ==
  /\ at[p] = "put" /\ txlock = "none" /\ TxFull
  /\ Goto(p, "wsleep") /\ Quiet
  /\ UNCHANGED <<cons, ring, txlock, reads, todo, intr, device>>

uartputc(p) ==
  /\ at[p] = "put" /\ txlock = "none" /\ ~TxFull
  /\ tx' = [tx EXCEPT ![tx_w % UART_TX_BUF_SIZE] = Head(todo[p])]
  /\ tx_w' = (tx_w + 1) % TX_WRAP
  /\ todo' = [todo EXCEPT ![p] = Tail(@)]
  /\ txlock' = p /\ Goto(p, "start") /\ Quiet
  /\ UNCHANGED <<cons, tx_r, reads, intr, device>>

\* Mutant: the device is taken to be ready at all times.
Idle_always == TRUE

\* ReadReg(LSR) & LSR_TX_IDLE
Idle == fifo = 0

\* A character is written to the transmit holding register.
THR ==
  /\ fifo' = IF fifo = FIFO THEN fifo ELSE fifo + 1
  /\ overrun' = (overrun \/ fifo = FIFO)

\* uartstart returns: the ring is empty or the device is not idle.
uartstart_return(t) ==
  /\ at[t] = "start"
  /\ tx_w = tx_r \/ ~Idle
  /\ txlock' = "none"
  /\ Goto(t, IF t = "intr" \/ todo[t] = <<>> THEN "user" ELSE "put")
  /\ Quiet
  /\ UNCHANGED <<cons, ring, reads, todo, intr, device>>

uartstart(t) ==
  /\ at[t] = "start" /\ tx_w # tx_r /\ Idle
  /\ Goto(t, "thr") /\ Quiet
  /\ UNCHANGED <<cons, ring, txlock, reads, todo, intr, device>>

\* at after wakeup(&uart_tx_r) by t, which goes round its loop.
Restarted(t) ==
  [q \in DOMAIN at |-> IF q = t THEN "start" ELSE IF at[q] = "wsleep" THEN "put" ELSE at[q]]

uartstart_send(t) ==
  /\ at[t] = "thr"
  /\ sent' = <<tx[tx_r % UART_TX_BUF_SIZE]>> /\ given' = <<>>
  /\ tx_r' = (tx_r + 1) % TX_WRAP
  /\ at' = Restarted(t)
  /\ THR
  /\ UNCHANGED <<cons, tx, tx_w, txlock, reads, todo, intr, rhr, irq>>

-----------------------------------------------------------------------------
(* The interrupt: one hart at a time has claimed it from the PLIC.         *)

uartintr ==
  /\ irq /\ at["intr"] = "user"
  /\ irq' = FALSE
  /\ Goto("intr", "get") /\ Quiet
  /\ UNCHANGED <<cons, ring, txlock, reads, todo, intr, rhr, fifo, overrun>>

Editing == Diff(e, w)
Full == Diff(e, r) >= INPUT_BUF_SIZE

\* Characters consoleintr(c) echoes; those of the two debugging keys, which it
\* prints the same way, count as one.
Echo(c) ==
  CASE c \in {"P", "F"} -> 1
    [] c = "U" -> 3 * Editing
    [] c = "H" -> IF Editing > 0 THEN 3 ELSE 0
    [] OTHER -> IF c = "nul" \/ Full THEN 0 ELSE 1

\* uartgetc, and consoleintr as far as taking cons.lock.
uartgetc ==
  /\ at["intr"] = "get" /\ rhr # "none"
  /\ key' = rhr /\ rhr' = "none" /\ echo' = Echo(rhr)
  /\ Goto("intr", "echo") /\ Quiet
  /\ UNCHANGED <<cons, ring, txlock, reads, todo, fifo, irq, overrun>>

\* uartputc_sync sees that the device is idle, and then writes to it.
uartputc_sync ==
  /\ at["intr"] = "echo" /\ echo > 0 /\ Idle
  /\ Goto("intr", "thr_sync") /\ Quiet
  /\ UNCHANGED <<cons, ring, txlock, reads, todo, intr, device>>

uartputc_sync_thr ==
  /\ at["intr"] = "thr_sync"
  /\ THR
  /\ echo' = echo - 1
  /\ Goto("intr", "echo") /\ Quiet
  /\ UNCHANGED <<cons, ring, txlock, reads, todo, key, rhr, irq>>

\* Mutant: a character that fills the buffer does not end the line.
Ends_nl(c) == c \in Enders

\* After c is stored the line is handed to the readers.
Ends(c) == c \in Enders \/ Diff(e, r) + 1 = INPUT_BUF_SIZE

Wakes(c) == Ends(c)

\* Characters that key c takes off the line.
Erased(c) == IF c = "U" THEN Editing ELSE IF Editing > 0 THEN 1 ELSE 0

\* The effect of consoleintr, which shows when it gives cons.lock up.
consoleintr ==
  /\ at["intr"] = "echo" /\ echo = 0
  /\ \/ /\ key \in {"P", "F"}
        /\ Goto("intr", "get") /\ UNCHANGED cons
     \/ /\ key \in {"U", "H"}
        /\ e' = (e - Erased(key)) % WRAP
        /\ Goto("intr", "get") /\ UNCHANGED <<buf, r, w>>
     \/ /\ key \notin {"P", "F", "U", "H"} /\ (key = "nul" \/ Full)
        /\ Goto("intr", "get") /\ UNCHANGED cons
     \/ /\ key \notin {"P", "F", "U", "H", "nul"} /\ ~Full
        /\ LET c == IF key = "cr" THEN "nl" ELSE key IN
           /\ buf' = [buf EXCEPT ![e % INPUT_BUF_SIZE] = c]
           /\ e' = Inc(e)
           /\ w' = IF Ends(c) THEN e' ELSE w
           /\ at' = [q \in DOMAIN at |-> IF q = "intr" THEN "get"
                      ELSE IF at[q] = "rsleep" /\ Wakes(c) THEN "read" ELSE at[q]]
        /\ UNCHANGED r
  /\ key' = "nul" /\ Quiet
  /\ UNCHANGED <<ring, txlock, reads, todo, echo, device>>

\* uartintr: no more input; send buffered characters.
uartintr_send ==
  /\ at["intr"] = "get" /\ rhr = "none" /\ txlock = "none"
  /\ txlock' = "intr"
  /\ Goto("intr", "start") /\ Quiet
  /\ UNCHANGED <<cons, ring, reads, todo, intr, device>>

-----------------------------------------------------------------------------
(* The device.                                                             *)

Receive ==
  /\ rhr = "none"
  /\ \E c \in scene.keys : rhr' = c
  /\ irq' = TRUE /\ Quiet
  /\ UNCHANGED <<cons, ring, txlock, at, reads, todo, intr, fifo, overrun>>

\* Mutant: the device is set up without transmit interrupts.
TxInterrupt_off == FALSE

\* uartinit enables the interrupt for an empty transmit register.
TxInterrupt == fifo = 1

\* The device sends a character, and interrupts when it has sent the last.
Transmit ==
  /\ fifo > 0
  /\ fifo' = fifo - 1
  /\ irq' = (irq \/ TxInterrupt) /\ Quiet
  /\ UNCHANGED <<cons, ring, txlock, at, reads, todo, intr, rhr, overrun>>

-----------------------------------------------------------------------------

ReaderStep(p) == sys_read(p) \/ consoleread(p) \/ kill(p)
Start(t) == uartstart_return(t) \/ uartstart(t) \/ uartstart_send(t)
Put(p) == uartputc_full(p) \/ uartputc(p)
Handler ==
  uartintr \/ uartgetc \/ uartputc_sync \/ uartputc_sync_thr \/ consoleintr
  \/ uartintr_send \/ Start("intr")

Next ==
  /\ \/ \E p \in Reader : ReaderStep(p)
     \/ \E p \in Writer : sys_write(p) \/ consolewrite_bad(p) \/ Put(p) \/ Start(p)
     \/ Handler
     \/ Receive \/ Transmit
  /\ UNCHANGED scene

\* The device goes on sending, a pending interrupt is taken, and code that
\* holds a lock or has been woken up runs on.
Fairness ==
  /\ WF_vars(Transmit) /\ WF_vars(Handler)
  /\ \A p \in Writer : WF_vars(Put(p)) /\ WF_vars(Start(p))

Spec == Init /\ [][Next]_<<scene, vars>> /\ Fairness

-----------------------------------------------------------------------------

L == INSTANCE Lines WITH Char <- Stored, Newline <- "nl", Eof <- "D", Capacity <- INPUT_BUF_SIZE,
       ready <- Ready, line <- Between(w, e)

\* cons.buf implements the line discipline of module Lines, whatever is typed
\* and read, with failing copies and with indices that wrap.
LineDiscipline == L!LSpec

TxQueue == [i \in 1 .. TxLen |-> tx[((tx_r + i - 1) % TX_WRAP) % UART_TX_BUF_SIZE]]

S == INSTANCE Stream WITH Lost <- {0}, capacity <- UART_TX_BUF_SIZE, closed <- FALSE,
       queue <- TxQueue, got <- sent

\* uart_tx_buf implements the queue of module Stream, one that is never closed
\* and loses nothing: what writes put into it goes to the device once and in
\* order, whoever of the writers and the handler sends it (uart.c:95, :145).
OutputInOrder == S!SSpec

\* A reader does not sleep while there is a line for it (console.c:91, :177), nor
\* a writer while there is room (uart.c:95, :153).  A full input buffer has been
\* handed to the readers: if not, nothing more could be typed and none would
\* wake up (console.c:173).
NoLostWakeup ==
  /\ \A p \in Reader : at[p] = "rsleep" => r = w
  /\ \A p \in Writer : at[p] = "wsleep" => TxFull
  /\ Diff(e, r) = INPUT_BUF_SIZE => w = e

\* Echo and uartstart do not exclude each other, and both may find the device
\* idle at once; its queue still has room for what they write (uart.c:122, :142).
NoOverrun == ~overrun

\* A writer that waits for room in uart_tx_buf is woken up (uart.c:98) once
\* nothing more is typed.  (As long as keys are typed without a pause the echo
\* may take every turn at the device.)
WriterWoken ==
  <>[](rhr = "none") => \A p \in Writer : at[p] = "wsleep" ~> at[p] # "wsleep"
=============================================================================
