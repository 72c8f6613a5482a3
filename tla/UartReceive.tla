----------------------------- MODULE UartReceive -----------------------------
(***************************************************************************)
(* Reception in drivers/src/uart.c, on one peripheral: the interrupt       *)
(* handler puts bytes into a ring, uart_receive_byte takes them out, and   *)
(* the polling calls mask the interrupt and read the data register.        *)
(*                                                                         *)
(* The handler has the priority of SysTick: it preempts tasks and the scan *)
(* of PendSV between any two steps, and it pends a context switch without  *)
(* a tick.  Nothing in the driver disables interrupts, so every access to  *)
(* a register or to an index of the ring is a step of its own.             *)
(***************************************************************************)
EXTENDS Task, Sequences

CONSTANTS
  Bytes,            \* what may arrive
  Terminators,      \* '\r' and '\n' among them
  RINGBUFFER_SIZE,  \* 128 in the source
  TIMEOUT,          \* ticks a poll waits, 1000 in the source
  MaxChars,         \* bound on the room a string poll is given
  Reader,           \* the task that calls uart_receive_byte
  Poller            \* the task that calls the polling receives

ASSUME UartReceiveAssumption ==
  /\ NULL \notin Bytes
  /\ Terminators \subseteq Bytes
  /\ RINGBUFFER_SIZE \in Nat \ {0, 1}
  /\ TIMEOUT \in Nat \ {0}
  /\ MaxChars \in Nat \ {0}
  /\ {Reader, Poller} \subseteq 0 .. UserTasks - 1
  /\ Reader # Poller

VARIABLES
  rxneie,     \* bit 5 of CR1: the receive interrupt is enabled
  dr,         \* the byte received and not read (bit 5 of SR), or NULL
  ring,       \* ring_buffer[idx]
  at,         \* for each task, its place in the driver, "app" outside it
  byte,       \* what the reader's last uart_receive_byte stored
  c,          \* data of uart_receive_char_polling, NULL before it is read
  room,       \* max_length - 1 - i of uart_receive_string_polling
  waited      \* system_ticks - initial_ticks, up to TIMEOUT

rxVars   == <<rxneie, dr, ring>>
pollVars == <<c, room, waited>>
uartVars == <<taskVars, rxVars, pollVars, at, byte>>

Slots == 0 .. RINGBUFFER_SIZE - 1

(* After main(): uart_init with UART_IRQ_RXNE, and os_start(). *)
UartInit ==
  /\ TaskInit
  /\ rxneie = TRUE
  /\ dr = NULL
  /\ ring = [buffer |-> [s \in Slots |-> NULL], head |-> 0, tail |-> 0]
  /\ at = [t \in AppTasks |-> "app"]
  /\ byte = NULL
  /\ c = NULL /\ room = 0 /\ waited = 0
-----------------------------------------------------------------------------
(* The peripheral receives a byte; one that finds DR full is lost. *)
Arrive(b) ==
  /\ dr = NULL
  /\ dr' = b
  /\ UNCHANGED <<taskVars, rxneie, ring, pollVars, at, byte>>

(***************************************************************************)
(* USARTx_IRQHandler: the byte goes into the ring, and the handler pends   *)
(* PendSV, or it is dropped because the ring is full.                      *)
(***************************************************************************)
Irq == rxneie /\ dr # NULL

next_slot(i) == (i + 1) % RINGBUFFER_SIZE

HasRoom_always == TRUE

HasRoom == next_slot(ring.head) # ring.tail

handle_irq ==
  /\ Irq
  /\ dr' = NULL
  /\ \/ /\ HasRoom
        /\ ring' = [ring EXCEPT !.buffer[ring.head] = dr, !.head = next_slot(@)]
        /\ pendsv' = TRUE
     \/ ~HasRoom /\ UNCHANGED <<ring, pendsv>>
  /\ UNCHANGED <<tcbVars, os_current_task_ptr, scan_i, chosen_index, pc, arg>>
  /\ UNCHANGED <<rxneie, pollVars, at, byte>>

(* A tick: a poll that waits is a tick older. *)
Tick_uart ==
  /\ SysTick_Handler
  /\ waited' = IF at[Poller] \in {"poll_test", "poll_elapsed"} /\ waited < TIMEOUT
               THEN waited + 1 ELSE waited
  /\ UNCHANGED <<rxVars, c, room, at, byte>>

(* What waits until the handler has run: context switches and tasks. *)
Below(A) == ~Irq /\ A /\ UNCHANGED <<rxVars, pollVars, at, byte>>

(* Task t executes a step of the driver and is at the next one after it. *)
Step(t, here, next) ==
  /\ Calls(t) /\ ~Irq
  /\ at[t] = here
  /\ at' = [at EXCEPT ![t] = next]
  /\ UNCHANGED taskVars
-----------------------------------------------------------------------------
(* uart_receive_byte: the test, the read of the slot, the write of tail. *)
uart_receive_byte ==
  \/ /\ Step(Reader, "app", IF ring.head = ring.tail THEN "app" ELSE "ring_read")
     /\ UNCHANGED <<rxVars, byte>>
  \/ /\ Step(Reader, "ring_read", "ring_advance")
     /\ byte' = ring.buffer[ring.tail]
     /\ UNCHANGED rxVars
  \/ /\ Step(Reader, "ring_advance", "app")
     /\ ring' = [ring EXCEPT !.tail = next_slot(@)]
     /\ UNCHANGED <<rxneie, dr, byte>>
-----------------------------------------------------------------------------
(* A string poll with room for n characters; with n = 1 the steps are those *)
(* of a single uart_receive_char_polling.                                   *)
uart_receive_string_polling(n) ==
  /\ Step(Poller, "app", "poll_mask")
  /\ room' = n
  /\ UNCHANGED <<rxVars, c, waited>>

(* uart_receive_char_polling masks the interrupt and notes the time ... *)
PollMask ==
  /\ Step(Poller, "poll_mask", "poll_test")
  /\ rxneie' = FALSE
  /\ waited' = 0
  /\ UNCHANGED <<dr, ring, c, room>>

(* ... tests RXNE ... *)
PollTest_unmask ==
  /\ Step(Poller, "poll_test", IF dr # NULL THEN "poll_read" ELSE "poll_elapsed")
  /\ rxneie' = (dr # NULL)
  /\ UNCHANGED <<dr, ring, pollVars>>

PollTest ==
  /\ Step(Poller, "poll_test", IF dr # NULL THEN "poll_read" ELSE "poll_elapsed")
  /\ UNCHANGED <<rxVars, pollVars>>

(* ... gives up after TIMEOUT ticks, with the interrupt still masked (the  *)
(* locals of a call that returned are reset) ...                           *)
PollElapsed_never ==
  /\ Step(Poller, "poll_elapsed", "poll_test")
  /\ UNCHANGED <<rxVars, pollVars>>

PollElapsed ==
  /\ \/ /\ waited < TIMEOUT
        /\ Step(Poller, "poll_elapsed", "poll_test")
        /\ UNCHANGED pollVars
     \/ /\ waited >= TIMEOUT
        /\ Step(Poller, "poll_elapsed", "app")
        /\ c' = NULL /\ room' = 0 /\ waited' = 0
  /\ UNCHANGED rxVars

(* ... reads DR ... *)
PollRead ==
  /\ Step(Poller, "poll_read", "poll_unmask")
  /\ c' = dr
  /\ dr' = NULL
  /\ waited' = 0
  /\ UNCHANGED <<rxneie, ring, room>>

(* ... and unmasks.  A terminator or a full buffer ends the string. *)
PollUnmask ==
  /\ \/ /\ c \notin Terminators /\ room > 1
        /\ Step(Poller, "poll_unmask", "poll_mask")
        /\ room' = room - 1
     \/ /\ c \in Terminators \/ room = 1
        /\ Step(Poller, "poll_unmask", "app")
        /\ room' = 0
  /\ rxneie' = TRUE
  /\ c' = NULL
  /\ UNCHANGED <<dr, ring, waited>>

PollStep ==
  /\ PollMask \/ PollTest \/ PollElapsed \/ PollRead \/ PollUnmask
  /\ UNCHANGED byte
-----------------------------------------------------------------------------
UartNext ==
  \/ \E b \in Bytes : Arrive(b)
  \/ handle_irq
  \/ Tick_uart
  \/ Below(SwitchStep)
  \/ \E t \in Tasks : Below(Yield(t))
  \/ \E t \in AppTasks, ticks \in Delays : at[t] = "app" /\ Below(os_delay(t, ticks))
  \/ uart_receive_byte /\ UNCHANGED pollVars
  \/ \E n \in 1 .. MaxChars : uart_receive_string_polling(n) /\ UNCHANGED byte
  \/ PollStep

(***************************************************************************)
(* Fairness.  A byte takes a millisecond and a tick comes once in one: the *)
(* handlers and the context switch get to run between two of them, and so  *)
(* does a task that is dispatched again and again.                         *)
(***************************************************************************)
UartFairness ==
  /\ WF_uartVars(Tick_uart)
  /\ WF_uartVars(handle_irq)
  /\ SF_uartVars(Below(SwitchStep))
  /\ []<>(os_current_task_ptr = Poller) => []<>(Running(Poller) /\ ~Irq)
  /\ SF_uartVars(PollStep)

UartSpec == UartInit /\ [][UartNext]_uartVars /\ UartFairness
-----------------------------------------------------------------------------
UartTypeOK ==
  /\ rxneie \in BOOLEAN
  /\ dr \in Bytes \cup {NULL}
  /\ ring \in [buffer : [Slots -> Bytes \cup {NULL}], head : Slots, tail : Slots]
  /\ at \in [AppTasks -> { "app", "ring_read", "ring_advance", "poll_mask",
               "poll_test", "poll_elapsed", "poll_read", "poll_unmask" }]
  /\ {byte, c} \subseteq Bytes \cup {NULL}
  /\ room \in 0 .. MaxChars
  /\ waited \in 0 .. TIMEOUT

(***************************************************************************)
(* The ring is a queue of RINGBUFFER_SIZE - 1 bytes, with a handler that   *)
(* preempts uart_receive_byte between any two of its accesses: bytes come  *)
(* out in the order of arrival, none twice, none overwritten.              *)
(***************************************************************************)
Stored ==
  [i \in 1 .. (ring.head - ring.tail + RINGBUFFER_SIZE) % RINGBUFFER_SIZE |->
     ring.buffer[(ring.tail + i - 1) % RINGBUFFER_SIZE]]

Fifo == INSTANCE BoundedFifo
          WITH Clients <- {Reader}, Queues <- {"rx"}, Items <- Bytes,
               NoItem <- NULL, Capacity <- [q \in {"rx"} |-> RINGBUFFER_SIZE - 1],
               items <- [q \in {"rx"} |-> IF at[Reader] = "ring_advance"
                                          THEN Tail(Stored) ELSE Stored],
               buffer <- [t \in {Reader} |-> byte]

RingIsFifo == Fifo!Spec

(***************************************************************************)
(* A poll that saw RXNE reads the byte it saw: no interrupt takes it out   *)
(* of DR between the test and the read, whatever else runs in between.     *)
(***************************************************************************)
PollOwnsByte == at[Poller] = "poll_read" => dr # NULL

(* Types, indices of the ring within its buffer, and the poll's own byte.   *)
UartInv == UartTypeOK /\ PollOwnsByte

(***************************************************************************)
(* The CPU does not hang in a poll (docs/blogs/uart.md): it ends, by a     *)
(* terminator, a full buffer or the timeout.                               *)
(***************************************************************************)
PollEnds == at[Poller] = "poll_mask" ~> at[Poller] = "app"
-----------------------------------------------------------------------------
(***************************************************************************)
(* The inductive invariant behind UartInv and RingIsFifo: the interrupt is *)
(* masked from the test of a poll to its read of DR, and between the test  *)
(* and the write of tail the ring the reader found filled stays so.        *)
(***************************************************************************)
PollMasked == at[Poller] \in {"poll_test", "poll_elapsed", "poll_read"} => ~rxneie

ReadsFilled ==
  at[Reader] \in {"ring_read", "ring_advance"} => ring.head # ring.tail

ReceiveInv ==
  /\ UartTypeOK
  /\ PollOwnsByte
  /\ PollMasked
  /\ ReadsFilled
=============================================================================
