------------------------------ MODULE UartProofs ------------------------------
(* Theorems about module UartReceive, for every size of the ring, every     *)
(* timeout and every set of bytes: the ring is a bounded FIFO although the  *)
(* handler preempts its reader anywhere, and a poll reads what it saw.      *)
EXTENDS UartReceive, TLAPS, SequenceTheorems

LEMMA Desk ==
  /\ RINGBUFFER_SIZE \in Nat \ {0}
  /\ RINGBUFFER_SIZE > 1
  /\ Slots = 0 .. RINGBUFFER_SIZE - 1
  /\ {Reader, Poller} \subseteq AppTasks
  /\ Reader # Poller
  /\ NULL \notin Bytes
  BY UartReceiveAssumption DEF Slots, AppTasks

(* Arithmetic modulo n below 2n, which is all the ring needs.               *)
LEMMA WrapOnce ==
  ASSUME NEW n \in Nat \ {0}, NEW x \in 0 .. 2 * n - 1
  PROVE  x % n = IF x < n THEN x ELSE x - n
<1>1. CASE x < n
  BY <1>1
<1>2. CASE x >= n
  <2>1. PICK y \in 0 .. n - 1 : x = y + n
    <3>1. x - n \in 0 .. n - 1 /\ x = (x - n) + n
      BY <1>2
    <3> QED
      BY <3>1
  <2>2. (y + n) % n = y
    BY <2>1
  <2> QED
    BY <1>2, <2>1, <2>2
<1> QED
  BY <1>1, <1>2

(* An index moves to the next slot, and from the last to the first.         *)
LEMMA NextSlot ==
  ASSUME NEW i \in Slots
  PROVE  /\ next_slot(i) \in Slots
         /\ next_slot(i) = IF i = RINGBUFFER_SIZE - 1 THEN 0 ELSE i + 1
<1>1. PICK x \in 0 .. 2 * RINGBUFFER_SIZE - 1 : x = i + 1
  BY Desk
<1>2. x % RINGBUFFER_SIZE
        = IF x < RINGBUFFER_SIZE THEN x ELSE x - RINGBUFFER_SIZE
  BY WrapOnce, Desk
<1> QED
  BY <1>1, <1>2, Desk DEF next_slot
-----------------------------------------------------------------------------
(* What a ring with these indices holds, the oldest byte first.             *)
Amount(h, t) == (h - t + RINGBUFFER_SIZE) % RINGBUFFER_SIZE

SlotAt(t, i) == (t + i - 1) % RINGBUFFER_SIZE

Cell == Bytes \cup {NULL}

Content(b, h, t) == [i \in 1 .. Amount(h, t) |-> b[SlotAt(t, i)]]

LEMMA StoredIsContent == Stored = Content(ring.buffer, ring.head, ring.tail)
  BY DEF Stored, Content, Amount, SlotAt

LEMMA AmountIs ==
  ASSUME NEW h \in Slots, NEW t \in Slots
  PROVE  /\ Amount(h, t) = IF h >= t THEN h - t ELSE h - t + RINGBUFFER_SIZE
         /\ Amount(h, t) \in 0 .. RINGBUFFER_SIZE - 1
         /\ Amount(h, t) = 0 <=> h = t
<1>1. PICK x \in 0 .. 2 * RINGBUFFER_SIZE - 1 : x = h - t + RINGBUFFER_SIZE
  BY Desk
<1>2. x % RINGBUFFER_SIZE
        = IF x < RINGBUFFER_SIZE THEN x ELSE x - RINGBUFFER_SIZE
  BY WrapOnce, Desk
<1> QED
  BY <1>1, <1>2, Desk DEF Amount

(* The slot of the i-th byte.                                               *)
LEMMA SlotOf ==
  ASSUME NEW t \in Slots, NEW i \in 1 .. RINGBUFFER_SIZE
  PROVE  /\ SlotAt(t, i)
              = IF t + i - 1 < RINGBUFFER_SIZE THEN t + i - 1
                ELSE t + i - 1 - RINGBUFFER_SIZE
         /\ SlotAt(t, i) \in Slots
<1>1. PICK x \in 0 .. 2 * RINGBUFFER_SIZE - 1 : x = t + i - 1
  BY Desk
<1>2. x % RINGBUFFER_SIZE
        = IF x < RINGBUFFER_SIZE THEN x ELSE x - RINGBUFFER_SIZE
  BY WrapOnce, Desk
<1> QED
  BY <1>1, <1>2, Desk DEF SlotAt

LEMMA ContentIsSeq ==
  ASSUME NEW b \in [Slots -> Cell], NEW h \in Slots, NEW t \in Slots
  PROVE  /\ Content(b, h, t) \in Seq(Cell)
         /\ Len(Content(b, h, t)) = Amount(h, t)
         /\ \A i \in 1 .. Amount(h, t) :
              Content(b, h, t)[i] = b[SlotAt(t, i)]
<1>1. Amount(h, t) \in 0 .. RINGBUFFER_SIZE - 1
  BY AmountIs
<1>2. \A i \in 1 .. Amount(h, t) : b[SlotAt(t, i)] \in Cell
  <2> SUFFICES ASSUME NEW i \in 1 .. Amount(h, t)
               PROVE  SlotAt(t, i) \in Slots
    OBVIOUS
  <2>1. i \in 1 .. RINGBUFFER_SIZE
    BY <1>1, Desk
  <2> QED
    BY <2>1, SlotOf
<1> QED
  BY <1>1, <1>2, Desk DEF Content

(* The handler's write is an append ...                                     *)
LEMMA PutIsAppend ==
  ASSUME NEW b \in [Slots -> Cell], NEW h \in Slots, NEW t \in Slots,
         NEW d \in Cell, next_slot(h) # t
  PROVE  /\ Content([b EXCEPT ![h] = d], next_slot(h), t)
              = Append(Content(b, h, t), d)
         /\ Amount(h, t) < RINGBUFFER_SIZE - 1
<1> DEFINE n   == Amount(h, t)
           b2  == [b EXCEPT ![h] = d]
           new == Content(b2, next_slot(h), t)
           old == Content(b, h, t)
<1>1. /\ n = IF h >= t THEN h - t ELSE h - t + RINGBUFFER_SIZE
      /\ n \in Nat
  BY AmountIs, Desk
<1>2. /\ next_slot(h) \in Slots
      /\ next_slot(h) = IF h = RINGBUFFER_SIZE - 1 THEN 0 ELSE h + 1
  BY NextSlot
<1>3. Amount(next_slot(h), t)
        = IF next_slot(h) >= t THEN next_slot(h) - t
          ELSE next_slot(h) - t + RINGBUFFER_SIZE
  BY <1>2, AmountIs
<1>4. Amount(next_slot(h), t) = n + 1 /\ n < RINGBUFFER_SIZE - 1
  <2> HIDE DEF n
  <2> QED
    BY <1>1, <1>2, <1>3, Desk
<1>5. /\ old \in Seq(Cell) /\ Len(old) = n
      /\ \A i \in 1 .. n : old[i] = b[SlotAt(t, i)]
  BY ContentIsSeq
<1>6. b2 \in [Slots -> Cell] /\ b2[h] = d /\ \A s \in Slots \ {h} : b2[s] = b[s]
  OBVIOUS
<1>7. /\ new \in Seq(Cell) /\ Len(new) = n + 1
      /\ \A i \in 1 .. n + 1 : new[i] = b2[SlotAt(t, i)]
  <2> HIDE DEF b2, n
  <2>1. /\ new \in Seq(Cell)
        /\ Len(new) = Amount(next_slot(h), t)
        /\ \A i \in 1 .. Amount(next_slot(h), t) : new[i] = b2[SlotAt(t, i)]
    BY <1>2, <1>6, ContentIsSeq
  <2> HIDE DEF new
  <2> QED
    BY <1>4, <2>1
<1>8. \A i \in 1 .. n : SlotAt(t, i) \in Slots \ {h}
  <2> SUFFICES ASSUME NEW i \in 1 .. n
               PROVE  SlotAt(t, i) \in Slots \ {h}
    OBVIOUS
  <2> HIDE DEF n
  <2>1. i \in 1 .. RINGBUFFER_SIZE
    BY <1>1, <1>4, Desk
  <2>2. /\ SlotAt(t, i)
             = IF t + i - 1 < RINGBUFFER_SIZE THEN t + i - 1
               ELSE t + i - 1 - RINGBUFFER_SIZE
        /\ SlotAt(t, i) \in Slots
    BY <2>1, SlotOf
  <2> QED
    BY <2>2, <1>1, <1>4, Desk
<1>9. SlotAt(t, n + 1) = h
  <2> HIDE DEF n
  <2>1. n + 1 \in 1 .. RINGBUFFER_SIZE
    BY <1>1, <1>4, Desk
  <2>2. SlotAt(t, n + 1)
           = IF t + (n + 1) - 1 < RINGBUFFER_SIZE THEN t + (n + 1) - 1
             ELSE t + (n + 1) - 1 - RINGBUFFER_SIZE
    BY <2>1, SlotOf
  <2> QED
    BY <2>2, <1>1, <1>4, Desk
<1>10. /\ Append(old, d) \in Seq(Cell)
       /\ Len(Append(old, d)) = n + 1
       /\ \A i \in 1 .. n : Append(old, d)[i] = old[i]
       /\ Append(old, d)[n + 1] = d
  <2> HIDE DEF old, n
  <2> QED
    BY <1>5, AppendProperties
<1>11. \A i \in 1 .. n + 1 : new[i] = Append(old, d)[i]
  <2> HIDE DEF old, new, n, b2
  <2> SUFFICES ASSUME NEW i \in 1 .. n + 1
               PROVE  new[i] = Append(old, d)[i]
    OBVIOUS
  <2>1. CASE i \in 1 .. n
    BY <2>1, <1>5, <1>6, <1>7, <1>8, <1>10
  <2>2. CASE i = n + 1
    BY <2>2, <1>6, <1>7, <1>9, <1>10
  <2>3. i \in 1 .. n \/ i = n + 1
    BY <1>1
  <2> QED
    BY <2>1, <2>2, <2>3
<1>12. new = Append(old, d)
  <2> HIDE DEF old, new, n, b2
  <2> QED
    BY <1>7, <1>10, <1>11, SeqEqual
<1> QED
  BY <1>4, <1>12

(* ... and the reader's write of tail removes the head.                     *)
LEMMA TakeIsTail ==
  ASSUME NEW b \in [Slots -> Cell], NEW h \in Slots, NEW t \in Slots,
         h # t
  PROVE  /\ Content(b, h, t) # <<>>
         /\ Head(Content(b, h, t)) = b[t]
         /\ Content(b, h, next_slot(t)) = Tail(Content(b, h, t))
<1> DEFINE n   == Amount(h, t)
           new == Content(b, h, next_slot(t))
           old == Content(b, h, t)
<1>1. /\ n = IF h >= t THEN h - t ELSE h - t + RINGBUFFER_SIZE
      /\ n \in 1 .. RINGBUFFER_SIZE - 1
  <2>1. /\ n = IF h >= t THEN h - t ELSE h - t + RINGBUFFER_SIZE
        /\ n \in 0 .. RINGBUFFER_SIZE - 1
        /\ n # 0
    BY AmountIs
  <2> HIDE DEF n
  <2> QED
    BY <2>1, Desk
<1>2. /\ next_slot(t) \in Slots
      /\ next_slot(t) = IF t = RINGBUFFER_SIZE - 1 THEN 0 ELSE t + 1
  BY NextSlot
<1>3. Amount(h, next_slot(t))
        = IF h >= next_slot(t) THEN h - next_slot(t)
          ELSE h - next_slot(t) + RINGBUFFER_SIZE
  BY <1>2, AmountIs
<1>4. Amount(h, next_slot(t)) = n - 1
  <2> HIDE DEF n
  <2> QED
    BY <1>1, <1>2, <1>3, Desk
<1>5. /\ old \in Seq(Cell) /\ Len(old) = n
      /\ \A i \in 1 .. n : old[i] = b[SlotAt(t, i)]
  BY ContentIsSeq
<1>6. /\ new \in Seq(Cell) /\ Len(new) = n - 1
      /\ \A i \in 1 .. n - 1 :
           new[i] = b[SlotAt(next_slot(t), i)]
  <2> HIDE DEF n
  <2>1. /\ new \in Seq(Cell)
        /\ Len(new) = Amount(h, next_slot(t))
        /\ \A i \in 1 .. Amount(h, next_slot(t)) :
             new[i] = b[SlotAt(next_slot(t), i)]
    BY <1>2, ContentIsSeq
  <2> HIDE DEF new
  <2> QED
    BY <1>4, <2>1
<1>7. old # <<>> /\ Head(old) = old[1]
  <2> HIDE DEF old, n
  <2>1. old # <<>>
    BY <1>1, <1>5, EmptySeq
  <2>2. Head(old) = old[1]
    BY <1>5, <2>1
  <2> QED
    BY <2>1, <2>2
<1>8. /\ Tail(old) \in Seq(Cell)
      /\ Len(Tail(old)) = n - 1
      /\ \A i \in 1 .. n - 1 : Tail(old)[i] = old[i + 1]
  <2> HIDE DEF old, n
  <2> QED
    BY <1>5, <1>7, HeadTailProperties
<1>9. SlotAt(t, 1) = t
  <2>1. 1 \in 1 .. RINGBUFFER_SIZE
    BY Desk
  <2>2. SlotAt(t, 1)
          = IF t + 1 - 1 < RINGBUFFER_SIZE THEN t + 1 - 1
            ELSE t + 1 - 1 - RINGBUFFER_SIZE
    BY <2>1, SlotOf
  <2> QED
    BY <2>2, Desk
<1>10. \A i \in 1 .. n - 1 :
         SlotAt(next_slot(t), i)
           = SlotAt(t, i + 1)
  <2> SUFFICES ASSUME NEW i \in 1 .. n - 1
               PROVE  SlotAt(next_slot(t), i)
                        = SlotAt(t, i + 1)
    OBVIOUS
  <2> HIDE DEF n
  <2>1. i \in 1 .. RINGBUFFER_SIZE /\ i + 1 \in 1 .. RINGBUFFER_SIZE
    BY <1>1, Desk
  <2>2. SlotAt(next_slot(t), i)
          = IF next_slot(t) + i - 1 < RINGBUFFER_SIZE THEN next_slot(t) + i - 1
            ELSE next_slot(t) + i - 1 - RINGBUFFER_SIZE
    BY <2>1, <1>2, SlotOf
  <2>3. SlotAt(t, i + 1)
          = IF t + (i + 1) - 1 < RINGBUFFER_SIZE THEN t + (i + 1) - 1
            ELSE t + (i + 1) - 1 - RINGBUFFER_SIZE
    BY <2>1, SlotOf
  <2> QED
    BY <2>1, <2>2, <2>3, <1>1, <1>2, Desk
<1>11. \A i \in 1 .. n - 1 : new[i] = Tail(old)[i]
  <2> HIDE DEF old, new, n
  <2> SUFFICES ASSUME NEW i \in 1 .. n - 1
               PROVE  new[i] = Tail(old)[i]
    OBVIOUS
  <2>1. i + 1 \in 1 .. n
    BY <1>1
  <2> QED
    BY <2>1, <1>5, <1>6, <1>8, <1>10
<1>12. new = Tail(old)
  <2> HIDE DEF old, new, n
  <2> QED
    BY <1>6, <1>8, <1>11, SeqEqual
<1>13. old[1] = b[t]
  <2> HIDE DEF old, n
  <2> QED
    BY <1>1, <1>5, <1>9
<1> QED
  BY <1>7, <1>12, <1>13
-----------------------------------------------------------------------------
LEMMA ReceiveInit == UartInit => ReceiveInv
<1> SUFFICES ASSUME UartInit
             PROVE  ReceiveInv
  OBVIOUS
<1>1. 0 \in Slots
  BY Desk
<1>2. /\ TIMEOUT \in Nat /\ MaxChars \in Nat
      /\ {Reader, Poller} \subseteq AppTasks
  BY Desk, UartReceiveAssumption
<1>3. UartTypeOK
  BY <1>1, <1>2 DEF UartInit, UartTypeOK
<1> QED
  BY <1>2, <1>3
     DEF UartInit, ReceiveInv, PollOwnsByte, PollMasked, ReadsFilled

(* A step that leaves the peripheral, the ring and everyone's place alone.  *)
LEMMA ReceiveStays ==
  ASSUME ReceiveInv, UNCHANGED <<rxVars, pollVars, at, byte>>
  PROVE  ReceiveInv'
  BY DEF ReceiveInv, UartTypeOK, PollOwnsByte, PollMasked, ReadsFilled,
         rxVars, pollVars

LEMMA ArriveInv ==
  ASSUME ReceiveInv, NEW b \in Bytes, Arrive(b)
  PROVE  ReceiveInv'
  BY Desk DEF Arrive, ReceiveInv, UartTypeOK, PollOwnsByte, PollMasked,
              ReadsFilled, pollVars

(* The handler runs only unmasked, so no poll is between its test and its   *)
(* read; and it cannot fill the ring so far that it looks empty.            *)
LEMMA IrqInv ==
  ASSUME ReceiveInv, handle_irq
  PROVE  ReceiveInv'
<1>1. /\ UartTypeOK /\ rxneie /\ dr \in Bytes
      /\ dr' = NULL
      /\ UNCHANGED <<rxneie, at, byte, pollVars>>
  BY DEF ReceiveInv, handle_irq, Irq, UartTypeOK
<1>2. at[Poller] \notin {"poll_test", "poll_elapsed", "poll_read"}
  BY <1>1 DEF ReceiveInv, PollMasked
<1>3. /\ ring' \in [buffer : [Slots -> Bytes \cup {NULL}], head : Slots, tail : Slots]
      /\ ring.head # ring.tail => ring'.head # ring'.tail
  <2>1. CASE HasRoom /\ ring' = [ring EXCEPT !.buffer[ring.head] = dr,
                                             !.head = next_slot(@)]
    <3>1. ring.head \in Slots /\ ring.tail \in Slots
      BY <1>1 DEF UartTypeOK
    <3>2. next_slot(ring.head) \in Slots
      BY <3>1, NextSlot
    <3> QED
      BY <1>1, <2>1, <3>1, <3>2 DEF UartTypeOK, HasRoom
  <2>2. CASE UNCHANGED ring
    BY <1>1, <2>2 DEF UartTypeOK
  <2> QED
    BY <2>1, <2>2 DEF handle_irq
<1>4. UartTypeOK'
  BY <1>1, <1>3 DEF UartTypeOK, pollVars
<1>5. ReadsFilled'
  BY <1>1, <1>3 DEF ReceiveInv, ReadsFilled
<1> QED
  BY <1>1, <1>2, <1>4, <1>5 DEF ReceiveInv, PollOwnsByte, PollMasked

LEMMA TickUartInv ==
  ASSUME ReceiveInv, Tick_uart
  PROVE  ReceiveInv'
<1>1. TIMEOUT \in Nat
  BY UartReceiveAssumption
<1> QED
  BY <1>1 DEF Tick_uart, ReceiveInv, UartTypeOK, PollOwnsByte, PollMasked,
              ReadsFilled, rxVars

LEMMA ReadByteInv ==
  ASSUME ReceiveInv, uart_receive_byte, UNCHANGED pollVars
  PROVE  ReceiveInv'
<1>1. UartTypeOK /\ Reader \in AppTasks /\ Reader # Poller
  BY Desk DEF ReceiveInv
<1>2. ring.head \in Slots /\ ring.tail \in Slots
      /\ next_slot(ring.tail) \in Slots
  BY <1>1, NextSlot DEF UartTypeOK
<1>3. at'[Poller] = at[Poller] /\ UNCHANGED <<rxneie, dr>>
  <2>1. UNCHANGED <<rxneie, dr>>
    BY DEF uart_receive_byte, rxVars
  <2>2. \E next : at' = [at EXCEPT ![Reader] = next]
    BY DEF uart_receive_byte, Step
  <2> QED
    BY <1>1, <2>1, <2>2 DEF UartTypeOK
<1>4. UartTypeOK'
  BY <1>1, <1>2 DEF uart_receive_byte, Step, rxVars, pollVars, UartTypeOK
<1>5. ReadsFilled'
  BY <1>1 DEF uart_receive_byte, Step, rxVars, UartTypeOK, ReceiveInv, ReadsFilled
<1> QED
  BY <1>3, <1>4, <1>5 DEF ReceiveInv, PollOwnsByte, PollMasked

(* What a step of the poller leaves alone.                                  *)
LEMMA PollerStays ==
  ASSUME ReceiveInv, NEW here, NEW next, Step(Poller, here, next), ring' = ring
  PROVE  ReadsFilled'
  BY Desk DEF Step, ReceiveInv, UartTypeOK, ReadsFilled

LEMMA PollInv ==
  ASSUME ReceiveInv,
         \/ \E n \in 1 .. MaxChars :
              uart_receive_string_polling(n) /\ UNCHANGED byte
         \/ PollStep
  PROVE  ReceiveInv'
<1>1. /\ UartTypeOK /\ PollOwnsByte /\ PollMasked
      /\ Poller \in AppTasks
      /\ TIMEOUT \in Nat /\ MaxChars \in Nat
  BY Desk, UartReceiveAssumption DEF ReceiveInv
<1> USE <1>1 DEF UartTypeOK, PollOwnsByte, PollMasked, Step
<1>2. ASSUME NEW n \in 1 .. MaxChars,
             uart_receive_string_polling(n), UNCHANGED byte
      PROVE  ReceiveInv'
  <2>1. ReadsFilled'
    BY <1>2, PollerStays DEF uart_receive_string_polling, rxVars
  <2> QED
    BY <1>2, <2>1 DEF uart_receive_string_polling, rxVars, ReceiveInv
<1>3. ASSUME PollMask, UNCHANGED byte
      PROVE  ReceiveInv'
  <2>1. ReadsFilled'
    BY <1>3, PollerStays DEF PollMask
  <2>2. UartTypeOK'
    <3>1. /\ at' = [at EXCEPT ![Poller] = "poll_test"]
          /\ rxneie' \in BOOLEAN /\ waited' = 0
          /\ UNCHANGED <<dr, ring, c, room, byte>>
      BY <1>3 DEF PollMask
    <3>2. waited' \in 0 .. TIMEOUT
      BY <3>1
    <3>3. at' \in [AppTasks -> { "app", "ring_read", "ring_advance", "poll_mask",
               "poll_test", "poll_elapsed", "poll_read", "poll_unmask" }]
      BY <3>1
    <3> QED
      BY <3>1, <3>2, <3>3
  <2>3. at'[Poller] = "poll_test" /\ ~rxneie'
    <3>1. at' = [at EXCEPT ![Poller] = "poll_test"] /\ rxneie' = FALSE
      BY <1>3 DEF PollMask
    <3> QED
      BY <3>1
  <2> QED
    BY <2>1, <2>2, <2>3 DEF ReceiveInv
<1>4. ASSUME PollTest, UNCHANGED byte
      PROVE  ReceiveInv'
  <2>1. ReadsFilled'
    BY <1>4, PollerStays DEF PollTest, rxVars
  <2> QED
    BY <1>4, <2>1 DEF PollTest, rxVars, pollVars, ReceiveInv
<1>5. ASSUME PollElapsed, UNCHANGED byte
      PROVE  ReceiveInv'
  <2>1. ReadsFilled'
    BY <1>5, PollerStays DEF PollElapsed, rxVars
  <2> QED
    BY <1>5, <2>1 DEF PollElapsed, rxVars, pollVars, ReceiveInv
<1>6. ASSUME PollRead, UNCHANGED byte
      PROVE  ReceiveInv'
  <2>1. ReadsFilled'
    BY <1>6, PollerStays DEF PollRead
  <2> QED
    BY <1>6, <2>1 DEF PollRead, ReceiveInv
<1>7. ASSUME PollUnmask, UNCHANGED byte
      PROVE  ReceiveInv'
  <2>1. ReadsFilled'
    BY <1>7, PollerStays DEF PollUnmask
  <2> QED
    BY <1>7, <2>1 DEF PollUnmask, ReceiveInv
<1> QED
  BY <1>2, <1>3, <1>4, <1>5, <1>6, <1>7 DEF PollStep

LEMMA ReceiveStep ==
  ReceiveInv /\ [UartNext]_uartVars => ReceiveInv'
<1> SUFFICES ASSUME ReceiveInv, [UartNext]_uartVars
             PROVE  ReceiveInv'
  OBVIOUS
<1>1. CASE \/ Below(SwitchStep) \/ \E t \in Tasks : Below(Yield(t))
           \/ \E t \in AppTasks, ticks \in Delays :
                at[t] = "app" /\ Below(os_delay(t, ticks))
           \/ UNCHANGED uartVars
  BY <1>1, ReceiveStays DEF Below, uartVars
<1> QED
  BY <1>1, ArriveInv, IrqInv, TickUartInv, ReadByteInv, PollInv DEF UartNext

LEMMA ReceiveInvariant == UartSpec => []ReceiveInv
  BY ReceiveInit, ReceiveStep, PTL DEF UartSpec

(* Types, indices of the ring within its buffer, and a poll that saw RXNE   *)
(* finds the byte when it reads DR.                                         *)
THEOREM PollAlwaysOwnsByte == UartSpec => []UartInv
<1>1. ReceiveInv => UartInv
  BY DEF ReceiveInv, UartInv
<1> QED
  BY <1>1, ReceiveInvariant, PTL
-----------------------------------------------------------------------------
LEMMA RingShape ==
  ASSUME ReceiveInv
  PROVE  /\ ring.buffer \in [Slots -> Bytes \cup {NULL}]
         /\ ring.head \in Slots
         /\ ring.tail \in Slots
  BY DEF ReceiveInv, UartTypeOK

(* What is left for the reader to take: between its read of a slot and its  *)
(* write of tail the byte is in its hands although the slot still counts.   *)
Left == IF at[Reader] = "ring_advance" THEN Tail(Stored) ELSE Stored

Rx == [q \in {"rx"} |-> Left]

Read == [t \in {Reader} |-> byte]

LEMMA FifoStays ==
  ASSUME UNCHANGED <<ring, byte>>,
         (at[Reader] = "ring_advance") <=> (at'[Reader] = "ring_advance")
  PROVE  UNCHANGED <<Rx, Read>>
  BY DEF Rx, Read, Left, Stored

LEMMA HandlerSends ==
  ASSUME ReceiveInv, handle_irq, HasRoom,
         ring' = [ring EXCEPT !.buffer[ring.head] = dr, !.head = next_slot(@)]
  PROVE  Fifo!Send("rx", dr)
<1>1. PICK b \in [Slots -> Cell], h \in Slots, t \in Slots :
        b = ring.buffer /\ h = ring.head /\ t = ring.tail
  BY RingShape DEF Cell
<1>2. PICK d \in Cell : d = dr /\ d \in Bytes
  BY DEF ReceiveInv, UartTypeOK, handle_irq, Irq, Cell
<1>3. next_slot(h) # t /\ UNCHANGED <<at, byte>>
  BY <1>1 DEF handle_irq, HasRoom
<1>4. Stored = Content(b, h, t)
  BY <1>1, StoredIsContent
<1>5. Stored' = Content([b EXCEPT ![h] = d], next_slot(h), t)
  <2>1. /\ ring'.buffer = [b EXCEPT ![h] = d]
        /\ ring'.head = next_slot(h)
        /\ ring'.tail = t
    BY <1>1, <1>2 DEF ReceiveInv, UartTypeOK
  <2>2. Stored' = Content(ring'.buffer, ring'.head, ring'.tail)
    BY DEF Stored, Content, Amount, SlotAt
  <2> QED
    BY <2>1, <2>2
<1>6. /\ Stored' = Append(Stored, d)
      /\ Amount(h, t) < RINGBUFFER_SIZE - 1
  <2>1. /\ Content([b EXCEPT ![h] = d], next_slot(h), t)
             = Append(Content(b, h, t), d)
        /\ Amount(h, t) < RINGBUFFER_SIZE - 1
    BY <1>3, PutIsAppend
  <2> QED
    BY <1>4, <1>5, <2>1
<1>7. Stored \in Seq(Cell) /\ Len(Stored) = Amount(h, t)
  BY <1>4, ContentIsSeq
<1>8. ASSUME at[Reader] = "ring_advance"
      PROVE  /\ Tail(Stored') = Append(Tail(Stored), d)
             /\ Len(Tail(Stored)) < RINGBUFFER_SIZE - 1
  <2>1. h # t
    BY <1>1, <1>8 DEF ReceiveInv, ReadsFilled
  <2>2. Stored # <<>>
    BY <1>4, <2>1, TakeIsTail
  <2>3. Tail(Append(Stored, d)) = Append(Tail(Stored), d)
    BY <1>7, <2>2, HeadTailAppend
  <2>4. Len(Tail(Stored)) = Len(Stored) - 1 /\ Len(Stored) \in Nat
    BY <1>7, <2>2, HeadTailProperties, LenProperties
  <2> QED
    BY <1>6, <1>7, <2>3, <2>4, Desk
<1>9. Left' = Append(Left, d) /\ Len(Left) < RINGBUFFER_SIZE - 1
  BY <1>3, <1>6, <1>7, <1>8 DEF Left
<1>10. /\ Len(Rx["rx"]) < RINGBUFFER_SIZE - 1
       /\ Rx' = [Rx EXCEPT !["rx"] = Append(@, dr)]
       /\ Read' = Read
  BY <1>2, <1>3, <1>9 DEF Rx, Read
<1> QED
  BY <1>10 DEF Fifo!Send, Rx, Read, Left

LEMMA ReaderReceives ==
  ASSUME ReceiveInv, Step(Reader, "ring_read", "ring_advance"),
         byte' = ring.buffer[ring.tail], ring' = ring
  PROVE  Fifo!Receive(Reader, "rx")
<1>1. ring.head # ring.tail /\ Reader \in AppTasks
  BY Desk DEF ReceiveInv, ReadsFilled, Step
<1>2. /\ Stored # <<>>
      /\ Head(Stored) = ring.buffer[ring.tail]
  BY <1>1, RingShape, StoredIsContent, TakeIsTail DEF Cell
<1>3. Stored' = Stored
  BY DEF Stored
<1>4. at[Reader] = "ring_read" /\ at'[Reader] = "ring_advance"
  BY <1>1 DEF Step, ReceiveInv, UartTypeOK
<1>5. Left = Stored /\ Left' = Tail(Stored)
  BY <1>3, <1>4 DEF Left
<1>6. /\ Rx["rx"] # <<>>
      /\ Rx' = [Rx EXCEPT !["rx"] = Tail(@)]
      /\ Read' = [Read EXCEPT ![Reader] = Head(Rx["rx"])]
  BY <1>2, <1>5 DEF Rx, Read
<1> QED
  BY <1>6 DEF Fifo!Receive, Rx, Read, Left

LEMMA AdvanceStutters ==
  ASSUME ReceiveInv, Step(Reader, "ring_advance", "app"), UNCHANGED byte,
         ring' = [ring EXCEPT !.tail = next_slot(@)]
  PROVE  UNCHANGED <<Rx, Read>>
<1>1. ring.head # ring.tail /\ Reader \in AppTasks
  BY Desk DEF ReceiveInv, ReadsFilled, Step
<1>2. Stored' = Content(ring.buffer, ring.head, next_slot(ring.tail))
  <2>1. /\ ring'.buffer = ring.buffer
        /\ ring'.head = ring.head
        /\ ring'.tail = next_slot(ring.tail)
    BY DEF ReceiveInv, UartTypeOK
  <2>2. Stored' = Content(ring'.buffer, ring'.head, ring'.tail)
    BY DEF Stored, Content, Amount, SlotAt
  <2> QED
    BY <2>1, <2>2
<1>3. Stored' = Tail(Stored)
  BY <1>1, <1>2, RingShape, StoredIsContent, TakeIsTail DEF Cell
<1>4. at[Reader] = "ring_advance" /\ at'[Reader] = "app"
  BY <1>1 DEF Step, ReceiveInv, UartTypeOK
<1>5. Left' = Left
  BY <1>3, <1>4 DEF Left
<1> QED
  BY <1>5 DEF Rx, Read

(* The ring is a queue of RINGBUFFER_SIZE - 1 bytes, although the handler   *)
(* preempts uart_receive_byte between any two of its accesses.              *)
THEOREM RingAlwaysFifo == UartSpec => RingIsFifo
<1>1. UartInit => Fifo!Init
  <2> SUFFICES ASSUME UartInit
               PROVE  Fifo!Init
    OBVIOUS
  <2>1. /\ ring.head = 0 /\ ring.tail = 0 /\ byte = NULL
        /\ at[Reader] = "app"
    BY Desk DEF UartInit
  <2>2. Amount(ring.head, ring.tail) = 0
    BY <2>1, AmountIs, Desk
  <2>3. Stored = <<>>
    BY <2>2, StoredIsContent DEF Content
  <2> QED
    BY <2>1, <2>3 DEF Fifo!Init
<1>2. ReceiveInv /\ [UartNext]_uartVars => [Fifo!Next]_(Fifo!vars)
  <2> SUFFICES ASSUME ReceiveInv, [UartNext]_uartVars
               PROVE  \/ Fifo!Next
                      \/ UNCHANGED <<Rx, Read>>
    BY DEF Fifo!vars, Rx, Read, Left
  <2>0. at \in [AppTasks -> { "app", "ring_read", "ring_advance", "poll_mask",
               "poll_test", "poll_elapsed", "poll_read", "poll_unmask" }]
    BY DEF ReceiveInv, UartTypeOK
  <2>1. CASE handle_irq
    <3>1. CASE HasRoom /\ ring' = [ring EXCEPT !.buffer[ring.head] = dr,
                                               !.head = next_slot(@)]
      <4>1. dr \in Bytes
        BY <2>1 DEF ReceiveInv, UartTypeOK, handle_irq, Irq
      <4> QED
        BY <2>1, <3>1, <4>1, HandlerSends DEF Fifo!Next
    <3>2. CASE UNCHANGED ring
      BY <2>1, <3>2, FifoStays DEF handle_irq
    <3> QED
      BY <2>1, <3>1, <3>2 DEF handle_irq
  <2>2. CASE uart_receive_byte
    <3>1. CASE Step(Reader, "ring_read", "ring_advance")
               /\ byte' = ring.buffer[ring.tail] /\ UNCHANGED rxVars
      BY <3>1, ReaderReceives DEF Fifo!Next, rxVars
    <3>2. CASE Step(Reader, "ring_advance", "app")
               /\ ring' = [ring EXCEPT !.tail = next_slot(@)] /\ UNCHANGED byte
      BY <3>2, AdvanceStutters
    <3>3. ASSUME Step(Reader, "app", IF ring.head = ring.tail THEN "app"
                                     ELSE "ring_read"),
                 UNCHANGED <<rxVars, byte>>
          PROVE  UNCHANGED <<Rx, Read>>
      <4>1. /\ at[Reader] # "ring_advance" /\ at'[Reader] # "ring_advance"
            /\ UNCHANGED <<ring, byte>>
        BY <2>0, <3>3, Desk DEF Step, rxVars
      <4> QED
        BY <4>1, FifoStays
    <3> QED
      BY <2>2, <3>1, <3>2, <3>3 DEF uart_receive_byte
  <2>3. CASE \/ \E n \in 1 .. MaxChars :
                  uart_receive_string_polling(n) /\ UNCHANGED byte
             \/ PollStep
    <3>1. /\ UNCHANGED <<ring, byte>>
          /\ \E here, next : Step(Poller, here, next)
      BY <2>3 DEF uart_receive_string_polling, PollStep, PollMask, PollTest,
                  PollElapsed, PollRead, PollUnmask, rxVars
    <3>2. at'[Reader] = at[Reader]
      BY <2>0, <3>1, Desk DEF Step
    <3> QED
      BY <3>1, <3>2, FifoStays
  <2>4. CASE \/ \E b \in Bytes : Arrive(b)
             \/ Tick_uart
             \/ Below(SwitchStep)
             \/ \E t \in Tasks : Below(Yield(t))
             \/ \E t \in AppTasks, ticks \in Delays :
                  at[t] = "app" /\ Below(os_delay(t, ticks))
             \/ UNCHANGED uartVars
    <3>1. UNCHANGED <<ring, byte, at>>
      BY <2>4 DEF Arrive, Tick_uart, Below, uartVars, rxVars
    <3> QED
      BY <3>1, FifoStays
  <2> QED
    BY <2>1, <2>2, <2>3, <2>4 DEF UartNext
<1> QED
  BY <1>1, <1>2, ReceiveInvariant, PTL DEF UartSpec, RingIsFifo, Fifo!Spec

=============================================================================
