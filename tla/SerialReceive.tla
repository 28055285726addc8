----------------------------- MODULE SerialReceive -----------------------------
(***************************************************************************)
(* Serial receive, from the host's chardev to the firmware's driver: the   *)
(* receive queue of USART1 (py32_stub) and the DMA channel that drains     *)
(* it into a buffer of the guest (py32_dma_service_usart_rx), in           *)
(* qemu/py32f071.c.  The driver never reads the data register: it derives  *)
(* a write pointer from the channel's remaining count, and reading the     *)
(* count of any channel is what moves the bytes.  A bootloader polls the   *)
(* data register instead, before the channel is set up.                    *)
(*                                                                         *)
(* A byte is its position in what the host has sent.  The channel's GIF    *)
(* flag, which raises no interrupt, is left out.                           *)
(***************************************************************************)
EXTENDS Integers

CONSTANTS
    Fifo,       \* sizeof(rx_fifo)
    Ring,       \* length of the guest's buffer: UART_DMA_Buffer[256]
    Window,     \* the longest frame: the host waits for the answer to each
    MaxBytes,   \* bound on the bytes the host sends
    MaxResets   \* bound on the machine resets

ASSUME SerialAssumption ==
    /\ Fifo \in Nat \ {0, 1} /\ Ring \in Nat /\ Fifo <= Ring
    /\ Window \in Nat /\ Window < Ring
    /\ MaxBytes \in Nat /\ MaxResets \in Nat

VARIABLES
    sent,               \* bytes the host has sent
    received,           \* of these, handed to py32_stub_receive
    rx_fifo, rx_head, rx_tail,
    en, circ, cndtr,    \* the receive channel; its total is Ring
    mem,                \* the guest's buffer
    guest,              \* "boot" or "run": polling, or the channel is set up
    write_ptr,          \* what the driver last derived from the count
    read_ptr,           \* where it reads next
    next,               \* the byte it is waiting for (history)
    resets

hostVars  == <<sent, received>>
fifoVars  == <<rx_fifo, rx_head, rx_tail>>
dmaVars   == <<en, circ, cndtr, mem>>
guestVars == <<guest, write_ptr, read_ptr, next>>
vars == <<hostVars, fifoVars, dmaVars, guestVars, resets>>

-----------------------------------------------------------------------------
(* The receive queue *)

Used == (rx_head - rx_tail) % Fifo

\* Mutant: the queue is offered its last cell too.
CanReceiveLastCell == Fifo - Used

py32_stub_can_receive == Fifo - 1 - Used

\* The host sends while its frame is not answered.
HostSend ==
    /\ sent < MaxBytes /\ sent - next + 1 < Window
    /\ sent' = sent + 1
    /\ UNCHANGED <<received, fifoVars, dmaVars, guestVars, resets>>

\* The chardev hands over what was asked for; what finds no room is dropped.
py32_stub_receive(n) ==
    /\ n <= py32_stub_can_receive /\ n <= sent - received
    /\ LET stored == IF n < Fifo - Used THEN n ELSE Fifo - 1 - Used
       IN /\ rx_fifo' = [i \in 0..(Fifo - 1) |->
                            LET k == (i - rx_head) % Fifo
                            IN IF k < stored THEN received + k + 1 ELSE rx_fifo[i]]
          /\ rx_head' = (rx_head + stored) % Fifo
    /\ received' = received + n
    /\ UNCHANGED <<sent, rx_tail, dmaVars, guestVars, resets>>

\* A polling program sees RXNE in SR and reads DR.
ReadDr ==
    /\ guest = "boot" /\ Used # 0
    /\ rx_tail' = (rx_tail + 1) % Fifo
    /\ next' = rx_fifo[rx_tail] + 1
    /\ UNCHANGED <<hostVars, rx_fifo, rx_head, dmaVars, guest, write_ptr, read_ptr, resets>>

-----------------------------------------------------------------------------
(* The channel *)

\* The remaining count after n bytes; circular mode reloads it.
CountAfter(n) == IF circ THEN ((cndtr - n - 1) % Ring) + 1 ELSE cndtr - n

\* Mutant: reading the count moves nothing.
ServiceNever == UNCHANGED <<fifoVars, dmaVars>>

\* Everything queued goes to memory; a one-shot channel stops at its end.
py32_dma_service_usart_rx ==
    LET n == IF ~en THEN 0 ELSE IF circ \/ Used < cndtr THEN Used ELSE cndtr
    IN /\ mem' = [i \in 0..(Ring - 1) |->
                     LET k == (i - (Ring - cndtr)) % Ring
                     IN IF k < n THEN rx_fifo[(rx_tail + k) % Fifo] ELSE mem[i]]
       /\ rx_tail' = (rx_tail + n) % Fifo
       /\ cndtr' = CountAfter(n)
       /\ en' = (en /\ cndtr' # 0)
       /\ UNCHANGED <<circ, rx_fifo, rx_head>>

\* The driver reads the count of its channel ...
ReadCount ==
    /\ guest = "run"
    /\ py32_dma_service_usart_rx
    /\ write_ptr' = Ring - cndtr'
    /\ UNCHANGED <<hostVars, guest, read_ptr, next, resets>>

\* ... and another driver that of another channel.
ReadOtherCount ==
    /\ guest = "run"
    /\ py32_dma_service_usart_rx
    /\ UNCHANGED <<hostVars, guestVars, resets>>

-----------------------------------------------------------------------------
(* The firmware, as the code describes its use of the channel *)

\* CNDTR, CMAR, then CCR with EN; a one-shot channel is set up anew when all
\* it brought has been read.
Configure(c) ==
    /\ \/ guest = "boot"
       \/ guest = "run" /\ ~en /\ read_ptr = Ring
    /\ guest' = "run"
    /\ en' = TRUE
    /\ circ' = c
    /\ cndtr' = Ring
    /\ write_ptr' = 0
    /\ read_ptr' = 0
    /\ UNCHANGED <<hostVars, fifoVars, mem, next, resets>>

\* The driver takes a byte of those it knows of, at its own pace.
Consume ==
    /\ guest = "run" /\ read_ptr # write_ptr
    /\ next' = mem[read_ptr] + 1
    /\ read_ptr' = IF circ THEN (read_ptr + 1) % Ring ELSE read_ptr + 1
    /\ UNCHANGED <<hostVars, fifoVars, dmaVars, guest, write_ptr, resets>>

\* A machine reset: the DMA controller forgets its channels and the firmware
\* its buffer, while the stub has no reset and keeps its queue.
Reset ==
    /\ resets < MaxResets
    /\ resets' = resets + 1
    /\ en' = FALSE /\ circ' = FALSE /\ cndtr' = 0
    /\ guest' = "boot"
    /\ write_ptr' = 0 /\ read_ptr' = 0
    /\ next' = received - Used + 1
    /\ UNCHANGED <<hostVars, fifoVars, mem>>

-----------------------------------------------------------------------------
Init ==
    /\ sent = 0 /\ received = 0
    /\ rx_fifo = [i \in 0..(Fifo - 1) |-> 0]
    /\ rx_head = 0 /\ rx_tail = 0
    /\ en = FALSE /\ circ = FALSE /\ cndtr = 0
    /\ mem = [i \in 0..(Ring - 1) |-> 0]
    /\ guest = "boot"
    /\ write_ptr = 0 /\ read_ptr = 0
    /\ next = 1
    /\ resets = 0

Deliver == \E n \in 1..Fifo : py32_stub_receive(n)

Next ==
    \/ HostSend
    \/ Deliver
    \/ ReadDr
    \/ ReadCount
    \/ ReadOtherCount
    \/ \E c \in BOOLEAN : Configure(c)
    \/ Consume
    \/ Reset

\* The main loop delivers input, and the firmware keeps looking and reading.
Fairness ==
    /\ WF_vars(Deliver)
    /\ WF_vars(ReadDr) /\ WF_vars(\E c \in BOOLEAN : Configure(c))
    /\ WF_vars(ReadCount) /\ WF_vars(Consume)

Spec == Init /\ [][Next]_vars /\ Fairness

-----------------------------------------------------------------------------
\* The queue, the channel and the pointers stay in their ranges; a channel that
\* is enabled has a count left.
TypeOK ==
    /\ sent \in 0..MaxBytes /\ received \in 0..sent
    /\ rx_fifo \in [0..(Fifo - 1) -> 0..MaxBytes]
    /\ rx_head \in 0..(Fifo - 1) /\ rx_tail \in 0..(Fifo - 1)
    /\ en \in BOOLEAN /\ circ \in BOOLEAN
    /\ cndtr \in 0..Ring /\ (en => cndtr # 0)
    /\ mem \in [0..(Ring - 1) -> 0..MaxBytes]
    /\ guest \in {"boot", "run"}
    /\ write_ptr \in 0..Ring /\ read_ptr \in 0..Ring
    /\ next \in 1..(MaxBytes + 1)
    /\ resets \in 0..MaxResets

\* Bytes in the guest's buffer that the driver has not read.
Unread ==
    CASE guest = "boot" -> 0
      [] circ           -> (Ring - cndtr - read_ptr) % Ring
      [] OTHER          -> Ring - cndtr - read_ptr

(***************************************************************************)
(* No byte is lost, repeated or overtaken between the host and the driver: *)
(* the unread part of the buffer, the queue and the chardev hold, in this  *)
(* order, exactly what the host has sent since the byte the driver waits   *)
(* for.  A frame shorter than the buffer cannot overrun it, whenever the   *)
(* counts are read, nor can a full buffer look like an empty one.          *)
(***************************************************************************)
StreamIntact ==
    /\ \A i \in 0..(Unread - 1) : mem[(read_ptr + i) % Ring] = next + i
    /\ \A i \in 0..(Used - 1) : rx_fifo[(rx_tail + i) % Fifo] = next + Unread + i
    /\ received = next + Unread + Used - 1

(***************************************************************************)
(* Every byte the host sends is read in the end, or was in the buffer when *)
(* the machine was reset: a queue that was full takes bytes again.         *)
(***************************************************************************)
AllArrive == \A n \in 1..MaxBytes : (sent >= n) ~> (next > n)

=============================================================================
