-------------------------------- MODULE Uart --------------------------------
(***************************************************************************)
(* The serial port (drivers/uart8250mem.c): loops that poll the line       *)
(* status a limited number of times, while the port sends and receives at  *)
(* its own pace or not at all.                                             *)
(***************************************************************************)
EXTENDS Integers, Sequences

CONSTANTS
    Bytes,
    SINGLE_CHAR_TIMEOUT, FIFO_TIMEOUT,
    Wrap,               \* an unsigned long counts modulo this
    Refclk, Baudrate,   \* 115200 both
    MaxBytes            \* bound: bytes sent, and bytes received

ASSUME UartAssumption ==
    /\ SINGLE_CHAR_TIMEOUT \in 1 .. Wrap - 2 /\ FIFO_TIMEOUT \in 1 .. Wrap - 2
    /\ Wrap \in Nat /\ Refclk \in Nat \ {0} /\ Baudrate \in Nat \ {0} /\ MaxBytes \in Nat

VARIABLES
    base,               \* the board has a serial port
    call, step, i, data,  \* the operation, its next write, its counter, its byte
    ready,              \* uart_init() was called
    dlab, ier, dll, dlm,
    thr, tsr,           \* holding and shift register of the transmitter
    rbr,                \* receiver
    given, sent,        \* bytes to be sent, bytes on the line
    arrived, taken,     \* bytes from the line, bytes returned
    stuck               \* a byte was sent although the port was not ready

ops == <<base, call, step, i, data>>
portRegs == <<dlab, ier, dll, dlm>>
tx == <<thr, tsr, given, sent, stuck>>
rx == <<rbr, arrived, taken>>
uartVars == <<ops, ready, portRegs, tx, rx>>

THRE == thr = << >>
TEMT == thr = << >> /\ tsr = << >>
DR == rbr # << >>

(* The nearest divisor, "do not floor". *)
Divisor == (1 + (2 * Refclk) \div Baudrate) \div 2

(* uart8250_mem_init(); of LCR, whether the divisor is selected. *)
InitWrites == << <<"IER", 0>>, <<"FCR", 1>>, <<"MCR", 3>>, <<"LCR", TRUE>>,
                 <<"DLL", Divisor % 256>>, <<"DLM", Divisor \div 256>>, <<"LCR", FALSE>> >>
-----------------------------------------------------------------------------
UartInit ==
    /\ base \in BOOLEAN /\ call = "idle" /\ step = 1 /\ i = 0 /\ data = 0 /\ ready = FALSE
    /\ dlab = FALSE /\ ier \in {0, 1} /\ dll = 0 /\ dlm = 0
    /\ thr = << >> /\ tsr = << >> /\ rbr = << >>
    /\ given = << >> /\ sent = << >> /\ arrived = << >> /\ taken = << >> /\ stuck = FALSE

(* Registers 0 and 1 are the divisor or the data and the interrupts. *)
Write0(v) == IF dlab THEN dll' = v /\ UNCHANGED thr ELSE thr' = <<v>> /\ UNCHANGED dll
Write1(v) == IF dlab THEN dlm' = v /\ UNCHANGED ier ELSE ier' = v /\ UNCHANGED dlm

uart_init ==
    /\ call = "idle" /\ base /\ ~ ready /\ call' = "init" /\ step' = 1
    /\ UNCHANGED <<base, i, data, ready, portRegs, tx, rx>>

InitWrite ==
    /\ call = "init"
    /\ LET w == InitWrites[step]
       IN  /\ IF w[1] = "DLL" THEN Write0(w[2]) ELSE UNCHANGED <<dll, thr>>
           /\ IF w[1] \in {"DLM", "IER"} THEN Write1(w[2]) ELSE UNCHANGED <<dlm, ier>>
           /\ dlab' = IF w[1] = "LCR" THEN w[2] ELSE dlab
    /\ IF step = Len(InitWrites) THEN call' = "idle" /\ step' = 1 /\ ready' = TRUE
       ELSE step' = step + 1 /\ UNCHANGED <<call, ready>>
    /\ UNCHANGED <<base, i, data, tsr, given, sent, stuck, rx>>

(* Without a port every function returns at once. *)
NoPort == call = "idle" /\ ~ base /\ UNCHANGED uartVars

Begin(op, timeout) ==
    call = "idle" /\ base /\ ready /\ call' = op /\ i' = timeout /\ UNCHANGED <<base, step>>

uart_tx_byte(b) ==
    /\ Len(given) < MaxBytes /\ Begin("tx", SINGLE_CHAR_TIMEOUT) /\ data' = b
    /\ given' = Append(given, b)
    /\ UNCHANGED <<ready, portRegs, thr, tsr, sent, stuck, rx>>

uart_tx_flush ==
    /\ Begin("flush", FIFO_TIMEOUT) /\ UNCHANGED <<data, ready, portRegs, tx, rx>>

uart_rx_byte ==
    /\ Len(taken) < MaxBytes
    /\ Begin("rx", SINGLE_CHAR_TIMEOUT) /\ UNCHANGED <<data, ready, portRegs, tx, rx>>

(* A loop that does not count. *)
Poll_forever(done, next) ==
    /\ UNCHANGED i /\ call' = IF done THEN next ELSE call
(* while (i-- && !done): the counter also goes down when the loop ends. *)
Poll(done, next) ==
    /\ i' = (i - 1) % Wrap /\ call' = IF i = 0 \/ done THEN next ELSE call

TxPoll == call = "tx" /\ Poll(THRE, "put") /\ UNCHANGED <<base, step, data, ready, portRegs, tx, rx>>

(* Data that goes to a port whatever it is doing. *)
TxPut_now ==
    /\ call \in {"tx", "put"} /\ call' = "idle" /\ Write0(data)
    /\ UNCHANGED <<base, step, i, data, ready, dlab, ier, dlm, tsr, given, sent, stuck, rx>>
(* The byte is written also when the loop gave up. *)
TxPut ==
    /\ call = "put" /\ call' = "idle" /\ Write0(data)
    /\ stuck' = (stuck \/ ~ THRE)
    /\ UNCHANGED <<base, step, i, data, ready, dlab, ier, dlm, tsr, given, sent, rx>>

FlushPoll == call = "flush" /\ Poll(TEMT, "idle") /\ UNCHANGED <<base, step, data, ready, portRegs, tx, rx>>

RxPoll == call = "rx" /\ Poll(DR, "get") /\ UNCHANGED <<base, step, data, ready, portRegs, tx, rx>>

(***************************************************************************)
(* if (i): after a time-out i is Wrap - 1 and the port is read though it   *)
(* has nothing; a byte seen by the last poll, with i at 0, stays there.    *)
(***************************************************************************)
RxGet ==
    /\ call = "get" /\ call' = "idle"
    /\ IF i # 0 THEN taken' = taken \o rbr /\ rbr' = << >> ELSE UNCHANGED <<taken, rbr>>
    /\ UNCHANGED <<base, step, i, data, ready, portRegs, tx, arrived>>
-----------------------------------------------------------------------------
(* The port: the transmitter shifts bytes out, bytes arrive one by one. *)
Shift == /\ tsr = << >> /\ thr # << >> /\ tsr' = thr /\ thr' = << >>
         /\ UNCHANGED <<ops, ready, portRegs, given, sent, stuck, rx>>
Send == /\ tsr # << >> /\ sent' = sent \o tsr /\ tsr' = << >>
        /\ UNCHANGED <<ops, ready, portRegs, thr, given, stuck, rx>>
Arrive == /\ rbr = << >> /\ Len(arrived) < MaxBytes
          /\ \E b \in Bytes : rbr' = <<b>> /\ arrived' = Append(arrived, b)
          /\ UNCHANGED <<ops, ready, portRegs, tx, taken>>

Code == uart_init \/ InitWrite \/ uart_tx_flush \/ uart_rx_byte \/ (\E b \in Bytes : uart_tx_byte(b))
        \/ TxPoll \/ TxPut \/ FlushPoll \/ RxPoll \/ RxGet \/ NoPort
UartNext == Code \/ Shift \/ Send \/ Arrive

(* The code runs; the port may be stuck for ever. *)
UartSpec == UartInit /\ [][UartNext]_uartVars /\ WF_uartVars(Code /\ call # "idle")
-----------------------------------------------------------------------------
(***************************************************************************)
(* uart_init() ends with the wanted divisor, without interrupts, with the  *)
(* data register selected again, and it has put nothing on the line.       *)
(***************************************************************************)
ReadyToSend ==
    ready => /\ ~ dlab /\ ier = 0 /\ dll + 256 * dlm = Divisor
             /\ given = << >> => TEMT /\ sent = << >>

(* The bytes that are on their way, and those that have gone out. *)
Transmitted == sent \o tsr \o thr \o (IF call \in {"tx", "put"} THEN <<data>> ELSE << >>)

(* Received bytes are returned once and in order, whatever the loop's test. *)
BytesReturnedOnce == taken \o rbr = arrived

(***************************************************************************)
(* As long as the port is not stuck for the whole of a time-out, every     *)
(* byte goes out, once and in order; bytes received are returned once and  *)
(* in order; uart_init() leaves the port ready to send.                    *)
(***************************************************************************)
NothingLost == (~ stuck => Transmitted = given) /\ BytesReturnedOnce /\ ReadyToSend

(* "Assume UART as stuck": every call returns, also when the port does nothing. *)
CallsReturn == call # "idle" ~> call = "idle"
=============================================================================
