------------------------------ MODULE IoProofs ------------------------------
(***************************************************************************)
(* Proofs about what bboot uses to read and to write: the serial port's    *)
(* driver, for every time-out and clock; the accessors of drivers/pci.c,   *)
(* which implement an array of bytes (PciConf refines PciSpace, for every  *)
(* set of devices, registers and values); the configuration string, for    *)
(* every alphabet and length; and the console, for every set of drivers    *)
(* and every text.                                                         *)
(***************************************************************************)
EXTENDS Uart, PciConf, Cfg, Console, MemoryProofs, SequenceTheorems, TLAPS

(***************************************************************************)
(* Every variable has its type; a byte is waiting to be sent only while    *)
(* uart_tx_byte() runs.                                                    *)
(***************************************************************************)
TypeOK ==
    /\ call \in {"idle", "init", "tx", "put", "flush", "rx", "get"}
    /\ base \in BOOLEAN /\ ready \in BOOLEAN /\ dlab \in BOOLEAN /\ stuck \in BOOLEAN
    /\ step \in 1 .. Len(InitWrites) /\ i \in 0 .. Wrap - 1
    /\ call \in {"tx", "put"} => data \in Bytes
    /\ given \in Seq(Bytes) /\ sent \in Seq(Bytes) /\ thr \in Seq(Bytes) /\ tsr \in Seq(Bytes)
    /\ arrived \in Seq(Bytes) /\ taken \in Seq(Bytes) /\ rbr \in Seq(Bytes)

(***************************************************************************)
(* How far uart_init() has come.  The divisor latch is selected from the   *)
(* fourth write to the seventh, so that the divisor goes neither to the    *)
(* line nor to the interrupt mask, and nothing is sent before its end.     *)
(***************************************************************************)
InitInv ==
    /\ call \notin {"idle", "init"} => ready
    /\ ~ ready => given = << >> /\ (call = "idle" => ~ dlab)
    /\ call = "init" => /\ ~ ready /\ (dlab <=> step > 4)
                        /\ (step > 1 => ier = 0) /\ (step > 5 => dll = Divisor % 256)
                        /\ (step > 6 => dlm = Divisor \div 256)
    /\ ready => ~ dlab /\ ier = 0 /\ dll = Divisor % 256 /\ dlm = Divisor \div 256

(* Nothing is on its way that was not given. *)
QuietInv == given = << >> => TEMT /\ sent = << >> /\ call \notin {"tx", "put"}

SentInv == ~ stuck => Transmitted = given

IInv == TypeOK /\ InitInv /\ QuietInv /\ SentInv /\ BytesReturnedOnce
-----------------------------------------------------------------------------
LEMMA WriteList ==
  /\ Len(InitWrites) = 7
  /\ InitWrites[1][1] = "IER" /\ InitWrites[1][2] = 0
  /\ InitWrites[2][1] = "FCR" /\ InitWrites[3][1] = "MCR"
  /\ InitWrites[4][1] = "LCR" /\ InitWrites[4][2] = TRUE
  /\ InitWrites[5][1] = "DLL" /\ InitWrites[5][2] = Divisor % 256
  /\ InitWrites[6][1] = "DLM" /\ InitWrites[6][2] = Divisor \div 256
  /\ InitWrites[7][1] = "LCR" /\ InitWrites[7][2] = FALSE
BY DEF InitWrites

LEMMA DivisorBytes == Divisor \in Nat /\ (Divisor % 256) + 256 * (Divisor \div 256) = Divisor
<1>1. Divisor \in Nat
  <2>1. (2 * Refclk) \div Baudrate \in Nat
    BY UartAssumption
  <2> QED
    BY <2>1 DEF Divisor
<1> QED
  BY <1>1

LEMMA InductiveInit == UartInit => IInv
<1> SUFFICES ASSUME UartInit PROVE IInv
  OBVIOUS
<1>1. TypeOK
  <2>1. step \in 1 .. Len(InitWrites) /\ i \in 0 .. Wrap - 1
    BY WriteList, UartAssumption DEF UartInit
  <2>2. << >> \in Seq(Bytes)
    OBVIOUS
  <2>3. call = "idle" /\ base \in BOOLEAN /\ ready = FALSE /\ dlab = FALSE /\ stuck = FALSE
    BY DEF UartInit
  <2>4. /\ given = << >> /\ sent = << >> /\ thr = << >> /\ tsr = << >>
        /\ arrived = << >> /\ taken = << >> /\ rbr = << >>
    BY DEF UartInit
  <2> QED
    BY <2>1, <2>2, <2>3, <2>4 DEF TypeOK
<1>2. InitInv /\ QuietInv /\ SentInv /\ BytesReturnedOnce
  BY DEF UartInit, InitInv, QuietInv, TEMT, SentInv, Transmitted, BytesReturnedOnce
<1> QED
  BY <1>1, <1>2 DEF IInv

(* What each of the seven writes of uart_init() changes. *)
LEMMA InitWriteEffect ==
  ASSUME TypeOK, InitInv, InitWrite
  PROVE  /\ UNCHANGED <<base, i, data, thr, tsr, given, sent, stuck, rbr, arrived, taken>>
         /\ call = "init" /\ step \in 1 .. 7
         /\ ier' = IF step = 1 THEN 0 ELSE ier
         /\ dll' = IF step = 5 THEN Divisor % 256 ELSE dll
         /\ dlm' = IF step = 6 THEN Divisor \div 256 ELSE dlm
         /\ step = 4 => dlab' = TRUE
         /\ step = 7 => dlab' = FALSE
         /\ step \notin {4, 7} => dlab' = dlab
         /\ step = 7 => call' = "idle" /\ step' = 1 /\ ready' = TRUE
         /\ step # 7 => call' = "init" /\ step' = step + 1 /\ ready' = ready
<1>1. call = "init" /\ step \in 1 .. 7 /\ ~ ready /\ (dlab <=> step > 4)
  BY WriteList DEF InitWrite, TypeOK, InitInv
<1>2. UNCHANGED <<base, i, data, tsr, given, sent, stuck, rbr, arrived, taken>>
  BY DEF InitWrite, rx
<1>3. /\ step = 7 => call' = "idle" /\ step' = 1 /\ ready' = TRUE
      /\ step # 7 => call' = "init" /\ step' = step + 1 /\ ready' = ready
  BY <1>1, WriteList DEF InitWrite
<1>4. /\ InitWrites[step][1] = "DLL" => Write0(InitWrites[step][2])
      /\ InitWrites[step][1] # "DLL" => UNCHANGED <<dll, thr>>
      /\ InitWrites[step][1] \in {"DLM", "IER"} => Write1(InitWrites[step][2])
      /\ InitWrites[step][1] \notin {"DLM", "IER"} => UNCHANGED <<dlm, ier>>
      /\ InitWrites[step][1] = "LCR" => dlab' = InitWrites[step][2]
      /\ InitWrites[step][1] # "LCR" => dlab' = dlab
  BY DEF InitWrite
<1>5. step = 1 \/ step = 2 \/ step = 3 \/ step = 4 \/ step = 5 \/ step = 6 \/ step = 7
  BY <1>1
<1>6. step = 1 => ~ dlab
  BY <1>1
<1>7. step \in {5, 6} => dlab
  BY <1>1
<1>8. /\ thr' = thr
      /\ ier' = IF step = 1 THEN 0 ELSE ier
      /\ dll' = IF step = 5 THEN Divisor % 256 ELSE dll
      /\ dlm' = IF step = 6 THEN Divisor \div 256 ELSE dlm
  BY <1>4, <1>5, <1>6, <1>7, WriteList DEF Write0, Write1
<1>9. /\ step = 4 => dlab' = TRUE
      /\ step = 7 => dlab' = FALSE
      /\ step \notin {4, 7} => dlab' = dlab
  BY <1>4, <1>5, WriteList
<1> QED
  BY <1>1, <1>2, <1>3, <1>8, <1>9

LEMMA InitWriteStep == IInv /\ InitWrite => IInv'
<1> SUFFICES ASSUME IInv, InitWrite PROVE IInv'
  OBVIOUS
<1>e. /\ UNCHANGED <<base, i, data, thr, tsr, given, sent, stuck, rbr, arrived, taken>>
      /\ call = "init" /\ step \in 1 .. 7
      /\ ier' = IF step = 1 THEN 0 ELSE ier
      /\ dll' = IF step = 5 THEN Divisor % 256 ELSE dll
      /\ dlm' = IF step = 6 THEN Divisor \div 256 ELSE dlm
      /\ step = 4 => dlab' = TRUE
      /\ step = 7 => dlab' = FALSE
      /\ step \notin {4, 7} => dlab' = dlab
      /\ step = 7 => call' = "idle" /\ step' = 1 /\ ready' = TRUE
      /\ step # 7 => call' = "init" /\ step' = step + 1 /\ ready' = ready
  BY InitWriteEffect DEF IInv
<1>i. /\ ~ ready /\ given = << >> /\ (dlab <=> step > 4)
      /\ (step > 1 => ier = 0) /\ (step > 5 => dll = Divisor % 256)
      /\ (step > 6 => dlm = Divisor \div 256)
  BY <1>e DEF IInv, InitInv
<1>1. TypeOK'
  <2>1. step' \in 1 .. Len(InitWrites) /\ i' \in 0 .. Wrap - 1
    <3>1. step' \in 1 .. 7
      BY <1>e
    <3> QED
      BY <3>1, <1>e, WriteList DEF IInv, TypeOK
  <2>2. call' \in {"idle", "init"}
    BY <1>e
  <2>3. dlab' \in BOOLEAN
    BY <1>e DEF IInv, TypeOK
  <2>4. ready' \in BOOLEAN
    BY <1>e DEF IInv, TypeOK
  <2> QED
    BY <2>1, <2>2, <2>3, <2>4, <1>e DEF IInv, TypeOK
<1>2. InitInv'
  <2>1. CASE step = 7
    <3>1. step > 1 /\ step > 5 /\ step > 6
      BY <2>1
    <3> QED
      BY <2>1, <3>1, <1>e, <1>i DEF InitInv
  <2>2. CASE step # 7
    <3>1. ~ ready' /\ call' = "init" /\ given' = << >>
      BY <2>2, <1>e, <1>i
    <3>2. (dlab' <=> step' > 4)
      <4>1. CASE step = 4
        <5>1. step' > 4
          BY <4>1, <1>e
        <5> QED
          BY <4>1, <5>1, <1>e
      <4>2. CASE step # 4
        <5>1. step' > 4 <=> step > 4
          BY <4>2, <2>2, <1>e
        <5>2. dlab' = dlab
          BY <4>2, <2>2, <1>e
        <5> QED
          BY <5>1, <5>2, <1>i
      <4> QED
        BY <4>1, <4>2
    <3>3. (step' > 1 => ier' = 0) /\ (step' > 5 => dll' = Divisor % 256)
          /\ (step' > 6 => dlm' = Divisor \div 256)
      BY <2>2, <1>e, <1>i
    <3> QED
      BY <3>1, <3>2, <3>3 DEF InitInv
  <2> QED
    BY <2>1, <2>2
<1>3. QuietInv' /\ SentInv' /\ BytesReturnedOnce'
  <2>1. call \notin {"tx", "put"} /\ call' \notin {"tx", "put"}
    BY <1>e
  <2>2. Transmitted' = Transmitted
    BY <2>1, <1>e DEF Transmitted
  <2> QED
    BY <2>1, <2>2, <1>e DEF IInv, QuietInv, TEMT, SentInv, BytesReturnedOnce
<1> QED
  BY <1>1, <1>2, <1>3 DEF IInv

(* uart_init() begins, and the calls that have only begun or only poll. *)
LEMMA OperationStep ==
  ASSUME IInv, UNCHANGED <<base, ready, portRegs, tx, rx>>,
         step' \in 1 .. 7, i' \in 0 .. Wrap - 1, data' = data,
         \/ call = "idle" /\ call' = "init" /\ ~ ready /\ step' = 1
         \/ ready /\ call \notin {"tx", "put"} /\ call' \in {"idle", "flush", "rx", "get"}
         \/ ready /\ call = "tx" /\ call' \in {"tx", "put"}
  PROVE  IInv'
<1>u. /\ UNCHANGED <<base, ready, dlab, ier, dll, dlm, thr, tsr, given, sent, stuck, rbr, arrived, taken>>
  BY DEF portRegs, tx, rx
<1>1. TypeOK'
  <2>1. step' \in 1 .. Len(InitWrites)
    BY WriteList
  <2>2. call' \in {"idle", "init", "tx", "put", "flush", "rx", "get"}
    OBVIOUS
  <2>3. call' \in {"tx", "put"} => data' \in Bytes
    BY DEF IInv, TypeOK
  <2> QED
    BY <2>1, <2>2, <2>3, <1>u DEF IInv, TypeOK
<1>2. InitInv'
  <2>1. CASE call = "idle" /\ call' = "init" /\ ~ ready /\ step' = 1
    <3>1. ~ (step' > 1) /\ ~ (step' > 4) /\ ~ (step' > 5) /\ ~ (step' > 6)
      BY <2>1
    <3> QED
      BY <2>1, <3>1, <1>u DEF IInv, InitInv
  <2>2. CASE ready /\ call' # "init"
    BY <2>2, <1>u DEF IInv, InitInv
  <2> QED
    BY <2>1, <2>2
<1>3. Transmitted' = Transmitted
  <2>1. call' \in {"tx", "put"} <=> call \in {"tx", "put"}
    OBVIOUS
  <2> QED
    BY <2>1, <1>u DEF Transmitted
<1>4. QuietInv' /\ SentInv' /\ BytesReturnedOnce'
  BY <1>3, <1>u DEF IInv, QuietInv, TEMT, SentInv, BytesReturnedOnce
<1> QED
  BY <1>1, <1>2, <1>4 DEF IInv

LEMMA CountDown == TypeOK => (i - 1) % Wrap \in 0 .. Wrap - 1
<1> SUFFICES ASSUME TypeOK PROVE (i - 1) % Wrap \in 0 .. Wrap - 1
  OBVIOUS
<1>1. i \in Int /\ Wrap \in Nat \ {0}
  BY UartAssumption DEF TypeOK
<1> QED
  BY <1>1

LEMMA PollStep == IInv /\ (TxPoll \/ FlushPoll \/ RxPoll) => IInv'
<1> SUFFICES ASSUME IInv, TxPoll \/ FlushPoll \/ RxPoll PROVE IInv'
  OBVIOUS
<1>1. UNCHANGED <<base, ready, portRegs, tx, rx>> /\ step' = step /\ data' = data
  BY DEF TxPoll, FlushPoll, RxPoll
<1>2. step' \in 1 .. 7 /\ ready
  BY <1>1, WriteList DEF IInv, TypeOK, InitInv, TxPoll, FlushPoll, RxPoll
<1>3. i' = (i - 1) % Wrap
  BY DEF TxPoll, FlushPoll, RxPoll, Poll
<1>4. i' \in 0 .. Wrap - 1
  BY <1>3, CountDown DEF IInv
<1>5. \/ call = "tx" /\ call' \in {"tx", "put"}
      \/ call \in {"flush", "rx"} /\ call' \in {"flush", "idle", "rx", "get"}
  BY DEF TxPoll, FlushPoll, RxPoll, Poll
<1> QED
  BY <1>1, <1>2, <1>4, <1>5, OperationStep

LEMMA BeginStep == IInv /\ (uart_init \/ uart_tx_flush \/ uart_rx_byte) => IInv'
<1> SUFFICES ASSUME IInv, uart_init \/ uart_tx_flush \/ uart_rx_byte PROVE IInv'
  OBVIOUS
<1>1. UNCHANGED <<base, ready, portRegs, tx, rx>> /\ data' = data /\ call = "idle"
  BY DEF uart_init, uart_tx_flush, uart_rx_byte, Begin
<1>2. step \in 1 .. 7 /\ i \in 0 .. Wrap - 1
  BY WriteList DEF IInv, TypeOK
<1>3. CASE uart_init
  <2>1. call' = "init" /\ ~ ready /\ step' = 1 /\ i' = i
    BY <1>3 DEF uart_init
  <2>2. step' \in 1 .. 7
    BY <2>1
  <2> QED
    BY <1>1, <1>2, <2>1, <2>2, OperationStep
<1>4. CASE uart_tx_flush \/ uart_rx_byte
  <2>1. ready /\ step' = step /\ call' \in {"flush", "rx"} /\ i' \in {FIFO_TIMEOUT, SINGLE_CHAR_TIMEOUT}
    BY <1>4 DEF uart_tx_flush, uart_rx_byte, Begin
  <2>2. i' \in 0 .. Wrap - 1
    BY <2>1, UartAssumption
  <2> QED
    BY <1>1, <1>2, <2>1, <2>2, OperationStep
<1> QED
  BY <1>3, <1>4

LEMMA GiveStep == \A b \in Bytes : IInv /\ uart_tx_byte(b) => IInv'
<1> SUFFICES ASSUME NEW b \in Bytes, IInv, uart_tx_byte(b) PROVE IInv'
  OBVIOUS
<1>1. /\ call = "idle" /\ base /\ ready /\ call' = "tx" /\ i' = SINGLE_CHAR_TIMEOUT /\ data' = b
      /\ given' = Append(given, b)
      /\ UNCHANGED <<base, step, ready, dlab, ier, dll, dlm, thr, tsr, sent, stuck, rbr, arrived, taken>>
  BY DEF uart_tx_byte, Begin, portRegs, rx
<1>2. i' \in 0 .. Wrap - 1
  BY <1>1, UartAssumption
<1>3. given \in Seq(Bytes) /\ given' \in Seq(Bytes) /\ given' # << >> /\ given' = given \o <<b>>
  BY <1>1 DEF IInv, TypeOK
<1>4. TypeOK'
  BY <1>1, <1>2, <1>3 DEF IInv, TypeOK
<1>5. InitInv' /\ QuietInv' /\ BytesReturnedOnce'
  BY <1>1, <1>3 DEF IInv, InitInv, QuietInv, BytesReturnedOnce
<1>6. Transmitted' = Transmitted \o <<b>>
  <2>1. Transmitted = sent \o tsr \o thr \o << >>
    BY <1>1 DEF Transmitted
  <2>2. Transmitted' = sent \o tsr \o thr \o <<b>>
    BY <1>1 DEF Transmitted
  <2>3. sent \o tsr \o thr \in Seq(Bytes)
    BY DEF IInv, TypeOK
  <2> QED
    BY <2>1, <2>2, <2>3, ConcatEmptySeq
<1>7. SentInv'
  BY <1>1, <1>3, <1>6 DEF IInv, SentInv
<1> QED
  BY <1>4, <1>5, <1>7 DEF IInv

(***************************************************************************)
(* The byte goes to the data register, because the divisor latch is not    *)
(* selected once uart_init() has ended; when that register is empty none   *)
(* of the bytes before it is lost.                                         *)
(***************************************************************************)
LEMMA PutStep == IInv /\ TxPut => IInv'
<1> SUFFICES ASSUME IInv, TxPut PROVE IInv'
  OBVIOUS
<1>1. call = "put" /\ ready /\ ~ dlab /\ data \in Bytes
  BY DEF TxPut, IInv, InitInv, TypeOK
<1>2. /\ call' = "idle" /\ thr' = <<data>>
      /\ UNCHANGED <<base, step, i, data, ready, dlab, ier, dll, dlm, tsr, given, sent, rbr, arrived, taken>>
  BY <1>1 DEF TxPut, Write0, rx
<1>3. stuck' = (stuck \/ ~ THRE)
  BY DEF TxPut
<1>4. TypeOK'
  <2>1. stuck' \in BOOLEAN
    BY <1>3
  <2>2. thr' \in Seq(Bytes)
    BY <1>1, <1>2
  <2> QED
    BY <2>1, <2>2, <1>1, <1>2 DEF IInv, TypeOK
<1>5. InitInv' /\ QuietInv' /\ BytesReturnedOnce'
  BY <1>1, <1>2 DEF IInv, InitInv, QuietInv, BytesReturnedOnce
<1>6. SentInv'
  <2> SUFFICES ASSUME ~ stuck' PROVE Transmitted' = given'
    BY DEF SentInv
  <2>1. ~ stuck /\ thr = << >>
    BY <1>3 DEF THRE
  <2>2. Transmitted' = sent \o tsr \o <<data>> \o << >>
    BY <1>2 DEF Transmitted
  <2>3. Transmitted = sent \o tsr \o << >> \o <<data>>
    BY <1>1, <2>1 DEF Transmitted
  <2>4. sent \o tsr \in Seq(Bytes) /\ sent \o tsr \o <<data>> \in Seq(Bytes)
    BY <1>1 DEF IInv, TypeOK
  <2>5. Transmitted' = Transmitted
    BY <2>2, <2>3, <2>4, ConcatEmptySeq
  <2> QED
    BY <2>1, <2>5, <1>2 DEF IInv, SentInv
<1> QED
  BY <1>4, <1>5, <1>6 DEF IInv

(* The transmitter moves bytes on, in order. *)
LEMMA TransmitterStep == IInv /\ (Shift \/ Send) => IInv'
<1> SUFFICES ASSUME IInv, Shift \/ Send PROVE IInv'
  OBVIOUS
<1>1. UNCHANGED <<base, call, step, i, data, ready, dlab, ier, dll, dlm, given, stuck, rbr, arrived, taken>>
  BY DEF Shift, Send, ops, portRegs, rx
<1>2. sent \in Seq(Bytes) /\ tsr \in Seq(Bytes) /\ thr \in Seq(Bytes)
  BY DEF IInv, TypeOK
<1>3. /\ sent' \in Seq(Bytes) /\ tsr' \in Seq(Bytes) /\ thr' \in Seq(Bytes)
      /\ sent' \o tsr' \o thr' = sent \o tsr \o thr
  <2>1. CASE Shift
    <3>1. tsr = << >> /\ tsr' = thr /\ thr' = << >> /\ sent' = sent
      BY <2>1 DEF Shift
    <3>2. sent \o thr \in Seq(Bytes)
      BY <1>2
    <3>3. sent \o << >> = sent /\ (sent \o thr) \o << >> = sent \o thr
      BY <1>2, <3>2, ConcatEmptySeq
    <3> QED
      BY <3>1, <3>3, <1>2
  <2>2. CASE Send
    <3>1. sent' = sent \o tsr /\ tsr' = << >> /\ thr' = thr
      BY <2>2 DEF Send
    <3>2. sent \o tsr \in Seq(Bytes)
      BY <1>2
    <3>3. (sent \o tsr) \o << >> = sent \o tsr
      BY <3>2, ConcatEmptySeq
    <3> QED
      BY <3>1, <3>2, <3>3, <1>2
  <2> QED
    BY <2>1, <2>2
<1>4. TypeOK'
  BY <1>1, <1>3 DEF IInv, TypeOK
<1>5. InitInv' /\ BytesReturnedOnce'
  BY <1>1 DEF IInv, InitInv, BytesReturnedOnce
<1>6. SentInv'
  <2>1. Transmitted' = Transmitted
    BY <1>1, <1>3 DEF Transmitted
  <2> QED
    BY <2>1, <1>1 DEF IInv, SentInv
<1>7. QuietInv'
  <2>1. given # << >>
    BY DEF IInv, QuietInv, TEMT, Shift, Send
  <2> QED
    BY <2>1, <1>1 DEF QuietInv
<1> QED
  BY <1>4, <1>5, <1>6, <1>7 DEF IInv

(* A byte that arrives is kept until it is read. *)
LEMMA ReceiverStep == IInv /\ (Arrive \/ RxGet) => IInv'
<1> SUFFICES ASSUME IInv, Arrive \/ RxGet PROVE IInv'
  OBVIOUS
<1>1. /\ UNCHANGED <<base, step, i, data, ready, dlab, ier, dll, dlm, thr, tsr, given, sent, stuck>>
      /\ call' = call \/ (call = "get" /\ call' = "idle")
  BY DEF Arrive, RxGet, ops, portRegs, tx
<1>2. taken \in Seq(Bytes) /\ rbr \in Seq(Bytes) /\ arrived \in Seq(Bytes) /\ taken \o rbr = arrived
  BY DEF IInv, TypeOK, BytesReturnedOnce
<1>3. /\ taken' \in Seq(Bytes) /\ rbr' \in Seq(Bytes) /\ arrived' \in Seq(Bytes)
      /\ taken' \o rbr' = arrived'
  <2>1. CASE Arrive
    <3>1. PICK b \in Bytes : rbr' = <<b>> /\ arrived' = Append(arrived, b)
      BY <2>1 DEF Arrive
    <3>2. rbr = << >> /\ taken' = taken
      BY <2>1 DEF Arrive
    <3>3. arrived = taken
      BY <1>2, <3>2, ConcatEmptySeq
    <3> QED
      BY <1>2, <3>1, <3>2, <3>3
  <2>2. CASE RxGet /\ i # 0
    <3>1. taken' = taken \o rbr /\ rbr' = << >> /\ arrived' = arrived
      BY <2>2 DEF RxGet
    <3> QED
      BY <1>2, <3>1, ConcatEmptySeq
  <2>3. CASE RxGet /\ i = 0
    BY <2>3, <1>2 DEF RxGet
  <2> QED
    BY <2>1, <2>2, <2>3
<1>4. TypeOK'
  BY <1>1, <1>3 DEF IInv, TypeOK
<1>5. InitInv' /\ QuietInv'
  BY <1>1 DEF IInv, InitInv, QuietInv, TEMT
<1>6. BytesReturnedOnce'
  BY <1>3 DEF BytesReturnedOnce
<1>7. SentInv'
  <2>1. Transmitted' = Transmitted
    BY <1>1 DEF Transmitted
  <2> QED
    BY <2>1, <1>1 DEF IInv, SentInv
<1> QED
  BY <1>4, <1>5, <1>6, <1>7 DEF IInv

LEMMA InductiveStep == IInv /\ [UartNext]_uartVars => IInv'
<1> SUFFICES ASSUME IInv, [UartNext]_uartVars PROVE IInv'
  OBVIOUS
<1>1. CASE UNCHANGED uartVars
  <2>1. UNCHANGED <<base, call, step, i, data, ready, dlab, ier, dll, dlm, thr, tsr, given, sent, stuck,
                    rbr, arrived, taken>>
    BY <1>1 DEF uartVars, ops, portRegs, tx, rx
  <2>2. TypeOK'
    BY <2>1 DEF IInv, TypeOK
  <2>3. InitInv' /\ QuietInv'
    BY <2>1 DEF IInv, InitInv, QuietInv, TEMT
  <2>4. SentInv' /\ BytesReturnedOnce'
    BY <2>1 DEF IInv, SentInv, Transmitted, BytesReturnedOnce
  <2> QED
    BY <2>2, <2>3, <2>4 DEF IInv
<1>2. CASE UartNext
  <2>1. CASE NoPort
    BY <2>1, <1>1 DEF NoPort
  <2> QED
    BY <2>1, <1>2, InitWriteStep, PollStep, BeginStep, GiveStep, PutStep, TransmitterStep, ReceiverStep
       DEF UartNext, Code
<1> QED
  BY <1>1, <1>2

LEMMA Invariance == UartSpec => []IInv
<1>1. UartInit => IInv
  BY InductiveInit
<1>2. IInv /\ [UartNext]_uartVars => IInv'
  BY InductiveStep
<1> QED
  BY <1>1, <1>2, PTL DEF UartSpec

(* Every variable keeps its type: the counter stays in its width. *)
THEOREM TypeCorrect == UartSpec => []TypeOK
<1>1. IInv => TypeOK
  BY DEF IInv
<1> QED
  BY <1>1, Invariance, PTL

(***************************************************************************)
(* For every time-out and counter width: unless the port was not ready at  *)
(* the end of a time-out the bytes go out once and in order; received      *)
(* bytes are returned once and in order, although uart_rx_byte() tests its *)
(* counter after it wrapped; and uart_init() leaves the divisor in its     *)
(* latch and nothing on the line.                                          *)
(***************************************************************************)
THEOREM NoLoss == UartSpec => []NothingLost
<1>1. IInv => NothingLost
  <2> SUFFICES ASSUME IInv PROVE NothingLost
    OBVIOUS
  <2>1. ReadyToSend
    <3>1. ready => ~ dlab /\ ier = 0 /\ dll + 256 * dlm = Divisor
      <4>1. ready => ~ dlab /\ ier = 0 /\ dll = Divisor % 256 /\ dlm = Divisor \div 256
        BY DEF IInv, InitInv
      <4> QED
        BY <4>1, DivisorBytes
    <3> QED
      BY <3>1 DEF IInv, QuietInv, ReadyToSend
  <2> QED
    BY <2>1 DEF IInv, SentInv, NothingLost
<1> QED
  BY <1>1, Invariance, PTL

-----------------------------------------------------------------------------
(* The accessors of drivers/pci.c. *)
(* What the program may ask for. *)
LEMMA AccessFacts ==
  ASSUME NEW a \in Accesses
  PROVE  /\ a.op \in {"read", "write"} /\ a.width \in {1, 2, 4}
         /\ a.reg \in Nat /\ a.reg % a.width = 0
<1>1. ASSUME NEW at \in Places
      PROVE  at[2] \in {1, 2, 4} /\ at[1] \in Nat /\ at[1] % at[2] = 0
  BY PciConfAssumption DEF Places
<1>2. CASE a \in {[op |-> "read", device |-> d, reg |-> at[1], width |-> at[2]] : d \in Devices, at \in Places}
  BY <1>1, <1>2
<1>3. CASE a \in UNION {{[op |-> "write", device |-> d, reg |-> at[1], width |-> at[2], val |-> v] :
                            d \in Devices, v \in [1 .. at[2] -> Values]} : at \in Places}
  <2>1. PICK at \in Places : a \in {[op |-> "write", device |-> d, reg |-> at[1], width |-> at[2], val |-> v] :
                                      d \in Devices, v \in [1 .. at[2] -> Values]}
    BY <1>3
  <2>2. a.op = "write" /\ a.reg = at[1] /\ a.width = at[2]
    BY <2>1
  <2> QED
    BY <1>1, <2>2
<1> QED
  BY <1>2, <1>3 DEF Accesses

(* The port's byte, in the word that the address register selects, is the  *)
(* one that was asked for: no width lands on a neighbour.                  *)
LEMMA LaneOfRegister ==
  ASSUME NEW r \in Nat, NEW w \in {1, 2, 4}, r % w = 0
  PROVE  LET word == r - (r % 4)
             lane == CASE w = 1 -> r % 4 [] w = 2 -> 2 * ((r \div 2) % 2) [] w = 4 -> 0
         IN  (word - (word % 4)) + lane = r
<1>1. (r - (r % 4)) % 4 = 0
  OBVIOUS
<1>2. CASE w = 1
  BY <1>1, <1>2
<1>3. CASE w = 2
  <2>1. r % 2 = 0
    BY <1>3
  <2>2. 2 * ((r \div 2) % 2) = r % 4
    BY <2>1
  <2> QED
    BY <1>1, <1>3, <2>2
<1>4. CASE w = 4
  BY <1>1, <1>4
<1> QED
  BY <1>2, <1>3, <1>4

(* Between the two writes to the bridge the address register belongs to    *)
(* the access that is under way.                                           *)
ConfInv ==
    todo = None \/ (todo \in Accesses
                    /\ conf = [device |-> todo.device, reg |-> todo.reg - (todo.reg % 4)])

LEMMA ConfInvStep == ConfInv /\ [ConfNext]_confVars => ConfInv'
<1> SUFFICES ASSUME ConfInv, [ConfNext]_confVars PROVE ConfInv'
  OBVIOUS
<1>1. ASSUME NEW a \in Accesses, SetAddress(a) PROVE ConfInv'
  BY <1>1 DEF SetAddress, pci_set_conf_addr, ConfInv
<1>2. CASE pci_read_config \/ pci_write_config
  BY <1>2 DEF pci_read_config, pci_write_config, ConfInv
<1>3. CASE UNCHANGED confVars
  BY <1>3 DEF confVars, ConfInv
<1> QED
  BY <1>1, <1>2, <1>3 DEF ConfNext

LEMMA AtRegister ==
  ASSUME ConfInv, todo # None, NEW l \in Int
  PROVE  At(Lane(todo) + l) = todo.reg + l /\ conf.device = todo.device
<1>1. /\ todo \in Accesses /\ conf.device = todo.device /\ conf.reg = todo.reg - (todo.reg % 4)
  BY DEF ConfInv
<1>2. todo.reg \in Nat /\ todo.width \in {1, 2, 4} /\ todo.reg % todo.width = 0
  BY <1>1, AccessFacts
<1>3. (conf.reg - (conf.reg % 4)) + Lane(todo) = todo.reg
  BY <1>1, <1>2, LaneOfRegister DEF Lane
<1>4. conf.reg \in Int /\ Lane(todo) \in Int
  BY <1>1, <1>2 DEF Lane
<1> QED
  BY <1>1, <1>2, <1>3, <1>4 DEF At

LEMMA RefinesNext == ConfInv /\ [ConfNext]_confVars => [Abstract!Next]_<<space, todo, result>>
<1> SUFFICES ASSUME ConfInv, [ConfNext]_confVars PROVE [Abstract!Next]_<<space, todo, result>>
  OBVIOUS
<1>1. ASSUME NEW a \in Accesses, SetAddress(a) PROVE Abstract!Ask
  BY <1>1 DEF SetAddress, Abstract!Ask
<1>2. CASE pci_read_config
  <2>1. todo # None /\ todo.op = "read" /\ todo' = None /\ UNCHANGED space
    BY <1>2 DEF pci_read_config, None
  <2>2. todo.width \in {1, 2, 4}
    BY <2>1, AccessFacts DEF ConfInv
  <2>3. \A k \in 1 .. todo.width : /\ At(Lane(todo) + k - 1) = todo.reg + k - 1
                                  /\ conf.device = todo.device
    <3> TAKE k \in 1 .. todo.width
    <3>1. k \in Int /\ k - 1 \in Int
      BY <2>2
    <3>2. At(Lane(todo) + (k - 1)) = todo.reg + (k - 1) /\ conf.device = todo.device
      BY <2>1, <3>1, AtRegister
    <3>3. Lane(todo) \in Int /\ todo.reg \in Int
      BY <2>1, AccessFacts DEF ConfInv, Lane
    <3> QED
      BY <3>1, <3>2, <3>3
  <2>4. result' = [k \in 1 .. todo.width |-> space[todo.device][todo.reg + k - 1]]
    BY <1>2, <2>3 DEF pci_read_config
  <2> QED
    BY <2>1, <2>4 DEF Abstract!Next, Abstract!Read
<1>3. CASE pci_write_config
  <2>1. todo # None /\ todo.op = "write" /\ todo' = None /\ UNCHANGED result
    BY <1>3 DEF pci_write_config, None
  <2>2. At(Lane(todo)) = todo.reg /\ conf.device = todo.device
    <3>1. At(Lane(todo) + 0) = todo.reg + 0 /\ conf.device = todo.device
      BY <2>1, AtRegister
    <3>2. Lane(todo) \in Int /\ todo.reg \in Int
      BY <2>1, AccessFacts DEF ConfInv, Lane
    <3> QED
      BY <3>1, <3>2
  <2>3. space' = [space EXCEPT ![todo.device] =
                     [r \in Registers |-> IF r \in todo.reg .. todo.reg + todo.width - 1
                                          THEN todo.val[r - todo.reg + 1] ELSE @[r]]]
    BY <1>3, <2>2 DEF pci_write_config
  <2> QED
    BY <2>1, <2>3 DEF Abstract!Next, Abstract!Write
<1>4. CASE UNCHANGED confVars
  BY <1>4 DEF confVars
<1> QED
  BY <1>1, <1>2, <1>3, <1>4 DEF ConfNext, Abstract!Next

(***************************************************************************)
(* The address register and the data port of the bridge implement the      *)
(* array of bytes: reads return and writes change the bytes at their       *)
(* register, for every width and alignment (pci_read_config8() to          *)
(* pci_write_config32()).                                                  *)
(***************************************************************************)
THEOREM Refinement == ConfSpec => ImplementsSpace
<1>1. ConfInit => ConfInv /\ Abstract!Init
  BY DEF ConfInit, ConfInv, Abstract!Init
<1> QED
  BY <1>1, ConfInvStep, RefinesNext, PTL DEF ConfSpec, ImplementsSpace, Abstract!Spec
-----------------------------------------------------------------------------
(* Least finds the least member of a set of numbers up to n, if there is one. *)
LEMMA LeastIs ==
  ASSUME NEW n \in Nat, NEW S, S \subseteq 0 .. n, NEW none
  PROVE  /\ S = {} => Least(S, none) = none
         /\ S # {} => Least(S, none) \in S /\ \A y \in S : Least(S, none) <= y
<1>1. CASE S = {}
  BY <1>1 DEF Least
<1>2. CASE S # {}
  <2>1. \E x \in S : \A y \in S : x <= y
    BY <1>2, LeastExists
  <2> QED
    BY <1>2, <2>1 DEF Least
<1> QED
  BY <1>1, <1>2

(* strcspn() stops at the first character of r, strspn() at the first that is none of a. *)
LEMMA SpanStops ==
  ASSUME NEW t, Len(t) \in Nat, NEW r
  PROVE  /\ strcspn(t, r) \in 0 .. Len(t)
         /\ \A k \in 1 .. strcspn(t, r) : t[k] \notin r
         /\ strcspn(t, r) < Len(t) => t[strcspn(t, r) + 1] \in r
<1> DEFINE S == {k \in 0 .. Len(t) - 1 : t[k + 1] \in r}
           n == strcspn(t, r)
<1>1. S \subseteq 0 .. Len(t)
  OBVIOUS
<1>2. n = Least(S, Len(t))
  BY DEF strcspn
<1>3. /\ S = {} => n = Len(t)
      /\ S # {} => n \in S /\ \A y \in S : n <= y
  <2> HIDE DEF S, n
  <2> QED
    BY <1>1, <1>2, LeastIs
<1> HIDE DEF n
<1>4. n \in 0 .. Len(t)
  BY <1>3
<1>5. ASSUME NEW k \in 1 .. n PROVE t[k] \notin r
  <2>1. k - 1 \in 0 .. Len(t) - 1 /\ (k - 1) + 1 = k /\ ~ (n <= k - 1)
    BY <1>4
  <2>2. k - 1 \notin S
    BY <1>3, <2>1
  <2> QED
    BY <2>1, <2>2
<1>6. ASSUME n < Len(t) PROVE t[n + 1] \in r
  BY <1>3, <1>4, <1>6
<1>7. /\ n \in 0 .. Len(t)
      /\ \A k \in 1 .. n : t[k] \notin r
      /\ n < Len(t) => t[n + 1] \in r
  BY <1>4, <1>5, <1>6
<1> QED
  BY <1>7 DEF n

LEMMA BlanksSkipped ==
  ASSUME NEW t, Len(t) \in Nat, NEW a
  PROVE  /\ strspn(t, a) \in 0 .. Len(t)
         /\ \A k \in 1 .. strspn(t, a) : t[k] \in a
         /\ strspn(t, a) < Len(t) => t[strspn(t, a) + 1] \notin a
<1> DEFINE S == {k \in 0 .. Len(t) - 1 : t[k + 1] \notin a}
           n == strspn(t, a)
<1>1. S \subseteq 0 .. Len(t)
  OBVIOUS
<1>2. n = Least(S, Len(t))
  BY DEF strspn
<1>3. /\ S = {} => n = Len(t)
      /\ S # {} => n \in S /\ \A y \in S : n <= y
  <2> HIDE DEF S, n
  <2> QED
    BY <1>1, <1>2, LeastIs
<1> HIDE DEF n
<1>4. n \in 0 .. Len(t)
  BY <1>3
<1>5. ASSUME NEW k \in 1 .. n PROVE t[k] \in a
  <2>1. k - 1 \in 0 .. Len(t) - 1 /\ (k - 1) + 1 = k /\ ~ (n <= k - 1)
    BY <1>4
  <2>2. k - 1 \notin S
    BY <1>3, <2>1
  <2> QED
    BY <2>1, <2>2
<1>6. ASSUME n < Len(t) PROVE t[n + 1] \notin a
  BY <1>3, <1>4, <1>6
<1>7. /\ n \in 0 .. Len(t)
      /\ \A k \in 1 .. n : t[k] \in a
      /\ n < Len(t) => t[n + 1] \notin a
  BY <1>4, <1>5, <1>6
<1> QED
  BY <1>7 DEF n

(* LastKept is the last character that is no space, or the first one. *)
LEMMA LastKeptIs ==
  ASSUME NEW t, Len(t) \in Nat \ {0}
  PROVE  /\ LastKept(t) \in 1 .. Len(t)
         /\ \A k \in LastKept(t) + 1 .. Len(t) : t[k] \in Spaces
         /\ LastKept(t) = 1 \/ t[LastKept(t)] \notin Spaces
<1> DEFINE n == Len(t)
           Ends == {k \in 1 .. n : \A j \in k + 1 .. n : t[j] \in Spaces}
           S == {k \in Ends : k = 1 \/ t[k] \notin Spaces}
           e == LastKept(t)
<1>1. S \subseteq 0 .. n
  OBVIOUS
<1>2. e = Least(S, n)
  BY DEF LastKept
<1>3. S # {}
  <2>1. CASE \A j \in 2 .. n : t[j] \in Spaces
    <3>1. 1 \in S
      BY <2>1
    <3> QED
      BY <3>1
  <2>2. CASE ~ \A j \in 2 .. n : t[j] \in Spaces
    <3> DEFINE B == {k \in 0 .. n - 1 : t[n - k] \notin Spaces}
    <3>1. PICK j \in 2 .. n : t[j] \notin Spaces
      BY <2>2
    <3>2. n - j \in 0 .. n - 1 /\ n - (n - j) = j
      OBVIOUS
    <3>3. B # {} /\ B \subseteq 0 .. n
      <4>1. n - j \in B
        BY <3>1, <3>2
      <4>2. \A k \in B : k \in 0 .. n
        OBVIOUS
      <4> QED
        BY <4>1, <4>2, Zenon
    <3>4. PICK b \in B : \A y \in B : b <= y
      <4> HIDE DEF B, n
      <4>1. n \in Nat
        BY DEF n
      <4> QED
        BY <3>3, <4>1, LeastExists
    <3>5. n - b \in 1 .. n /\ t[n - b] \notin Spaces
      OBVIOUS
    <3>6. ASSUME NEW k \in (n - b) + 1 .. n PROVE t[k] \in Spaces
      <4>1. n - k \in 0 .. n - 1 /\ n - (n - k) = k /\ ~ (b <= n - k)
        OBVIOUS
      <4>2. n - k \notin B
        BY <3>4, <4>1
      <4> QED
        BY <4>1, <4>2
    <3>7. n - b \in S
      BY <3>5, <3>6
    <3> QED
      BY <3>7
  <2> QED
    BY <2>1, <2>2
<1>4. e \in S
  <2> HIDE DEF S, e
  <2> QED
    BY <1>1, <1>2, <1>3, LeastIs
<1> HIDE DEF e
<1>5. /\ e \in 1 .. n
      /\ \A k \in e + 1 .. n : t[k] \in Spaces
      /\ e = 1 \/ t[e] \notin Spaces
  BY <1>4
<1> QED
  BY <1>5 DEF e

(* What cfg_init() makes of the string t. *)
Trimmed(t) ==
    LET u == From(t, strspn(t, {Blank}))
    IN  IF u = << >> THEN u ELSE SubSeq(u, 1, LastKept(u))

(* The n characters behind the first b of t are all but the spaces around. *)
Remains(t, b, n) ==
    /\ b \in 0 .. Len(t) /\ n \in 0 .. Len(t) - b
    /\ \A k \in 1 .. b : t[k] = Blank
    /\ \A k \in b + n + 1 .. Len(t) : t[k] \in Spaces
    /\ n > 0 => t[b + 1] # Blank /\ (n = 1 \/ t[b + n] \notin Spaces)

(* A part of t, as a sequence of its own. *)
LEMMA PartOf ==
  ASSUME NEW A, NEW t \in Seq(A), NEW b \in Nat, NEW n \in Nat, b + n <= Len(t)
  PROVE  /\ SubSeq(t, b + 1, b + n) \in Seq(A)
         /\ Len(SubSeq(t, b + 1, b + n)) = n
         /\ \A k \in 1 .. n : SubSeq(t, b + 1, b + n)[k] = t[b + k]
OBVIOUS

LEMMA PartOfPart ==
  ASSUME NEW A, NEW t \in Seq(A), NEW b \in Nat, NEW n \in Nat, b + n <= Len(t), NEW e \in 0 .. n
  PROVE  SubSeq(SubSeq(t, b + 1, b + n), 1, e) = SubSeq(t, b + 1, b + e)
<1> DEFINE u == SubSeq(t, b + 1, b + n)
           v == SubSeq(u, 0 + 1, 0 + e)
           w == SubSeq(t, b + 1, b + e)
<1>1. u \in Seq(A) /\ Len(u) = n /\ \A k \in 1 .. n : u[k] = t[b + k]
  BY PartOf
<1> HIDE DEF u
<1>2. v \in Seq(A) /\ Len(v) = e /\ \A k \in 1 .. e : v[k] = u[0 + k]
  BY <1>1, PartOf
<1>3. w \in Seq(A) /\ Len(w) = e /\ \A k \in 1 .. e : w[k] = t[b + k]
  BY PartOf
<1>4. v = SubSeq(u, 1, e)
  OBVIOUS
<1> HIDE DEF v, w
<1>5. ASSUME NEW k \in 1 .. Len(v) PROVE v[k] = w[k]
  BY <1>1, <1>2, <1>3
<1>6. v = w
  BY <1>2, <1>3, <1>5, SeqEqual
<1> QED
  BY <1>4, <1>6 DEF u, w

LEMMA TrimmedIs ==
  ASSUME NEW A, NEW t \in Seq(A)
  PROVE  \E b, n \in 0 .. Len(t) : Remains(t, b, n) /\ Trimmed(t) = SubSeq(t, b + 1, b + n)
<1> DEFINE b == strspn(t, {Blank})
           m == Len(t) - b
           u == SubSeq(t, b + 1, b + m)
<1>1. /\ b \in 0 .. Len(t) /\ \A k \in 1 .. b : t[k] = Blank
      /\ b < Len(t) => t[b + 1] # Blank
  BY BlanksSkipped
<1> HIDE DEF b
<1>2. u \in Seq(A) /\ Len(u) = m /\ \A k \in 1 .. m : u[k] = t[b + k]
  BY <1>1, PartOf
<1>3. u = From(t, b) /\ m \in Nat /\ b \in Nat /\ b + m = Len(t)
  BY <1>1 DEF From
<1>6. Trimmed(t) = IF u = << >> THEN u ELSE SubSeq(u, 1, LastKept(u))
  BY <1>3, Zenon DEF Trimmed, b
<1>7. u = SubSeq(t, b + 1, b + m)
  OBVIOUS
<1> HIDE DEF u
<1>4. CASE m = 0
  <2>1. u = << >>
    BY <1>2, <1>4
  <2>2. Remains(t, b, m)
    BY <1>1, <1>4 DEF Remains
  <2>3. Trimmed(t) = u
    BY <1>6, <2>1, Zenon
  <2>4. m \in 0 .. Len(t)
    BY <1>4
  <2> QED
    BY <1>1, <1>7, <2>2, <2>3, <2>4
<1>5. CASE m > 0
  <2> DEFINE n == LastKept(u)
  <2>1. /\ n \in 1 .. m
        /\ \A k \in n + 1 .. m : u[k] \in Spaces
        /\ n = 1 \/ u[n] \notin Spaces
    BY <1>2, <1>3, <1>5, LastKeptIs
  <2>2. Trimmed(t) = SubSeq(u, 1, n)
    <3>1. u # << >>
      BY <1>2, <1>5
    <3> QED
      BY <1>6, <3>1, Zenon
  <2> HIDE DEF n
  <2>3. SubSeq(u, 1, n) = SubSeq(t, b + 1, b + n)
    <3>1. n \in 0 .. m /\ b + m <= Len(t)
      BY <1>3, <2>1
    <3> QED
      BY <1>3, <1>7, <3>1, PartOfPart
  <2>4. Remains(t, b, n)
    <3>1. n \in 0 .. Len(t) - b /\ n > 0
      BY <1>3, <2>1
    <3>2. ASSUME NEW k \in b + n + 1 .. Len(t) PROVE t[k] \in Spaces
      <4>1. k - b \in n + 1 .. m /\ k - b \in 1 .. m /\ b + (k - b) = k
        BY <1>3, <2>1
      <4>2. u[k - b] \in Spaces /\ u[k - b] = t[k]
        BY <1>2, <2>1, <4>1
      <4> QED
        BY <4>2
    <3>3. t[b + 1] # Blank
      BY <1>1, <1>5
    <3>4. n = 1 \/ t[b + n] \notin Spaces
      BY <1>2, <2>1
    <3> QED
      BY <1>1, <3>1, <3>2, <3>3, <3>4 DEF Remains
  <2>5. n \in 0 .. Len(t)
    BY <1>3, <2>1
  <2> QED
    BY <1>1, <2>2, <2>3, <2>4, <2>5
<1>8. m = 0 \/ m > 0
  <2> HIDE DEF m
  <2> QED
    BY <1>3
<1> QED
  BY <1>4, <1>5, <1>8, Zenon

-----------------------------------------------------------------------------
(***************************************************************************)
(* The string is of the documented format while it grows, and what         *)
(* cfg_init() leaves of it is what is trimmed.                             *)
(***************************************************************************)
CfgInv ==
    /\ WellFormed(value) /\ got \in BOOLEAN
    /\ phase \in {"read", "trim", "ask"}
    /\ phase = "trim" => options = Source
    /\ phase = "ask" => options = Trimmed(Source)

LEMMA CfgInvariance == CfgSpec => []CfgInv
<1>1. CfgInit => CfgInv
  <2>1. << >> \in Seq(Settings \cup Letters \cup Spaces) /\ DOMAIN << >> = {}
    OBVIOUS
  <2>2. WellFormed(<< >>)
    BY <2>1 DEF WellFormed
  <2> QED
    BY <2>2 DEF CfgInit, CfgInv
<1>2. CfgInv /\ [CfgNext]_cfgVars => CfgInv'
  <2> SUFFICES ASSUME CfgInv, [CfgNext]_cfgVars PROVE CfgInv'
    OBVIOUS
  <2>1. CASE Grow
    <3>1. WellFormed(value')
      BY <2>1, Zenon DEF Grow
    <3> QED
      BY <2>1, <3>1 DEF Grow, CfgInv
  <2>2. CASE ReadOptions
    BY <2>2 DEF ReadOptions, CfgInv, Source
  <2>3. CASE Trim
    <3>1. options' = Trimmed(options)
      BY <2>3, Zenon DEF Trim, Trimmed, LeadingBlanks
    <3>2. phase = "trim" /\ phase' = "ask" /\ value' = value /\ got' = got
      BY <2>3 DEF Trim
    <3> QED
      BY <3>1, <3>2 DEF CfgInv, Source
  <2>4. CASE Ask \/ UNCHANGED cfgVars
    BY <2>4 DEF Ask, cfgVars, CfgInv, Source
  <2> QED
    BY <2>1, <2>2, <2>3, <2>4 DEF CfgNext
<1> QED
  BY <1>1, <1>2, PTL DEF CfgSpec

(* The string that is asked about: of the format, with the spaces gone. *)
LEMMA Remaining ==
  ASSUME CfgInv, phase = "ask"
  PROVE  /\ WellFormed(Source)
         /\ \E b, n \in 0 .. Len(Source) :
               Remains(Source, b, n) /\ options = SubSeq(Source, b + 1, b + n)
<1>1. WellFormed(Source) /\ options = Trimmed(Source)
  BY CfgAssumption DEF CfgInv, Source
<1>2. Source \in Seq(Settings \cup Letters \cup Spaces)
  BY <1>1 DEF WellFormed
<1>3. \E b, n \in 0 .. Len(Source) :
         Remains(Source, b, n) /\ Trimmed(Source) = SubSeq(Source, b + 1, b + n)
  BY <1>2, TrimmedIs, Zenon
<1> QED
  BY <1>1, <1>3

(* u is what remains of t, so its k-th character is the (b + k)-th of t. *)
RemainsAs(t, b, n, u) ==
    /\ WellFormed(t) /\ Remains(t, b, n)
    /\ u = SubSeq(t, b + 1, b + n)

(* The characters of u are the n behind the first b of t. *)
PartIs(t, b, n, u) == Len(u) = n /\ \A k \in 1 .. n : u[k] = t[b + k]

LEMMA RemainingPart ==
  ASSUME NEW t, NEW b, NEW n, NEW u, RemainsAs(t, b, n, u)
  PROVE  /\ t \in Seq(Settings \cup Letters \cup Spaces) /\ u \in Seq(Settings \cup Letters \cup Spaces)
         /\ b \in Nat /\ n \in Nat /\ b + n <= Len(t) /\ Len(t) \in Nat /\ Len(u) = n
         /\ \A k \in 1 .. n : u[k] = t[b + k]
         /\ \A k \in 1 .. Len(t) : t[k] \notin Spaces => b < k /\ k <= b + n
         /\ PartIs(t, b, n, u)
<1>1. t \in Seq(Settings \cup Letters \cup Spaces)
  BY DEF RemainsAs, WellFormed
<1>2. Len(t) \in Nat
  BY <1>1
<1>3. b \in 0 .. Len(t) /\ n \in 0 .. Len(t) - b
  BY DEF RemainsAs, Remains
<1>4. b \in Nat /\ n \in Nat /\ b + n <= Len(t)
  BY <1>2, <1>3
<1>5. ASSUME NEW k \in 1 .. Len(t), t[k] \notin Spaces PROVE b < k /\ k <= b + n
  <2>1. Blank \in Spaces
    BY DEF Spaces
  <2>2. k \notin 1 .. b
    BY <1>5, <2>1 DEF RemainsAs, Remains
  <2>3. k \notin b + n + 1 .. Len(t)
    BY <1>5 DEF RemainsAs, Remains
  <2> QED
    BY <1>2, <1>4, <2>2, <2>3
<1>6. u = SubSeq(t, b + 1, b + n)
  BY DEF RemainsAs
<1> QED
  BY <1>1, <1>2, <1>4, <1>5, <1>6, PartOf DEF PartIs

(* strchr() finds a setting where it is written, which is in one place. *)
LEMMA SettingFound ==
  ASSUME NEW t, NEW b, NEW n, NEW u, RemainsAs(t, b, n, u),
         NEW m \in 1 .. Len(t), t[m] \in Settings
  PROVE  strchr(u, t[m]) = m - b - 1 /\ b < m /\ m <= b + n
<1> DEFINE f == strcspn(u, {t[m]})
<1>1. /\ b \in Nat /\ n \in Nat /\ b + n <= Len(t) /\ Len(t) \in Nat /\ Len(u) = n
      /\ \A k \in 1 .. n : u[k] = t[b + k]
      /\ t[m] \notin Spaces => b < m /\ m <= b + n
  BY RemainingPart
<1>2. t[m] \notin Spaces
  BY CfgAssumption
<1>3. /\ f \in 0 .. n
      /\ \A k \in 1 .. f : u[k] \notin {t[m]}
      /\ f < n => u[f + 1] \in {t[m]}
  BY <1>1, SpanStops
<1>4. \A k \in 1 .. Len(t) : t[k] = t[m] => k = m
  <2>1. t \in Seq(Settings \cup Letters \cup Spaces)
    BY RemainingPart
  <2>2. DOMAIN t = 1 .. Len(t)
    BY <2>1
  <2> QED
    BY <2>2 DEF RemainsAs, WellFormed
<1> HIDE DEF f
<1>5. f < n
  <2> SUFFICES ASSUME f = n PROVE FALSE
    BY <1>1, <1>3
  <2>1. m - b \in 1 .. f /\ m - b \in 1 .. n /\ b + (m - b) = m
    BY <1>1, <1>2
  <2> QED
    BY <1>1, <1>3, <2>1
<1>6. f + 1 \in 1 .. n /\ b + (f + 1) \in 1 .. Len(t)
  BY <1>1, <1>3, <1>5
<1>7. t[b + (f + 1)] = t[m]
  BY <1>1, <1>3, <1>5, <1>6
<1>8. b + (f + 1) = m
  BY <1>4, <1>6, <1>7
<1>9. f = m - b - 1
  BY <1>1, <1>3, <1>8
<1>10. strchr(u, t[m]) = f
  BY DEF f, strchr
<1> QED
  BY <1>1, <1>2, <1>9, <1>10

(* What is not written is not found. *)
LEMMA SettingMissing ==
  ASSUME NEW t, NEW b, NEW n, NEW u, RemainsAs(t, b, n, u),
         NEW c, \A m \in 1 .. Len(t) : t[m] # c
  PROVE  strchr(u, c) = n
<1> DEFINE f == strcspn(u, {c})
<1>1. /\ b \in Nat /\ n \in Nat /\ b + n <= Len(t) /\ Len(t) \in Nat /\ Len(u) = n
      /\ \A k \in 1 .. n : u[k] = t[b + k]
  BY RemainingPart
<1>2. /\ f \in 0 .. n
      /\ f < n => u[f + 1] \in {c}
  BY <1>1, SpanStops
<1> HIDE DEF f
<1>3. ASSUME f < n PROVE FALSE
  <2>1. f + 1 \in 1 .. n /\ b + (f + 1) \in 1 .. Len(t)
    BY <1>1, <1>2, <1>3
  <2>2. u[f + 1] = t[b + (f + 1)]
    BY <1>1, <2>1
  <2> QED
    BY <1>2, <1>3, <2>1, <2>2
<1>4. f = n
  BY <1>1, <1>2, <1>3
<1> QED
  BY <1>4 DEF f, strchr

(* The characters from a setting on. *)
LEMMA FromSetting ==
  ASSUME NEW t, NEW b, NEW n, NEW u, RemainsAs(t, b, n, u), NEW m \in b .. b + n
  PROVE  PartIs(t, m, b + n - m, From(u, m - b))
<1>1. /\ u \in Seq(Settings \cup Letters \cup Spaces)
      /\ b \in Nat /\ n \in Nat /\ Len(u) = n
      /\ \A k \in 1 .. n : u[k] = t[b + k]
  BY RemainingPart
<1> DEFINE c == m - b
           r == b + n - m
<1>2. c \in Nat /\ r \in Nat /\ c + r = n
  BY <1>1
<1>3. From(u, c) = SubSeq(u, c + 1, c + r)
  BY <1>1, <1>2 DEF From
<1>4. /\ Len(SubSeq(u, c + 1, c + r)) = r
      /\ \A k \in 1 .. r : SubSeq(u, c + 1, c + r)[k] = u[c + k]
  <2> HIDE DEF c, r
  <2>1. c + r <= Len(u)
    BY <1>1, <1>2
  <2> QED
    BY <1>1, <1>2, <2>1, PartOf
<1>5. ASSUME NEW k \in 1 .. r PROVE From(u, c)[k] = t[m + k]
  <2>1. c + k \in 1 .. n /\ b + (c + k) = m + k
    BY <1>1, <1>2
  <2>2. From(u, c)[k] = u[c + k]
    BY <1>3, <1>4
  <2> QED
    BY <1>1, <2>1, <2>2
<1> QED
  BY <1>3, <1>4, <1>5 DEF PartIs

(* What follows what in a string of the format. *)
LEMMA FormatFacts ==
  ASSUME NEW t, WellFormed(t)
  PROVE  /\ Len(t) \in Nat
         /\ \A k \in 1 .. Len(t) : t[k] \in Settings \cup Letters \cup Spaces
         /\ \A k \in 2 .. Len(t) : t[k] \in Settings => t[k - 1] \in Spaces
         /\ \A k \in 1 .. Len(t) : t[k] \in Settings => \A m \in 1 .. Len(t) : t[m] = t[k] => m = k
<1>1. t \in Seq(Settings \cup Letters \cup Spaces)
  BY DEF WellFormed
<1>2. DOMAIN t = 1 .. Len(t) /\ Len(t) \in Nat
  BY <1>1
<1>3. ASSUME NEW k \in 2 .. Len(t), t[k] \in Settings PROVE t[k - 1] \in Spaces
  <2>1. k \in DOMAIN t /\ k > 1
    BY <1>2
  <2> QED
    BY <1>3, <2>1, Zenon DEF WellFormed
<1>4. ASSUME NEW k \in 1 .. Len(t), t[k] \in Settings, NEW m \in 1 .. Len(t), t[m] = t[k] PROVE m = k
  BY <1>2, <1>4 DEF WellFormed
<1> QED
  BY <1>1, <1>2, <1>3, <1>4

(* The part of the string that cfg_is_option() searches: w up to z. *)
Reaches(t, b, n, m, w, z) ==
    /\ b \in Nat /\ n \in Nat /\ b < m /\ m <= b + n /\ b + n <= Len(t)
    /\ z \in 0 .. b + n - m + 1
    /\ \A k \in 1 .. b + n - m + 1 : w[k] = t[m - 1 + k]
    /\ \A k \in 1 .. z : w[k] # Blank
    /\ z < b + n - m + 1 => w[z + 1] = Blank

LEMMA Searched ==
  ASSUME NEW t, NEW b, NEW n, NEW u, RemainsAs(t, b, n, u),
         NEW m \in 1 .. Len(t), t[m] \in Settings
  PROVE  Reaches(t, b, n, m, From(u, strchr(u, t[m])), strcspn(From(u, strchr(u, t[m])), {Blank}))
<1> DEFINE a == m - 1
           w == From(u, a - b)
           z == strcspn(w, {Blank})
<1>1. b \in Nat /\ n \in Nat /\ b + n <= Len(t) /\ Len(t) \in Nat
  BY RemainingPart
<1>2. strchr(u, t[m]) = m - b - 1 /\ b < m /\ m <= b + n
  BY SettingFound
<1>3. m - b - 1 = a - b /\ a \in b .. b + n /\ b + n - a = b + n - m + 1
  BY <1>1, <1>2
<1>4. w = From(u, strchr(u, t[m]))
  BY <1>2, <1>3
<1>5. /\ Len(w) = b + n - a
      /\ \A k \in 1 .. b + n - a : w[k] = t[a + k]
  <2> HIDE DEF a
  <2>1. PartIs(t, a, b + n - a, w)
    BY <1>3, FromSetting
  <2> QED
    BY <2>1, Zenon DEF PartIs
<1>6. Len(w) \in Nat
  BY <1>1, <1>3, <1>5
<1> HIDE DEF w
<1>7. /\ z \in 0 .. Len(w)
      /\ \A k \in 1 .. z : w[k] \notin {Blank}
      /\ z < Len(w) => w[z + 1] \in {Blank}
  BY <1>6, SpanStops
<1> HIDE DEF z
<1>8. /\ z \in 0 .. b + n - m + 1
      /\ \A k \in 1 .. b + n - m + 1 : w[k] = t[m - 1 + k]
      /\ \A k \in 1 .. z : w[k] # Blank
      /\ z < b + n - m + 1 => w[z + 1] = Blank
  BY <1>3, <1>5, <1>7
<1>9. Reaches(t, b, n, m, w, z)
  BY <1>1, <1>2, <1>8, Zenon DEF Reaches
<1> QED
  BY <1>4, <1>9 DEF z

LEMMA OptionFound ==
  ASSUME CfgInv, phase = "ask", Separated(Source), NEW c \in Settings, NEW o \in Letters,
         cfg_is_option(c, o)
  PROVE  HasOption(Source, c, o)
<1> DEFINE t == Source
<1>1. PICK b \in 0 .. Len(t), n \in 0 .. Len(t) : RemainsAs(t, b, n, options)
  BY Remaining DEF RemainsAs
<1>2. /\ Len(t) \in Nat
      /\ \A k \in 1 .. Len(t) : t[k] \in Settings \cup Letters \cup Spaces
      /\ \A k \in 2 .. Len(t) : t[k] \in Settings => t[k - 1] \in Spaces
  BY <1>1, FormatFacts DEF RemainsAs
<1>0. DOMAIN t = 1 .. Len(t)
  <2>1. t \in Seq(Settings \cup Letters \cup Spaces)
    BY <1>1 DEF RemainsAs, WellFormed
  <2> QED
    BY <2>1
<1>3. Separated(t)
  OBVIOUS
<1> HIDE DEF t
<1>4. \E m \in 1 .. Len(t) : t[m] = c
  <2> SUFFICES ASSUME \A m \in 1 .. Len(t) : t[m] # c PROVE FALSE
    OBVIOUS
  <2> DEFINE w == From(options, strchr(options, c))
  <2>1. strchr(options, c) = n
    BY <1>1, SettingMissing
  <2>2. b \in Nat /\ n \in Nat /\ n = (b + n) - b /\ b + n \in b .. b + n /\ b + n - (b + n) = 0
    BY <1>2
  <2>3. Len(From(options, (b + n) - b)) = b + n - (b + n)
    BY <1>1, <2>2, FromSetting DEF PartIs
  <2>4. Len(w) = 0
    BY <2>1, <2>2, <2>3
  <2> HIDE DEF w
  <2>5. strcspn(w, {Blank}) \in 0 .. 0
    BY <2>4, SpanStops
  <2>6. \E k \in 1 .. strcspn(w, {Blank}) : w[k] = o
    BY DEF cfg_is_option, w
  <2> QED
    BY <2>5, <2>6
<1>5. PICK m \in 1 .. Len(t) : t[m] = c
  BY <1>4
<1> DEFINE w == From(options, strchr(options, t[m]))
           z == strcspn(w, {Blank})
<1>6. /\ b \in Nat /\ n \in Nat /\ b < m /\ m <= b + n /\ b + n <= Len(t)
      /\ z \in 0 .. b + n - m + 1
      /\ \A k \in 1 .. b + n - m + 1 : w[k] = t[m - 1 + k]
      /\ \A k \in 1 .. z : w[k] # Blank
  <2>1. t[m] \in Settings
    BY <1>5
  <2>2. Reaches(t, b, n, m, w, z)
    BY <1>1, <2>1, Searched
  <2> QED
    BY <2>2, Zenon DEF Reaches
<1>7. \E k \in 1 .. z : w[k] = o
  BY <1>5 DEF cfg_is_option
<1> HIDE DEF w, z
<1>8. PICK k \in 1 .. z : w[k] = o
  BY <1>7
<1> DEFINE y == m - 1 + k
<1>9. k \in 1 .. b + n - m + 1 /\ y \in 1 .. Len(t) /\ m <= y
  BY <1>2, <1>6
<1>10. t[y] = o
  BY <1>6, <1>8, <1>9
<1>11. m < y
  <2>1. t[m] # t[y]
    BY <1>5, <1>10, CfgAssumption
  <2> QED
    BY <1>9, <2>1
<1> DEFINE Inside == m .. y
<1>12. ASSUME NEW l \in m .. y PROVE t[l] \notin Spaces /\ l \in 1 .. Len(t)
  <2>1. l - m + 1 \in 1 .. k /\ l - m + 1 \in 1 .. z /\ l - m + 1 \in 1 .. b + n - m + 1
        /\ m - 1 + (l - m + 1) = l /\ l \in 1 .. Len(t)
    BY <1>2, <1>6, <1>9
  <2>2. t[l] # Blank
    BY <1>6, <2>1
  <2>3. ASSUME t[l] = NewLine PROVE FALSE
    <3>1. y \in l .. Len(t)
      BY <1>2, <1>9
    <3>2. t[y] \in Spaces
      BY <1>0, <1>3, <2>1, <2>3, <3>1 DEF Separated
    <3> QED
      BY <1>10, <3>2, CfgAssumption
  <2> QED
    BY <2>1, <2>2, <2>3 DEF Spaces
<1> HIDE DEF y
<1>13. ASSUME NEW l \in m + 1 .. y PROVE t[l] \in Letters
  <2>1. l \in m .. y /\ l - 1 \in m .. y /\ l \in 2 .. Len(t)
    BY <1>2, <1>9, <1>12
  <2>2. t[l] \notin Spaces /\ t[l - 1] \notin Spaces
    BY <1>12, <2>1
  <2>3. t[l] \notin Settings
    BY <1>2, <2>1, <2>2
  <2> QED
    BY <1>2, <2>1, <2>2, <2>3
<1>14. m \in DOMAIN t /\ y \in DOMAIN t
  BY <1>0, <1>9
<1> QED
  BY <1>5, <1>10, <1>11, <1>13, <1>14 DEF HasOption, t

LEMMA OptionNotMissed ==
  ASSUME CfgInv, phase = "ask", NEW c \in Settings, NEW o \in Letters,
         HasOption(Source, c, o)
  PROVE  cfg_is_option(c, o)
<1> DEFINE t == Source
<1>1. PICK b \in 0 .. Len(t), n \in 0 .. Len(t) : RemainsAs(t, b, n, options)
  BY Remaining DEF RemainsAs
<1>2. Len(t) \in Nat /\ DOMAIN t = 1 .. Len(t)
  <2>1. t \in Seq(Settings \cup Letters \cup Spaces)
    BY <1>1 DEF RemainsAs, WellFormed
  <2> QED
    BY <2>1
<1>3. PICK m \in 1 .. Len(t), y \in 1 .. Len(t) :
          m < y /\ t[m] = c /\ t[y] = o /\ \A l \in m + 1 .. y : t[l] \in Letters
  BY <1>2, Zenon DEF HasOption
<1> HIDE DEF t
<1> DEFINE w == From(options, strchr(options, t[m]))
           z == strcspn(w, {Blank})
<1>4. /\ b \in Nat /\ n \in Nat /\ b < m /\ m <= b + n /\ b + n <= Len(t)
      /\ z \in 0 .. b + n - m + 1
      /\ \A k \in 1 .. b + n - m + 1 : w[k] = t[m - 1 + k]
      /\ z < b + n - m + 1 => w[z + 1] = Blank
  <2>1. t[m] \in Settings
    BY <1>3
  <2>2. Reaches(t, b, n, m, w, z)
    BY <1>1, <2>1, Searched
  <2> QED
    BY <2>2, Zenon DEF Reaches
<1>5. y <= b + n
  <2>1. t[y] \notin Spaces
    BY <1>3, CfgAssumption
  <2> QED
    BY <1>1, <2>1, RemainingPart
<1> HIDE DEF w, z
<1> DEFINE k == y - m + 1
<1>6. k \in 1 .. b + n - m + 1 /\ m - 1 + k = y
  BY <1>2, <1>3, <1>4, <1>5
<1>7. ASSUME z < k PROVE FALSE
  <2>1. z < b + n - m + 1 /\ z + 1 \in 1 .. b + n - m + 1 /\ m - 1 + (z + 1) \in m .. y
    BY <1>4, <1>6, <1>7
  <2>2. t[m - 1 + (z + 1)] = Blank
    BY <1>4, <2>1
  <2>3. m - 1 + (z + 1) = m \/ m - 1 + (z + 1) \in m + 1 .. y
    BY <1>4, <2>1
  <2>4. Blank \notin Settings \cup Letters
    BY CfgAssumption DEF Spaces
  <2> QED
    BY <1>3, <2>2, <2>3, <2>4
<1>8. k \in 1 .. z
  BY <1>4, <1>6, <1>7
<1>9. w[k] = o
  BY <1>3, <1>4, <1>6
<1> HIDE DEF k
<1> QED
  BY <1>3, <1>8, <1>9, Zenon DEF cfg_is_option, w, z

(* What cfg_get_option() points at. *)
LEMMA LevelFound == CfgInv => LevelAsWritten
<1> SUFFICES ASSUME CfgInv, phase = "ask" PROVE LevelAsWritten
  BY DEF LevelAsWritten
<1> DEFINE t == Source
<1>1. PICK b \in 0 .. Len(t), n \in 0 .. Len(t) : RemainsAs(t, b, n, options)
  BY Remaining DEF RemainsAs
<1>2. t \in Seq(Settings \cup Letters \cup Spaces) /\ options \in Seq(Settings \cup Letters \cup Spaces)
  BY <1>1, RemainingPart
<1>4. /\ \A k \in 1 .. Len(t) : t[k] \in Settings \cup Letters \cup Spaces
      /\ \A k \in 2 .. Len(t) : t[k] \in Settings => t[k - 1] \in Spaces
  BY <1>1, FormatFacts DEF RemainsAs
<1> HIDE DEF t
<1>12. ASSUME NEW a \in b .. b + n
       PROVE  PartIs(t, a, b + n - a, From(options, a - b))
  BY <1>1, FromSetting
<1> SUFFICES ASSUME NEW m \in DOMAIN t, t[m] \in Settings
             PROVE  LET w == cfg_get_option(t[m])
                    IN  IF m < Len(t) /\ t[m + 1] \in Letters
                        THEN w # << >> /\ w[1] = t[m + 1]
                        ELSE w = << >> \/ w[1] \in Spaces
  BY Zenon DEF LevelAsWritten, t
<1> DEFINE w == From(options, strchr(options, t[m]) + 1)
<1>3. Len(t) \in Nat /\ m \in 1 .. Len(t) /\ t[m] \in Settings
  BY <1>2
<1>5. strchr(options, t[m]) = m - b - 1 /\ b < m /\ m <= b + n
  BY <1>1, <1>3, SettingFound
<1>6. /\ b \in Nat /\ n \in Nat /\ b + n <= Len(t)
      /\ \A k \in 1 .. Len(t) : t[k] \notin Spaces => b < k /\ k <= b + n
  BY <1>1, RemainingPart
<1>7. strchr(options, t[m]) + 1 = m - b /\ m \in b .. b + n
  BY <1>3, <1>5, <1>6
<1>8. /\ Len(w) = b + n - m
      /\ \A k \in 1 .. b + n - m : w[k] = t[m + k]
  <2>1. PartIs(t, m, b + n - m, From(options, m - b))
    BY <1>7, <1>12
  <2>2. w = From(options, m - b)
    BY <1>7
  <2> HIDE DEF w
  <2> QED
    BY <2>1, <2>2, Zenon DEF PartIs
<1>9. w = << >> <=> Len(w) = 0
  <2>1. w \in Seq(Settings \cup Letters \cup Spaces)
    BY <1>2, <1>3, <1>5, <1>6, <1>7 DEF From
  <2> QED
    BY <2>1
<1> HIDE DEF w
<1>10. CASE m < Len(t) /\ t[m + 1] \in Letters
  <2>1. m + 1 \in 1 .. Len(t) /\ t[m + 1] \notin Spaces
    BY <1>3, <1>10, CfgAssumption
  <2>2. b + n - m >= 1 /\ 1 \in 1 .. b + n - m
    BY <1>3, <1>6, <2>1
  <2>3. w # << >> /\ w[1] = t[m + 1]
    BY <1>8, <1>9, <2>2
  <2> QED
    BY <1>10, <2>3, Zenon DEF cfg_get_option, w
<1>11. CASE ~ (m < Len(t) /\ t[m + 1] \in Letters)
  <2>1. ASSUME w # << >> PROVE w[1] \in Spaces
    <3>1. 1 \in 1 .. b + n - m /\ m < Len(t) /\ m + 1 \in 1 .. Len(t) /\ m + 1 \in 2 .. Len(t) /\ (m + 1) - 1 = m
      BY <1>3, <1>6, <1>7, <1>8, <1>9, <2>1
    <3>2. t[m] \notin Spaces
      BY <1>3, CfgAssumption
    <3>3. t[m + 1] \notin Settings
      BY <1>4, <3>1, <3>2
    <3>4. t[m + 1] \in Spaces
      BY <1>4, <1>11, <3>1, <3>3
    <3> QED
      BY <1>8, <3>1, <3>4
  <2> QED
    BY <1>11, <2>1, Zenon DEF cfg_get_option, w
<1> QED
  BY <1>10, <1>11

(* Only spaces are taken off, and all of them at the ends. *)
LEMMA SpacesRemoved == CfgInv => OnlyBlanksRemoved
<1> DEFINE t == Source
<1> SUFFICES ASSUME CfgInv, phase = "ask" PROVE OnlyBlanksRemoved
  BY DEF OnlyBlanksRemoved
<1>1. PICK b \in 0 .. Len(t), n \in 0 .. Len(t) : RemainsAs(t, b, n, options)
  BY Remaining DEF RemainsAs
<1> HIDE DEF t
<1>2. /\ t \in Seq(Settings \cup Letters \cup Spaces)
      /\ b \in Nat /\ n \in Nat /\ b + n <= Len(t) /\ Len(t) \in Nat /\ Len(options) = n
      /\ \A k \in 1 .. n : options[k] = t[b + k]
      /\ \A k \in 1 .. Len(t) : t[k] \notin Spaces => b < k /\ k <= b + n
  <2>1. PartIs(t, b, n, options)
    BY <1>1, RemainingPart
  <2>2. \A k \in 1 .. n : options[k] = t[b + k]
    BY <2>1, Zenon DEF PartIs
  <2> QED
    BY <1>1, <2>2, RemainingPart
<1>3. DOMAIN t = 1 .. Len(t)
  BY <1>2
<1> SUFFICES ASSUME NEW x \in DOMAIN t, t[x] \notin Spaces
             PROVE  /\ \E a \in 0 .. Len(t) :
                          /\ options = SubSeq(t, a + 1, a + Len(options))
                          /\ \A k \in DOMAIN t : k <= a \/ k > a + Len(options) => t[k] \in Spaces
                    /\ options[1] # Blank /\ options[Len(options)] \notin Spaces
  BY Zenon DEF OnlyBlanksRemoved, t
<1>4. n > 0 /\ b < x /\ x <= b + n /\ x \in 1 .. Len(t)
  BY <1>2, <1>3
<1>5. t[b + 1] # Blank /\ (n = 1 \/ t[b + n] \notin Spaces)
  BY <1>1, <1>4 DEF RemainsAs, Remains
<1>6. options = SubSeq(t, b + 1, b + Len(options))
  BY <1>1, <1>2 DEF RemainsAs
<1>7. ASSUME NEW k \in DOMAIN t, k <= b \/ k > b + Len(options) PROVE t[k] \in Spaces
  BY <1>2, <1>3, <1>7
<1>8. options[1] # Blank
  BY <1>2, <1>4, <1>5
<1>9. options[n] \notin Spaces
  <2>1. options[n] = t[b + n]
    BY <1>2, <1>4
  <2>2. CASE n = 1
    <3>1. x = b + n
      BY <1>2, <1>4, <2>2
    <3> QED
      BY <2>1, <3>1
  <2> QED
    BY <1>5, <2>1, <2>2
<1> QED
  BY <1>2, <1>6, <1>7, <1>8, <1>9

(***************************************************************************)
(* cfg_is_option() and cfg_get_option() answer what the documented format  *)
(* means and cfg_init() takes nothing but spaces off the ends, for every   *)
(* alphabet and every string of the format, of any length.                 *)
(***************************************************************************)
THEOREM AnswersAsWritten == CfgSpec => []OptionsAsWritten
<1>1. CfgInv => OwnOptions
  BY OptionFound, OptionNotMissed, Zenon DEF OwnOptions
<1>2. CfgInv => OptionsAsWritten
  BY <1>1, LevelFound, SpacesRemoved DEF OptionsAsWritten
<1> QED
  BY <1>2, CfgInvariance, PTL
-----------------------------------------------------------------------------
(***************************************************************************)
(* What FlattenSeq computes: f joins the first 1, ..., n members of ss.    *)
(***************************************************************************)
Joined(x, y) == x \o y
Joins(ss, n, f) ==
    /\ f = [k \in 1 .. n |-> f[k]]
    /\ n > 0 => f[1] = ss[1]
    /\ \A k \in 2 .. n : f[k] = Joined(f[k - 1], ss[k])

LEMMA JoinsExist ==
  ASSUME NEW ss, NEW n \in Nat
  PROVE  \E f : Joins(ss, n, f)
<1> DEFINE T == {k \in 0 .. n : \E f : Joins(ss, k, f)}
<1>1. 0 \in T
  <2> DEFINE f == [k \in 1 .. 0 |-> << >>]
  <2>1. Joins(ss, 0, f)
    BY DEF Joins
  <2> QED
    BY <2>1
<1>2. ASSUME NEW k \in 0 .. n - 1, k \in T PROVE k + 1 \in T
  <2>1. PICK f : Joins(ss, k, f)
    BY <1>2
  <2> DEFINE g == [j \in 1 .. k + 1 |-> IF j < k + 1 THEN f[j] ELSE IF j = 1 THEN ss[1] ELSE Joined(f[k], ss[j])]
  <2>2. g = [j \in 1 .. k + 1 |-> g[j]]
    OBVIOUS
  <2>3. /\ \A j \in 1 .. k : g[j] = f[j]
        /\ k = 0 => g[1] = ss[1]
        /\ k > 0 => g[k + 1] = Joined(f[k], ss[k + 1])
    OBVIOUS
  <2> HIDE DEF g
  <2>4. g[1] = ss[1]
    BY <2>1, <2>3 DEF Joins
  <2>5. ASSUME NEW j \in 2 .. k + 1 PROVE g[j] = Joined(g[j - 1], ss[j])
    <3>1. CASE j = k + 1
      <4>1. k > 0 /\ k \in 1 .. k /\ j - 1 = k
        BY <3>1
      <4> QED
        BY <2>3, <3>1, <4>1
    <3>2. CASE j # k + 1
      <4>1. j \in 2 .. k /\ j \in 1 .. k /\ j - 1 \in 1 .. k
        BY <3>2
      <4> QED
        BY <2>1, <2>3, <4>1 DEF Joins
    <3> QED
      BY <3>1, <3>2
  <2>6. Joins(ss, k + 1, g)
    BY <2>2, <2>4, <2>5 DEF Joins
  <2>7. k + 1 \in 0 .. n
    OBVIOUS
  <2> QED
    BY <2>6, <2>7
<1> HIDE DEF T
<1>3. \A k \in 0 .. n : k \in T
  BY <1>1, <1>2, IntervalInduction
<1>4. n \in T
  BY <1>3
<1> QED
  BY <1>4 DEF T

LEMMA FlattenIs ==
  ASSUME NEW ss, Len(ss) \in Nat \ {0}
  PROVE  \E f : Joins(ss, Len(ss), f) /\ FlattenSeq(ss) = f[Len(ss)]
<1> DEFINE n == Len(ss)
           P(g) == g = [k \in 1 .. n |-> IF k = 1 THEN ss[k] ELSE Joined(g[k - 1], ss[k])]
           e == CHOOSE g : P(g)
<1>1. PICK f : Joins(ss, n, f)
  BY JoinsExist
<1>2. P(f)
  <2>1. f = [k \in 1 .. n |-> f[k]]
    BY <1>1 DEF Joins
  <2>2. ASSUME NEW k \in 1 .. n PROVE f[k] = IF k = 1 THEN ss[k] ELSE Joined(f[k - 1], ss[k])
    <3>1. CASE k = 1
      BY <1>1, <3>1 DEF Joins
    <3>2. CASE k # 1
      <4>1. k \in 2 .. n
        BY <3>2
      <4> QED
        BY <1>1, <3>2, <4>1 DEF Joins
    <3> QED
      BY <3>1, <3>2
  <2> QED
    BY <2>1, <2>2
<1>3. FlattenSeq(ss) = e[n]
  BY DEF FlattenSeq, Joined
<1> HIDE DEF P
<1>4. P(e)
  BY <1>2
<1>5. e = [k \in 1 .. n |-> IF k = 1 THEN ss[k] ELSE Joined(e[k - 1], ss[k])]
  BY <1>4 DEF P
<1> HIDE DEF e
<1>6. Joins(ss, n, e)
  BY <1>5 DEF Joins
<1> QED
  BY <1>3, <1>6

(* Sequences that begin alike are joined alike, as far as they do. *)
LEMMA JoinsAlike ==
  ASSUME NEW ss, NEW n \in Nat, NEW f, Joins(ss, n, f),
         NEW us, NEW m \in Nat, NEW g, Joins(us, m, g),
         n <= m, \A k \in 1 .. n : ss[k] = us[k]
  PROVE  \A k \in 1 .. n : f[k] = g[k]
<1> DEFINE T == {k \in 0 .. n : k = 0 \/ f[k] = g[k]}
<1>1. 0 \in T
  OBVIOUS
<1>2. ASSUME NEW k \in 0 .. n - 1, k \in T PROVE k + 1 \in T
  <2>1. CASE k = 0
    <3>1. 1 \in 1 .. n
      BY <2>1
    <3>2. f[1] = g[1]
      BY <3>1 DEF Joins
    <3> QED
      BY <2>1, <3>2
  <2>2. CASE k # 0
    <3>1. k + 1 \in 2 .. n /\ k + 1 \in 2 .. m /\ (k + 1) - 1 = k /\ f[k] = g[k] /\ k + 1 \in 1 .. n
      BY <1>2, <2>2
    <3>2. f[k + 1] = Joined(f[k], ss[k + 1]) /\ g[k + 1] = Joined(g[k], us[k + 1])
      BY <3>1 DEF Joins
    <3>3. f[k + 1] = g[k + 1]
      BY <3>1, <3>2
    <3> QED
      BY <3>1, <3>3
  <2> QED
    BY <2>1, <2>2
<1> HIDE DEF T
<1>3. \A k \in 0 .. n : k \in T
  BY <1>1, <1>2, IntervalInduction
<1> QED
  BY <1>3 DEF T

(* Nothing is joined to nothing, and one more sequence comes at the end. *)
LEMMA FlattenEmpty == FlattenSeq(<< >>) = << >>
BY DEF FlattenSeq

LEMMA FlattenAppend ==
  ASSUME NEW A, NEW ss \in Seq(Seq(A)), NEW x \in Seq(A)
  PROVE  FlattenSeq(Append(ss, x)) = FlattenSeq(ss) \o x
<1> DEFINE us == Append(ss, x)
           n == Len(ss)
<1>1. /\ n \in Nat /\ Len(us) = n + 1 /\ us[n + 1] = x
      /\ \A k \in 1 .. n : us[k] = ss[k]
  OBVIOUS
<1> HIDE DEF us
<1>2. PICK g : Joins(us, n + 1, g) /\ FlattenSeq(us) = g[n + 1]
  BY <1>1, FlattenIs
<1>3. CASE n = 0
  <2>1. ss = << >>
    BY <1>3
  <2>2. << >> \o x = x
    OBVIOUS
  <2>3. g[n + 1] = x
    BY <1>1, <1>2, <1>3 DEF Joins
  <2> QED
    BY <1>2, <2>1, <2>2, <2>3, FlattenEmpty DEF us
<1>4. CASE n > 0
  <2>1. PICK f : Joins(ss, n, f) /\ FlattenSeq(ss) = f[n]
    BY <1>1, <1>4, FlattenIs
  <2>2. \A k \in 1 .. n : f[k] = g[k]
    <3> DEFINE m == n + 1
    <3>1. n \in Nat /\ m \in Nat /\ n <= m /\ \A k \in 1 .. n : ss[k] = us[k]
      BY <1>1
    <3>2. Joins(us, m, g)
      BY <1>2
    <3> HIDE DEF n, m
    <3> QED
      BY <2>1, <3>1, <3>2, JoinsAlike
  <2>3. n + 1 \in 2 .. n + 1 /\ (n + 1) - 1 = n /\ n \in 1 .. n
    BY <1>1, <1>4
  <2>4. g[n + 1] = g[n] \o x
    BY <1>1, <1>2, <2>3 DEF Joins, Joined
  <2> QED
    BY <1>2, <2>1, <2>2, <2>3, <2>4 DEF us
<1> QED
  BY <1>1, <1>3, <1>4

LEMMA FlattenType ==
  ASSUME NEW A, NEW ss \in Seq(Seq(A))
  PROVE  FlattenSeq(ss) \in Seq(A)
<1> DEFINE n == Len(ss)
<1>1. CASE n = 0
  <2>1. ss = << >>
    BY <1>1
  <2>2. << >> \in Seq(A)
    OBVIOUS
  <2> QED
    BY <2>1, <2>2, FlattenEmpty
<1>2. CASE n > 0
  <2>1. n \in Nat
    OBVIOUS
  <2>2. PICK f : Joins(ss, n, f) /\ FlattenSeq(ss) = f[n]
    BY <1>2, <2>1, FlattenIs
  <2> DEFINE T == {k \in 0 .. n : k = 0 \/ f[k] \in Seq(A)}
  <2>3. 0 \in T
    OBVIOUS
  <2>4. ASSUME NEW k \in 0 .. n - 1, k \in T PROVE k + 1 \in T
    <3>1. k + 1 \in 1 .. n /\ ss[k + 1] \in Seq(A)
      OBVIOUS
    <3>2. f[k + 1] \in Seq(A)
      <4>1. CASE k = 0
        BY <2>2, <3>1, <4>1 DEF Joins
      <4>2. CASE k # 0
        <5>1. k + 1 \in 2 .. n /\ (k + 1) - 1 = k /\ f[k] \in Seq(A)
          BY <2>4, <3>1, <4>2
        <5>2. f[k + 1] = f[k] \o ss[k + 1]
          BY <2>2, <5>1 DEF Joins, Joined
        <5> QED
          BY <3>1, <5>1, <5>2
      <4> QED
        BY <4>1, <4>2
    <3> QED
      BY <3>1, <3>2
  <2> HIDE DEF T
  <2>5. \A k \in 0 .. n : k \in T
    BY <2>1, <2>3, <2>4, IntervalInduction
  <2>6. n \in T
    BY <2>1, <2>5
  <2>7. f[n] \in Seq(A)
    BY <1>2, <2>6 DEF T
  <2> QED
    BY <2>2, <2>7
<1> QED
  BY <1>1, <1>2

-----------------------------------------------------------------------------
(* Texts, what the drivers are given of them, and what of a character. *)
Letter == Chars \cup {LF}
Byte == Chars \cup {CR, LF}
Char(c) == IF c = LF THEN <<CR, LF>> ELSE <<c>>
Body(t) == FlattenSeq([k \in 1 .. Len(t) |-> Char(t[k])])
Wanted(ts) == FlattenSeq([k \in 1 .. Len(ts) |-> Expanded(ts[k])])

(* The first k characters of t as they come out, with the end behind them all. *)
Upto(t, k) == IF k > Len(t) THEN Expanded(t) ELSE Body(SubSeq(t, 1, k))

LEMMA CharType == ASSUME NEW c \in Letter PROVE Char(c) \in Seq(Byte)
<1>1. c \in Byte /\ CR \in Byte /\ LF \in Byte
  BY DEF Letter, Byte
<1>2. <<c>> \in Seq(Byte) /\ <<CR, LF>> \in Seq(Byte)
  BY <1>1
<1> QED
  BY <1>2 DEF Char
LEMMA BodyFacts ==
  ASSUME NEW t \in Seq(Letter)
  PROVE  /\ [k \in 1 .. Len(t) |-> Char(t[k])] \in Seq(Seq(Byte))
         /\ Body(t) \in Seq(Byte)
         /\ Expanded(t) = Body(t) \o <<CR, LF>> /\ Expanded(t) \in Seq(Byte)
<1> DEFINE m == [k \in 1 .. Len(t) |-> Char(t[k])]
<1>1. \A k \in 1 .. Len(t) : Char(t[k]) \in Seq(Byte)
  BY CharType
<1>2. m \in Seq(Seq(Byte))
  BY <1>1
<1>3. Body(t) \in Seq(Byte)
  BY <1>2, FlattenType DEF Body
<1>4. Expanded(t) = Body(t) \o <<CR, LF>>
  BY DEF Expanded, Body, Char
<1>5. <<CR, LF>> \in Seq(Byte)
  BY DEF Byte
<1>6. Body(t) \o <<CR, LF>> \in Seq(Byte)
  BY <1>3, <1>5
<1> QED
  BY <1>2, <1>3, <1>4, <1>6

LEMMA BodyEmpty == Body(<< >>) = << >>
<1>1. [k \in 1 .. Len(<< >>) |-> Char(<< >>[k])] = << >>
  OBVIOUS
<1> QED
  BY <1>1, FlattenEmpty DEF Body

LEMMA BodyAppend ==
  ASSUME NEW t \in Seq(Letter), NEW c \in Letter
  PROVE  Body(Append(t, c)) = Body(t) \o Char(c)
<1> DEFINE m == [k \in 1 .. Len(t) |-> Char(t[k])]
           u == Append(t, c)
<1>1. [k \in 1 .. Len(u) |-> Char(u[k])] = Append(m, Char(c))
  OBVIOUS
<1>2. m \in Seq(Seq(Byte))
  BY BodyFacts
<1>3. Char(c) \in Seq(Byte)
  BY CharType
<1> HIDE DEF m, u
<1>4. FlattenSeq(Append(m, Char(c))) = FlattenSeq(m) \o Char(c)
  BY <1>2, <1>3, FlattenAppend
<1> QED
  BY <1>1, <1>4 DEF Body, m, u

LEMMA WantedFacts ==
  ASSUME NEW ts \in Seq(Seq(Letter))
  PROVE  /\ [k \in 1 .. Len(ts) |-> Expanded(ts[k])] \in Seq(Seq(Byte))
         /\ Wanted(ts) \in Seq(Byte)
<1> DEFINE m == [k \in 1 .. Len(ts) |-> Expanded(ts[k])]
<1>1. \A k \in 1 .. Len(ts) : Expanded(ts[k]) \in Seq(Byte)
  BY BodyFacts
<1>2. m \in Seq(Seq(Byte))
  BY <1>1
<1>3. Wanted(ts) \in Seq(Byte)
  BY <1>2, FlattenType DEF Wanted
<1> QED
  BY <1>2, <1>3

LEMMA WantedEmpty == Wanted(<< >>) = << >>
<1>1. [k \in 1 .. Len(<< >>) |-> Expanded(<< >>[k])] = << >>
  OBVIOUS
<1> QED
  BY <1>1, FlattenEmpty DEF Wanted

LEMMA WantedAppend ==
  ASSUME NEW ts \in Seq(Seq(Letter)), NEW t \in Seq(Letter)
  PROVE  Wanted(Append(ts, t)) = Wanted(ts) \o Expanded(t)
<1> DEFINE m == [k \in 1 .. Len(ts) |-> Expanded(ts[k])]
           u == Append(ts, t)
<1>1. [k \in 1 .. Len(u) |-> Expanded(u[k])] = Append(m, Expanded(t))
  OBVIOUS
<1>2. m \in Seq(Seq(Byte))
  BY WantedFacts
<1>3. Expanded(t) \in Seq(Byte)
  BY BodyFacts
<1> HIDE DEF m, u
<1>4. FlattenSeq(Append(m, Expanded(t))) = FlattenSeq(m) \o Expanded(t)
  BY <1>2, <1>3, FlattenAppend
<1> QED
  BY <1>1, <1>4 DEF Wanted, m, u

-----------------------------------------------------------------------------
(* How what has come out of a text grows. *)
LEMMA UptoType ==
  ASSUME NEW t \in Seq(Letter), NEW k \in 0 .. Len(t) + 1
  PROVE  Upto(t, k) \in Seq(Byte)
<1>1. CASE k > Len(t)
  BY <1>1, BodyFacts DEF Upto
<1>2. CASE k <= Len(t)
  <2>1. SubSeq(t, 1, k) \in Seq(Letter)
    BY <1>2
  <2> QED
    BY <1>2, <2>1, BodyFacts DEF Upto
<1> QED
  BY <1>1, <1>2

LEMMA UptoStart == ASSUME NEW t \in Seq(Letter) PROVE Upto(t, 0) = << >>
<1>1. SubSeq(t, 1, 0) = << >> /\ ~ (0 > Len(t))
  OBVIOUS
<1> QED
  BY <1>1, BodyEmpty DEF Upto

LEMMA UptoNext ==
  ASSUME NEW t \in Seq(Letter), NEW k \in 0 .. Len(t) - 1
  PROVE  Upto(t, k + 1) = Upto(t, k) \o Char(t[k + 1])
<1>1. SubSeq(t, 1, k + 1) = Append(SubSeq(t, 1, k), t[k + 1])
  OBVIOUS
<1>2. SubSeq(t, 1, k) \in Seq(Letter) /\ t[k + 1] \in Letter
  OBVIOUS
<1>3. ~ (k > Len(t)) /\ ~ (k + 1 > Len(t))
  OBVIOUS
<1>4. Body(Append(SubSeq(t, 1, k), t[k + 1])) = Body(SubSeq(t, 1, k)) \o Char(t[k + 1])
  BY <1>2, BodyAppend
<1> QED
  BY <1>1, <1>3, <1>4 DEF Upto

LEMMA UptoEnd ==
  ASSUME NEW t \in Seq(Letter)
  PROVE  /\ Upto(t, Len(t) + 1) = Upto(t, Len(t)) \o <<CR, LF>>
         /\ Upto(t, Len(t) + 1) = Expanded(t)
<1>1. SubSeq(t, 1, Len(t)) = t /\ ~ (Len(t) > Len(t)) /\ Len(t) + 1 > Len(t)
  OBVIOUS
<1>2. Expanded(t) = Body(t) \o <<CR, LF>>
  BY BodyFacts
<1> QED
  BY <1>1, <1>2 DEF Upto

(* Sequences of bytes are joined in any grouping. *)
LEMMA CatAssoc ==
  ASSUME NEW x \in Seq(Byte), NEW y \in Seq(Byte), NEW z \in Seq(Byte)
  PROVE  (x \o y) \o z = x \o (y \o z) /\ x \o y \in Seq(Byte)
OBVIOUS

(* A part of a text without line ends comes out as it is. *)
LEMMA UptoLine ==
  ASSUME NEW t \in Seq(Letter), NEW a \in 0 .. Len(t), NEW e \in a .. Len(t),
         \A k \in a + 1 .. e : t[k] # LF
  PROVE  /\ Upto(t, e) = Upto(t, a) \o SubSeq(t, a + 1, e)
         /\ SubSeq(t, a + 1, e) \in Seq(Byte)
<1> DEFINE n == e - a
           Same(k) == Upto(t, a + k) = Upto(t, a) \o SubSeq(t, a + 1, a + k)
           T == {k \in 0 .. n : Same(k)}
<1>0. Letter \subseteq Byte
  BY DEF Letter, Byte
<1>1. ASSUME NEW k \in 0 .. n
      PROVE  SubSeq(t, a + 1, a + k) \in Seq(Byte)
  BY <1>0
<1>2. Upto(t, a) \in Seq(Byte)
  BY UptoType
<1>3. 0 \in T
  <2>1. SubSeq(t, a + 1, a + 0) = << >>
    OBVIOUS
  <2>2. Upto(t, a) \o << >> = Upto(t, a) /\ a + 0 = a
    BY <1>2
  <2>3. Same(0)
    BY <2>1, <2>2
  <2>4. 0 \in 0 .. n
    OBVIOUS
  <2> QED
    BY <2>3, <2>4
<1>4. ASSUME NEW k \in 0 .. n - 1, k \in T PROVE k + 1 \in T
  <2> DEFINE x == SubSeq(t, a + 1, a + k)
             c == t[a + k + 1]
  <2>1. a + k \in 0 .. Len(t) - 1 /\ a + k + 1 \in a + 1 .. e /\ k \in 0 .. n /\ k + 1 \in 0 .. n
    OBVIOUS
  <2>2. Upto(t, (a + k) + 1) = Upto(t, a + k) \o Char(t[(a + k) + 1])
    BY <2>1, UptoNext
  <2>3. Char(c) = <<c>> /\ c \in Byte
    BY <1>0, <2>1 DEF Char
  <2>4. x \o <<c>> = SubSeq(t, a + 1, a + (k + 1))
    BY <2>1
  <2>5. Same(k)
    BY <1>4
  <2>6. x \in Seq(Byte)
    BY <1>1, <2>1
  <2>7. a + (k + 1) = (a + k) + 1
    OBVIOUS
  <2> HIDE DEF x, c
  <2>a. <<c>> \in Seq(Byte)
    BY <2>3
  <2>8. (Upto(t, a) \o x) \o <<c>> = Upto(t, a) \o (x \o <<c>>)
    BY <1>2, <2>6, <2>a, CatAssoc
  <2>9. Same(k + 1)
    BY <2>2, <2>3, <2>4, <2>5, <2>7, <2>8 DEF x, c
  <2> QED
    BY <2>1, <2>9
<1>5. n \in Nat /\ n \in 0 .. n /\ a + n = e
  OBVIOUS
<1> HIDE DEF T, n
<1>6. \A k \in 0 .. n : k \in T
  BY <1>3, <1>4, <1>5, IntervalInduction
<1>7. n \in T
  BY <1>5, <1>6
<1> QED
  BY <1>1, <1>5, <1>7 DEF T

(* What has come out of a text is the beginning of what is to come. *)
LEMMA UptoBegins ==
  ASSUME NEW t \in Seq(Letter), NEW k \in 0 .. Len(t) + 1
  PROVE  \E z \in Seq(Byte) : Expanded(t) = Upto(t, k) \o z
<1> DEFINE n == Len(t) + 1
           Begins(j) == \E z \in Seq(Byte) : Expanded(t) = Upto(t, n - j) \o z
           T == {j \in 0 .. n : Begins(j)}
<1>1. 0 \in T
  <2>1. << >> \in Seq(Byte)
    OBVIOUS
  <2>2. Expanded(t) \in Seq(Byte) /\ Upto(t, n - 0) = Expanded(t)
    BY BodyFacts, UptoEnd
  <2>3. Expanded(t) = Expanded(t) \o << >>
    BY <2>2
  <2>4. Begins(0)
    BY <2>1, <2>2, <2>3
  <2> QED
    BY <2>4
<1>2. ASSUME NEW j \in 0 .. n - 1, j \in T PROVE j + 1 \in T
  <2>1. PICK z \in Seq(Byte) : Expanded(t) = Upto(t, n - j) \o z
    BY <1>2
  <2> DEFINE m == n - (j + 1)
  <2>2. \E x \in Seq(Byte) : Upto(t, n - j) = Upto(t, m) \o x
    <3>1. CASE j = 0
      <4>1. n - j = Len(t) + 1 /\ m = Len(t)
        BY <3>1
      <4>2. <<CR, LF>> \in Seq(Byte)
        BY DEF Byte
      <4> QED
        BY <4>1, <4>2, UptoEnd
    <3>2. CASE j # 0
      <4>1. m \in 0 .. Len(t) - 1 /\ n - j = m + 1 /\ t[m + 1] \in Letter
        BY <3>2
      <4>2. Char(t[m + 1]) \in Seq(Byte)
        BY <4>1, CharType
      <4> QED
        BY <4>1, <4>2, UptoNext
    <3> QED
      BY <3>1, <3>2
  <2>3. PICK x \in Seq(Byte) : Upto(t, n - j) = Upto(t, m) \o x
    BY <2>2
  <2>4. m \in 0 .. Len(t) + 1 /\ j + 1 \in 0 .. n
    OBVIOUS
  <2>5. Upto(t, m) \in Seq(Byte)
    BY <2>4, UptoType
  <2> HIDE DEF m
  <2>6. x \o z \in Seq(Byte) /\ (Upto(t, m) \o x) \o z = Upto(t, m) \o (x \o z)
    BY <2>5, CatAssoc
  <2>7. Expanded(t) = Upto(t, m) \o (x \o z)
    BY <2>1, <2>3, <2>6
  <2>8. Begins(j + 1)
    BY <2>6, <2>7 DEF m
  <2> QED
    BY <2>4, <2>8
<1>3. n \in Nat /\ n - k \in 0 .. n /\ n - (n - k) = k
  OBVIOUS
<1> HIDE DEF T, n
<1>4. \A j \in 0 .. n : j \in T
  BY <1>1, <1>2, <1>3, IntervalInduction
<1>5. n - k \in T
  BY <1>3, <1>4
<1> QED
  BY <1>3, <1>5 DEF T

-----------------------------------------------------------------------------
(* The line that starts at p ends before the next line end, or with the text. *)
LEMMA LineEnds ==
  ASSUME s \in Seq(Letter), p \in 0 .. Len(s)
  PROVE  /\ q \in p .. Len(s) /\ \A k \in p + 1 .. q : s[k] # LF
         /\ p < Len(s) /\ s[p + 1] # LF => p < q
<1> DEFINE ends == {k \in p + 1 .. Len(s) : s[k] = LF}
           least == CHOOSE x \in ends : \A y \in ends : x <= y
<1>1. q = IF ends = {} THEN Len(s) ELSE least - 1
  BY DEF q
<1>2. CASE ends = {}
  BY <1>1, <1>2
<1>3. CASE ends # {}
  <2>1. Len(s) \in Nat /\ ends \subseteq 0 .. Len(s)
    OBVIOUS
  <2> HIDE DEF ends
  <2>2. \E x \in ends : \A y \in ends : x <= y
    BY <1>3, <2>1, LeastExists
  <2>3. least \in ends /\ \A y \in ends : least <= y
    BY <2>2
  <2> HIDE DEF least
  <2>4. q = least - 1
    BY <1>1, <1>3
  <2> QED
    BY <2>3, <2>4 DEF ends
<1> QED
  BY <1>2, <1>3

(* How far a driver is that was already called: to the end of the line, or past a line end. *)
Goal == IF doing = "line" THEN q ELSE p + 1

(* A driver that was told td and shown sd has the last text, t, up to k. *)
HasUpto(td, sd, t, k) ==
    \E ts \in Seq(Seq(Letter)) : td = Append(ts, t) /\ sd = Wanted(ts) \o Upto(t, k)

(***************************************************************************)
(* Every driver has all texts but the last, and of that one what was       *)
(* written when its turn last came.                                        *)
(***************************************************************************)
ConsoleTypes ==
    /\ console_out \in Seq(Drivers) /\ s \in Seq(Letter)
    /\ \A j, k \in 1 .. Len(console_out) : console_out[j] = console_out[k] => j = k
    /\ doing \in {"idle", "line", "eol", "last"}
    /\ p \in 0 .. Len(s) /\ out \in 1 .. Len(console_out) + 1
    /\ told \in [Drivers -> Seq(Seq(Letter))] /\ shown \in [Drivers -> Seq(Byte)]
ConsolePlaces ==
    /\ doing = "idle" => out = 1
    /\ doing = "line" => p < Len(s) /\ s[p + 1] # LF
    /\ doing = "eol" => p < Len(s) /\ s[p + 1] = LF
    /\ doing = "last" => p = Len(s)
ConsoleTold ==
    /\ \A d \in Drivers : d \notin Range(console_out) => told[d] = << >> /\ shown[d] = << >>
    /\ doing = "idle" => \A d \in Drivers : shown[d] = Wanted(told[d])
    /\ doing # "idle" => \A j \in 1 .. Len(console_out) :
         HasUpto(told[console_out[j]], shown[console_out[j]], s, IF j < out THEN Goal ELSE p)
ConsoleInv == ConsoleTypes /\ ConsolePlaces /\ ConsoleTold

LEMMA GoalType ==
  ASSUME ConsoleTypes, ConsolePlaces, doing # "idle"
  PROVE  Goal \in 0 .. Len(s) + 1 /\ p \in 0 .. Len(s) + 1
<1>1. q \in p .. Len(s)
  BY LineEnds DEF ConsoleTypes
<1> HIDE DEF q
<1> QED
  BY <1>1 DEF Goal, ConsoleTypes

(* What write() is called with takes a driver from p to Goal. *)
Written == IF doing = "line" THEN SubSeq(s, p + 1, q) ELSE LineEnd
LEMMA GoalReached ==
  ASSUME ConsoleTypes, ConsolePlaces, doing # "idle"
  PROVE  Upto(s, Goal) = Upto(s, p) \o Written /\ Written \in Seq(Byte)
<1>1. s \in Seq(Letter) /\ p \in 0 .. Len(s) /\ doing \in {"line", "eol", "last"}
  BY DEF ConsoleTypes
<1>2. CASE doing = "line"
  <2>1. q \in p .. Len(s) /\ \A k \in p + 1 .. q : s[k] # LF
    BY <1>1, LineEnds
  <2> HIDE DEF q
  <2>2. Upto(s, q) = Upto(s, p) \o SubSeq(s, p + 1, q) /\ SubSeq(s, p + 1, q) \in Seq(Byte)
    BY <1>1, <2>1, UptoLine
  <2> QED
    BY <1>2, <2>2 DEF Goal, Written
<1>3. CASE doing = "eol"
  <2>1. p \in 0 .. Len(s) - 1 /\ s[p + 1] = LF
    BY <1>1, <1>3 DEF ConsolePlaces
  <2>2. Upto(s, p + 1) = Upto(s, p) \o Char(s[p + 1])
    BY <1>1, <2>1, UptoNext
  <2>3. Char(s[p + 1]) = <<CR, LF>>
    BY <2>1 DEF Char
  <2>4. <<CR, LF>> \in Seq(Byte)
    BY DEF Byte
  <2> QED
    BY <1>3, <2>2, <2>3, <2>4 DEF Goal, Written, LineEnd
<1>4. CASE doing = "last"
  <2>1. p = Len(s)
    BY <1>4 DEF ConsolePlaces
  <2>2. Upto(s, p + 1) = Upto(s, p) \o <<CR, LF>>
    BY <1>1, <2>1, UptoEnd
  <2>3. <<CR, LF>> \in Seq(Byte)
    BY DEF Byte
  <2> QED
    BY <1>4, <2>2, <2>3 DEF Goal, Written, LineEnd
<1> QED
  BY <1>1, <1>2, <1>3, <1>4

LEMMA HasMore ==
  ASSUME NEW td, NEW sd, NEW t \in Seq(Letter), NEW k \in 0 .. Len(t) + 1, NEW m, NEW b \in Seq(Byte),
         HasUpto(td, sd, t, k), Upto(t, m) = Upto(t, k) \o b
  PROVE  HasUpto(td, sd \o b, t, m)
<1>1. PICK ts \in Seq(Seq(Letter)) : td = Append(ts, t) /\ sd = Wanted(ts) \o Upto(t, k)
  BY DEF HasUpto
<1>2. Wanted(ts) \in Seq(Byte) /\ Upto(t, k) \in Seq(Byte)
  BY WantedFacts, UptoType
<1>3. (Wanted(ts) \o Upto(t, k)) \o b = Wanted(ts) \o (Upto(t, k) \o b)
  BY <1>2, CatAssoc
<1> QED
  BY <1>1, <1>3 DEF HasUpto

LEMMA TextsType == Texts \subseteq Seq(Letter)
<1> SUFFICES ASSUME NEW t \in Texts PROVE t \in Seq(Letter)
  OBVIOUS
<1>1. PICK k \in 0 .. MaxText : t \in [1 .. k -> Letter]
  BY DEF Texts, Letter
<1>2. k \in Nat
  BY ConsoleAssumption
<1> QED
  BY <1>1, <1>2

LEMMA ConsoleInitInv == ConsoleInit => ConsoleInv
<1> SUFFICES ASSUME ConsoleInit PROVE ConsoleInv
  OBVIOUS
<1>1. << >> \in Seq(Drivers) /\ << >> \in Seq(Letter) /\ << >> \in Seq(Seq(Letter)) /\ << >> \in Seq(Byte)
  OBVIOUS
<1>2. Len(<< >>) = 0
  OBVIOUS
<1>3. ConsoleTypes
  BY <1>1, <1>2 DEF ConsoleTypes, ConsoleInit
<1>4. ConsolePlaces
  BY DEF ConsolePlaces, ConsoleInit
<1>5. ConsoleTold
  BY WantedEmpty DEF ConsoleTold, ConsoleInit
<1> QED
  BY <1>3, <1>4, <1>5 DEF ConsoleInv

LEMMA DriverAdded ==
  ASSUME ConsoleInv, NEW d \in Drivers, console_add_output_driver(d)
  PROVE  ConsoleInv'
<1> USE DEF ConsoleInv
<1>1. /\ doing = "idle" /\ d \notin Range(console_out) /\ console_out' = <<d>> \o console_out
      /\ doing' = doing /\ s' = s /\ p' = p /\ out' = out /\ told' = told /\ shown' = shown
  BY DEF console_add_output_driver
<1>2. console_out \in Seq(Drivers)
  BY DEF ConsoleTypes
<1>3. /\ console_out' \in Seq(Drivers) /\ Len(console_out') = Len(console_out) + 1
      /\ console_out'[1] = d
      /\ \A j \in 2 .. Len(console_out) + 1 : console_out'[j] = console_out[j - 1]
  BY <1>1, <1>2
<1>4. \A j \in 1 .. Len(console_out) : console_out[j] # d
  BY <1>1, <1>2 DEF Range
<1>5. ConsoleTypes'
  <2>1. ASSUME NEW j \in 1 .. Len(console_out'), NEW k \in 1 .. Len(console_out'),
               console_out'[j] = console_out'[k]
        PROVE  j = k
    <3>1. /\ j = 1 \/ (j \in 2 .. Len(console_out) + 1 /\ j - 1 \in 1 .. Len(console_out))
          /\ k = 1 \/ (k \in 2 .. Len(console_out) + 1 /\ k - 1 \in 1 .. Len(console_out))
      BY <1>2, <1>3
    <3>2. CASE j = 1
      BY <1>3, <1>4, <2>1, <3>1, <3>2
    <3>3. CASE k = 1
      BY <1>3, <1>4, <2>1, <3>1, <3>3
    <3>4. CASE j # 1 /\ k # 1
      <4>1. console_out[j - 1] = console_out[k - 1]
        BY <1>3, <2>1, <3>1, <3>4
      <4>2. j - 1 = k - 1
        BY <3>1, <3>4, <4>1 DEF ConsoleTypes
      <4> QED
        BY <4>2
    <3> QED
      BY <3>2, <3>3, <3>4
  <2>2. out' \in 1 .. Len(console_out') + 1
    BY <1>1, <1>2, <1>3 DEF ConsoleTypes
  <2> QED
    BY <1>1, <1>3, <2>1, <2>2 DEF ConsoleTypes
<1>6. ConsolePlaces'
  BY <1>1 DEF ConsolePlaces
<1>7. ConsoleTold'
  <2>1. ASSUME NEW x \in Drivers, x \notin Range(console_out)' PROVE x \notin Range(console_out)
    <3>1. SUFFICES ASSUME x \in Range(console_out) PROVE FALSE
      OBVIOUS
    <3>2. PICK j \in 1 .. Len(console_out) : console_out[j] = x
      BY <1>2, <3>1 DEF Range
    <3>3. j + 1 \in 1 .. Len(console_out') /\ console_out'[j + 1] = x
      BY <1>2, <1>3, <3>2
    <3>4. x \in Range(console_out)'
      BY <1>3, <3>3 DEF Range
    <3> QED
      BY <2>1, <3>4
  <2> QED
    BY <1>1, <2>1 DEF ConsoleTold
<1> QED
  BY <1>5, <1>6, <1>7

LEMMA TextPut == ConsoleInv /\ puts => ConsoleInv'
<1> SUFFICES ASSUME ConsoleInv, puts PROVE ConsoleInv'
  OBVIOUS
<1> USE DEF ConsoleInv
<1>1. PICK t \in Texts :
        /\ s' = t
        /\ told' = [d \in Drivers |-> IF d \in Range(console_out) THEN Append(told[d], t) ELSE told[d]]
        /\ doing' = IF t = << >> THEN "last" ELSE IF t[1] = LF THEN "eol" ELSE "line"
  BY DEF puts
<1>2. doing = "idle" /\ p' = 0 /\ out' = 1 /\ console_out' = console_out /\ shown' = shown
  BY DEF puts
<1>3. t \in Seq(Letter)
  BY TextsType
<1>4. t # << >> => Len(t) > 0
  BY <1>3
<1>5. ConsoleTypes'
  <2>1. ASSUME NEW d \in Drivers PROVE Append(told[d], t) \in Seq(Seq(Letter)) /\ told[d] \in Seq(Seq(Letter))
    BY <1>3 DEF ConsoleTypes
  <2>2. told' \in [Drivers -> Seq(Seq(Letter))]
    BY <1>1, <2>1
  <2>3. doing' \in {"idle", "line", "eol", "last"}
    BY <1>1
  <2>4. p' \in 0 .. Len(s') /\ out' \in 1 .. Len(console_out') + 1
    BY <1>1, <1>2, <1>3 DEF ConsoleTypes
  <2> QED
    BY <1>1, <1>2, <1>3, <2>2, <2>3, <2>4 DEF ConsoleTypes
<1>6. ConsolePlaces'
  BY <1>1, <1>2, <1>3, <1>4 DEF ConsolePlaces
<1>7. ConsoleTold'
  <2>1. doing' # "idle"
    BY <1>1
  <2>2. ASSUME NEW d \in Drivers, d \notin Range(console_out)' PROVE told'[d] = << >> /\ shown'[d] = << >>
    <3>1. d \notin Range(console_out)
      BY <1>2, <2>2 DEF Range
    <3> QED
      BY <1>1, <1>2, <3>1 DEF ConsoleTold
  <2>3. ASSUME NEW j \in 1 .. Len(console_out')
        PROVE  HasUpto(told'[console_out'[j]], shown'[console_out'[j]], s', IF j < out' THEN Goal' ELSE p')
    <3> DEFINE d == console_out[j]
    <3>1. d \in Drivers /\ d \in Range(console_out) /\ d = console_out'[j] /\ ~ (j < out')
      BY <1>2, <2>3 DEF ConsoleTypes, Range
    <3>2. told[d] \in Seq(Seq(Letter)) /\ shown[d] \in Seq(Byte)
      BY <3>1 DEF ConsoleTypes
    <3>3. told'[d] = Append(told[d], t)
      BY <1>1, <3>1
    <3>4. shown'[d] = Wanted(told[d]) /\ Upto(t, 0) = << >>
      BY <1>2, <1>3, <3>1, UptoStart DEF ConsoleTold
    <3>5. shown'[d] = Wanted(told[d]) \o Upto(t, 0)
      BY <1>2, <3>2, <3>4
    <3>6. HasUpto(told'[d], shown'[d], t, 0)
      BY <3>2, <3>3, <3>5 DEF HasUpto
    <3> QED
      BY <1>1, <1>2, <3>1, <3>6
  <2> QED
    BY <2>1, <2>2, <2>3 DEF ConsoleTold
<1> QED
  BY <1>5, <1>6, <1>7

(* write() is called for the next driver: the text gets as far as Goal there. *)
LEMMA DriverWritten ==
  ASSUME ConsoleInv, doing # "idle", out <= Len(console_out),
         shown' = [shown EXCEPT ![console_out[out]] = @ \o Written], out' = out + 1,
         doing' = doing, p' = p, console_out' = console_out, s' = s, told' = told
  PROVE  ConsoleInv'
<1> USE DEF ConsoleInv
<1> DEFINE d == console_out[out]
<1>1. /\ console_out \in Seq(Drivers) /\ out \in 1 .. Len(console_out) /\ d \in Drivers
      /\ shown \in [Drivers -> Seq(Byte)] /\ shown[d] \in Seq(Byte) /\ s \in Seq(Letter)
  BY DEF ConsoleTypes
<1>2. Upto(s, Goal) = Upto(s, p) \o Written /\ Written \in Seq(Byte)
  BY GoalReached
<1>3. Goal' = Goal
  BY DEF Goal, q
<1> HIDE DEF Written, Goal
<1>4. shown[d] \o Written \in Seq(Byte)
  BY <1>1, <1>2, CatAssoc
<1>5. shown' \in [Drivers -> Seq(Byte)] /\ shown'[d] = shown[d] \o Written
      /\ \A x \in Drivers : x # d => shown'[x] = shown[x]
  BY <1>1, <1>4
<1>6. ConsoleTypes'
  BY <1>1, <1>5 DEF ConsoleTypes
<1>7. ConsolePlaces'
  BY DEF ConsolePlaces
<1>8. ConsoleTold'
  <2>1. ASSUME NEW x \in Drivers, x \notin Range(console_out)' PROVE told'[x] = << >> /\ shown'[x] = << >>
    <3>1. x \notin Range(console_out)
      BY <2>1 DEF Range
    <3>2. d \in Range(console_out)
      BY <1>1 DEF Range
    <3> QED
      BY <1>5, <3>1, <3>2 DEF ConsoleTold
  <2>2. ASSUME NEW j \in 1 .. Len(console_out')
        PROVE  HasUpto(told'[console_out'[j]], shown'[console_out'[j]], s', IF j < out' THEN Goal' ELSE p')
    <3>1. HasUpto(told[console_out[j]], shown[console_out[j]], s, IF j < out THEN Goal ELSE p)
      BY DEF ConsoleTold
    <3>2. CASE j = out
      <4>1. HasUpto(told[d], shown[d], s, p) /\ j < out'
        BY <1>1, <3>1, <3>2
      <4>2. p \in 0 .. Len(s) + 1
        BY GoalType
      <4>3. HasUpto(told[d], shown[d] \o Written, s, Goal)
        BY <1>1, <1>2, <4>1, <4>2, HasMore
      <4> QED
        BY <1>3, <1>5, <3>2, <4>1, <4>3
    <3>3. CASE j # out
      <4>1. console_out[j] # d /\ console_out[j] \in Drivers
        BY <1>1, <3>3 DEF ConsoleTypes
      <4>2. (j < out) = (j < out')
        BY <1>1, <3>3
      <4> QED
        BY <1>3, <1>5, <3>1, <4>1, <4>2
    <3> QED
      BY <3>2, <3>3
  <2> QED
    BY <2>1, <2>2 DEF ConsoleTold
<1> QED
  BY <1>6, <1>7, <1>8

(* All drivers have been called: the next piece is up. *)
LEMMA AllWritten ==
  ASSUME ConsoleInv, doing # "idle", ~ (out <= Len(console_out))
  PROVE  /\ out = Len(console_out) + 1
         /\ \A j \in 1 .. Len(console_out) : HasUpto(told[console_out[j]], shown[console_out[j]], s, Goal)
<1>1. console_out \in Seq(Drivers) /\ out = Len(console_out) + 1
  BY DEF ConsoleInv, ConsoleTypes
<1>2. ASSUME NEW j \in 1 .. Len(console_out)
      PROVE  HasUpto(told[console_out[j]], shown[console_out[j]], s, Goal)
  <2>1. j < out
    BY <1>1
  <2> QED
    BY <2>1 DEF ConsoleInv, ConsoleTold
<1> QED
  BY <1>1, <1>2

LEMMA PieceDone ==
  ASSUME ConsoleInv, doing \in {"line", "eol"}, ~ (out <= Len(console_out)),
         out' = 1, shown' = shown, p' = Goal, doing' = After(Goal),
         console_out' = console_out, s' = s, told' = told
  PROVE  ConsoleInv'
<1> USE DEF ConsoleInv
<1>1. \A j \in 1 .. Len(console_out) : HasUpto(told[console_out[j]], shown[console_out[j]], s, Goal)
  BY AllWritten
<1>2. Goal \in 0 .. Len(s) /\ s \in Seq(Letter)
  <2>1. q \in p .. Len(s)
    BY LineEnds DEF ConsoleTypes
  <2> HIDE DEF q
  <2> QED
    BY <2>1 DEF Goal, ConsoleTypes, ConsolePlaces
<1> HIDE DEF Goal
<1>3. /\ doing' \in {"line", "eol", "last"} /\ (doing' = "last" => Goal = Len(s))
      /\ (doing' = "line" => Goal < Len(s) /\ s[Goal + 1] # LF)
      /\ (doing' = "eol" => Goal < Len(s) /\ s[Goal + 1] = LF)
  BY <1>2 DEF After
<1>4. ConsoleTypes'
  BY <1>2, <1>3 DEF ConsoleTypes
<1>5. ConsolePlaces'
  BY <1>3 DEF ConsolePlaces
<1>6. ConsoleTold'
  <2>1. ASSUME NEW x \in Drivers, x \notin Range(console_out)' PROVE told'[x] = << >> /\ shown'[x] = << >>
    <3>1. x \notin Range(console_out)
      BY <2>1 DEF Range
    <3> QED
      BY <3>1 DEF ConsoleTold
  <2>2. ASSUME NEW j \in 1 .. Len(console_out')
        PROVE  HasUpto(told'[console_out'[j]], shown'[console_out'[j]], s', IF j < out' THEN Goal' ELSE p')
    <3>1. ~ (j < out')
      OBVIOUS
    <3> QED
      BY <1>1, <3>1
  <2>3. doing' # "idle"
    BY <1>3
  <2> QED
    BY <2>1, <2>2, <2>3 DEF ConsoleTold
<1> QED
  BY <1>4, <1>5, <1>6

LEMMA TextDone ==
  ASSUME ConsoleInv, doing = "last", ~ (out <= Len(console_out)),
         out' = 1, shown' = shown, p' = p, doing' = "idle",
         console_out' = console_out, s' = s, told' = told
  PROVE  ConsoleInv'
<1> USE DEF ConsoleInv
<1>1. \A j \in 1 .. Len(console_out) : HasUpto(told[console_out[j]], shown[console_out[j]], s, Goal)
  BY AllWritten
<1>2. s \in Seq(Letter) /\ Goal = Len(s) + 1
  BY DEF Goal, ConsoleTypes, ConsolePlaces
<1> HIDE DEF Goal
<1>3. ConsoleTypes'
  BY DEF ConsoleTypes
<1>4. ConsolePlaces'
  BY DEF ConsolePlaces
<1>5. ASSUME NEW x \in Drivers PROVE shown[x] = Wanted(told[x])
  <2>1. CASE x \in Range(console_out)
    <3>1. PICK j \in 1 .. Len(console_out) : console_out[j] = x
      BY <2>1 DEF Range, ConsoleTypes
    <3>2. HasUpto(told[x], shown[x], s, Goal)
      BY <1>1, <3>1
    <3>3. PICK ts \in Seq(Seq(Letter)) : told[x] = Append(ts, s) /\ shown[x] = Wanted(ts) \o Upto(s, Goal)
      BY <3>2 DEF HasUpto
    <3>4. Upto(s, Goal) = Expanded(s)
      BY <1>2, UptoEnd
    <3>5. Wanted(Append(ts, s)) = Wanted(ts) \o Expanded(s)
      BY <1>2, WantedAppend
    <3> QED
      BY <3>3, <3>4, <3>5
  <2>2. CASE x \notin Range(console_out)
    BY <2>2, WantedEmpty DEF ConsoleTold
  <2> QED
    BY <2>1, <2>2
<1>6. ConsoleTold'
  <2>1. ASSUME NEW x \in Drivers, x \notin Range(console_out)' PROVE told'[x] = << >> /\ shown'[x] = << >>
    <3>1. x \notin Range(console_out)
      BY <2>1 DEF Range
    <3> QED
      BY <3>1 DEF ConsoleTold
  <2> QED
    BY <1>5, <2>1 DEF ConsoleTold
<1> QED
  BY <1>3, <1>4, <1>6

LEMMA ConsoleStepInv == ConsoleInv /\ [ConsoleNext]_consoleVars => ConsoleInv'
<1> SUFFICES ASSUME ConsoleInv, [ConsoleNext]_consoleVars PROVE ConsoleInv'
  OBVIOUS
<1>1. ASSUME NEW d \in Drivers, console_add_output_driver(d) PROVE ConsoleInv'
  BY <1>1, DriverAdded
<1>2. CASE puts
  BY <1>2, TextPut
<1>3. CASE WriteLine
  <2>1. doing = "line" /\ doing # "idle" /\ console_out' = console_out /\ s' = s /\ told' = told
    BY <1>3 DEF WriteLine
  <2>2. Written = SubSeq(s, p + 1, q) /\ Goal = q
    BY <2>1 DEF Written, Goal
  <2>3. Write(SubSeq(s, p + 1, q), p' = q /\ doing' = After(q))
    BY <1>3 DEF WriteLine
  <2>4. CASE out <= Len(console_out)
    <3>1. shown' = [shown EXCEPT ![console_out[out]] = @ \o Written] /\ out' = out + 1 /\ doing' = doing /\ p' = p
      BY <2>2, <2>3, <2>4 DEF Write
    <3> QED
      BY <2>1, <2>4, <3>1, DriverWritten
  <2>5. CASE ~ (out <= Len(console_out))
    <3>1. out' = 1 /\ shown' = shown /\ p' = Goal /\ doing' = After(Goal)
      BY <2>2, <2>3, <2>5 DEF Write
    <3> QED
      BY <2>1, <2>5, <3>1, PieceDone
  <2> QED
    BY <2>4, <2>5
<1>4. CASE putchar
  <2>1. doing \in {"eol", "last"} /\ doing # "idle" /\ console_out' = console_out /\ s' = s /\ told' = told
    BY <1>4 DEF putchar
  <2>2. Written = LineEnd /\ Goal = Skip(p)
    BY <2>1 DEF Written, Goal, Skip
  <2>3. Write(LineEnd, IF doing = "last" THEN doing' = "idle" /\ UNCHANGED p
                       ELSE p' = Skip(p) /\ doing' = After(Skip(p)))
    BY <1>4 DEF putchar
  <2>4. CASE out <= Len(console_out)
    <3>1. shown' = [shown EXCEPT ![console_out[out]] = @ \o Written] /\ out' = out + 1 /\ doing' = doing /\ p' = p
      BY <2>2, <2>3, <2>4 DEF Write
    <3> QED
      BY <2>1, <2>4, <3>1, DriverWritten
  <2>5. CASE ~ (out <= Len(console_out)) /\ doing = "eol"
    <3>1. out' = 1 /\ shown' = shown /\ p' = Goal /\ doing' = After(Goal)
      BY <2>2, <2>3, <2>5 DEF Write
    <3> QED
      BY <2>1, <2>5, <3>1, PieceDone
  <2>6. CASE ~ (out <= Len(console_out)) /\ doing = "last"
    <3>1. out' = 1 /\ shown' = shown /\ p' = p /\ doing' = "idle"
      BY <2>3, <2>6 DEF Write
    <3> QED
      BY <2>1, <2>6, <3>1, TextDone
  <2> QED
    BY <2>1, <2>4, <2>5, <2>6
<1>5. CASE UNCHANGED consoleVars
  <2>1. q' = q
    BY <1>5 DEF q, consoleVars
  <2>2. Goal' = Goal
    BY <1>5, <2>1 DEF Goal, consoleVars
  <2>3. ConsoleTypes' /\ ConsolePlaces'
    BY <1>5 DEF ConsoleInv, ConsoleTypes, ConsolePlaces, consoleVars
  <2>4. ConsoleTold'
    BY <1>5, <2>2 DEF ConsoleInv, ConsoleTold, consoleVars, Range
  <2> QED
    BY <2>3, <2>4 DEF ConsoleInv
<1> QED
  BY <1>1, <1>2, <1>3, <1>4, <1>5 DEF ConsoleNext, Quiet

(* A sequence is a beginning of what is made by adding to it. *)
LEMMA BeginsWith ==
  ASSUME NEW x \in Seq(Byte), NEW z \in Seq(Byte)
  PROVE  IsPrefix(x, x \o z)
BY DEF IsPrefix

(***************************************************************************)
(* AllTextsArrive, for any drivers and any texts: what a driver has been   *)
(* given by puts() is at all times the beginning of the texts put since it *)
(* was added, each line ended by CR and LF, and all of it between calls.   *)
(***************************************************************************)
THEOREM TextsArrive == ConsoleSpec => []AllTextsArrive
<1>1. ConsoleInv => AllTextsArrive
  <2> SUFFICES ASSUME ConsoleInv, NEW d \in Drivers
               PROVE  IsPrefix(shown[d], Wanted(told[d])) /\ (doing = "idle" => shown[d] = Wanted(told[d]))
    BY DEF AllTextsArrive, Wanted
  <2> USE DEF ConsoleInv
  <2>1. shown[d] \in Seq(Byte) /\ told[d] \in Seq(Seq(Letter)) /\ s \in Seq(Letter)
    BY DEF ConsoleTypes
  <2>2. \E z \in Seq(Byte) : Wanted(told[d]) = shown[d] \o z
    <3>1. << >> \in Seq(Byte) /\ shown[d] \o << >> = shown[d]
      BY <2>1
    <3>2. CASE doing = "idle"
      BY <3>1, <3>2 DEF ConsoleTold
    <3>3. CASE d \notin Range(console_out)
      BY <3>1, <3>3, WantedEmpty DEF ConsoleTold
    <3>4. CASE doing # "idle" /\ d \in Range(console_out)
      <4>1. PICK j \in 1 .. Len(console_out) : console_out[j] = d
        BY <3>4 DEF Range, ConsoleTypes
      <4> DEFINE k == IF j < out THEN Goal ELSE p
      <4>2. HasUpto(told[d], shown[d], s, k)
        BY <3>4, <4>1 DEF ConsoleTold
      <4>3. k \in 0 .. Len(s) + 1
        BY <3>4, GoalType
      <4> HIDE DEF k
      <4>4. PICK ts \in Seq(Seq(Letter)) : told[d] = Append(ts, s) /\ shown[d] = Wanted(ts) \o Upto(s, k)
        BY <4>2 DEF HasUpto
      <4>5. PICK z \in Seq(Byte) : Expanded(s) = Upto(s, k) \o z
        BY <2>1, <4>3, UptoBegins
      <4>6. Wanted(told[d]) = Wanted(ts) \o (Upto(s, k) \o z)
        BY <2>1, <4>4, <4>5, WantedAppend
      <4>7. Wanted(ts) \in Seq(Byte) /\ Upto(s, k) \in Seq(Byte)
        BY <2>1, <4>3, WantedFacts, UptoType
      <4>8. (Wanted(ts) \o Upto(s, k)) \o z = Wanted(ts) \o (Upto(s, k) \o z)
        BY <4>7, CatAssoc
      <4> QED
        BY <4>4, <4>6, <4>8
    <3> QED
      BY <3>2, <3>3, <3>4
  <2>3. IsPrefix(shown[d], Wanted(told[d]))
    BY <2>1, <2>2, BeginsWith
  <2> QED
    BY <2>3 DEF ConsoleTold
<1> QED
  BY <1>1, ConsoleInitInv, ConsoleStepInv, PTL DEF ConsoleSpec
=============================================================================
