----------------------------- MODULE SCBSTiming -----------------------------
(***************************************************************************)
(* The ring in real time and character by character: the transmit and      *)
(* receive FIFOs of the cells, uart_puts() that keeps Update() from        *)
(* receiving while it waits for room, and the two programs that drive the  *)
(* ring, scbs_utils.py and scbs_spammer.py, with the timeouts of their     *)
(* readline().                                                             *)
(*                                                                         *)
(* Time is counted in the time of one character (9600 baud, 10 bits: 960   *)
(* in a second).  Each Tick every transmitter that has something to send   *)
(* sends one character.  A cell needs one character time from the end of a *)
(* sentence to the start of its reply.  Nothing is scaled: packets, FIFOs  *)
(* and timeouts are those of the code.                                     *)
(*                                                                         *)
(* A sentence is carried by its last character: a character is <<line>>    *)
(* for the '\n' that completes the line, and <<>> for any other.           *)
(***************************************************************************)
EXTENDS SCBSCell

CONSTANTS
  Sizes,         \* how many cells the ring may have
  UtilsRequests, \* what the user of scbs_utils.py types
  Readings,      \* what the current sense ADCs may read
  kMaxUARTBufLen, \* 200: uart_rx_buf_, with its '\0'
  FifoDepth,     \* 32: both FIFOs of the UART
  MaxRepeats     \* bound: rounds of the spammer

ASSUME TimingAssumption ==
  /\ Sizes \subseteq Id \ {0}
  /\ UtilsRequests \subseteq Request
  /\ Readings \subseteq Current
  /\ kMaxUARTBufLen \in Nat \ {0, 1}
  /\ FifoDepth \in Nat \ {0}
  /\ MaxRepeats \in Nat

CharsPerSecond == 960

UtilsTimeout_Short == CharsPerSecond \div 2 \* mutant: that of the spammer

UtilsTimeout == 5 * CharsPerSecond

SpammerTimeout == CharsPerSecond \div 2

SpammerRequest ==
  [type |-> "MRD", id |-> 0, addr |-> kRegAddrReadOutputCurrent, vals |-> <<>>]

\* The two programs: what they send, how often, and how long readline waits for
\* a character.
Programs ==
  {[name |-> "scbs_spammer", requests |-> {SpammerRequest}, rounds |-> MaxRepeats,
    timeout |-> SpammerTimeout],
   [name |-> "scbs_utils", requests |-> UtilsRequests, rounds |-> 1,
    timeout |-> UtilsTimeout]}

VARIABLES
  size,     \* number of cells in the ring
  program,  \* the program the master runs
  cell,     \* cell[i]: the state of cell i
  fifo,     \* fifo[i]: receive FIFO of cell i
  held,     \* held[i]: uart_rx_buf_len_ of cell i
  tx,       \* tx[i]: what cell i (0: the master) has still to send
  inbox,    \* serial input buffer of the master
  master,   \* is it in readline(), for how long without a character, how many
            \* commands has it sent, how many readlines have timed out
  overrun   \* history: a character found a receive FIFO full

vars == <<size, program, cell, fifo, held, tx, inbox, master, overrun>>

Cells == 1 .. size

\* "$BSxxx," contents "*", two digits of checksum (packetize() may print one),
\* "\r\n".
LineLen(line) == kPacketHeaderLen + 1 + ContentsLen(line.fields) + 1 + 4

Chars(line) ==
  [k \in 1 .. LineLen(line) |-> IF k = LineLen(line) THEN <<line>> ELSE <<>>]

Init ==
  /\ size \in Sizes
  /\ program \in Programs
  /\ \E a \in Readings : cell = [i \in Cells |-> [id |-> i, volt |-> 0, amp |-> a]]
  /\ fifo = [i \in Cells |-> <<>>]
  /\ held = [i \in Cells |-> 0]
  /\ tx = [i \in 0 .. size |-> <<>>]
  /\ inbox = <<>>
  /\ master = [reading |-> FALSE, silent |-> 0, sent |-> 0, missed |-> 0]
  /\ overrun = FALSE

(***************************************************************************)
(* The cells.                                                              *)
(***************************************************************************)

\* uart_puts() has not returned: some characters are not yet in the FIFO.
Blocked(i) == Len(tx[i]) > FifoDepth

\* Where the sentences in a sequence of characters end.
Ends(chars) == {k \in DOMAIN chars : chars[k] # <<>>}

\* Where the first of them does.
FirstEnd(chars) == CHOOSE k \in Ends(chars) : \A l \in Ends(chars) : k <= l

Room_Less(i) == \* mutant: one character less
  kMaxUARTBufLen - 2 - held[i]

\* How many characters more the loop of ReceivePacket() puts into uart_rx_buf_.
Room(i) == kMaxUARTBufLen - 1 - held[i]

\* Those in the FIFO that there is room for.
Fitting(i) ==
  SubSeq(fifo[i], 1, IF Len(fifo[i]) <= Room(i) THEN Len(fifo[i]) ELSE Room(i))

\* ReceivePacket(): the characters Update() takes from the FIFO, all that fit up to
\* the end of a sentence.
Taken(i) ==
  IF Blocked(i) THEN <<>>
  ELSE IF Ends(Fitting(i)) = {} THEN Fitting(i)
  ELSE SubSeq(Fitting(i), 1, FirstEnd(Fitting(i)))

\* What it does with them: it handles a sentence and flushes the buffer, or keeps
\* them there.
Updated(i) ==
  IF Ends(Taken(i)) = {}
    THEN [cell |-> cell[i], out |-> <<>>, held |-> held[i] + Len(Taken(i))]
    ELSE LET p == Process(cell[i], Taken(i)[Len(Taken(i))][1])
         IN  [cell |-> p.cell, out |-> p.out, held |-> 0]

\* The character that comes in from the link before cell i (size + 1: the
\* master).
Arriving(i) == IF tx[i-1] = <<>> THEN <<>> ELSE <<Head(tx[i-1])>>

Left(i) == SubSeq(fifo[i], Len(Taken(i)) + 1, Len(fifo[i]))

(***************************************************************************)
(* The master.  Both programs send the next command as soon as readline()  *)
(* has returned (a user may take longer, which only empties the ring).     *)
(***************************************************************************)
Transmit_Twice(r) == \* mutant: sends a command again without waiting
  /\ ~ master.reading
  /\ master.sent < program.rounds
  /\ tx' = [tx EXCEPT ![0] = @ \o Chars(Packetize(r)) \o Chars(Packetize(r))]
  /\ master' = [master EXCEPT !.reading = TRUE, !.silent = 0, !.sent = @ + 1]
  /\ UNCHANGED <<size, program, cell, fifo, held, inbox, overrun>>

Transmit(r) ==
  /\ ~ master.reading
  /\ master.sent < program.rounds
  /\ tx' = [tx EXCEPT ![0] = @ \o Chars(Packetize(r))]
  /\ master' = [master EXCEPT !.reading = TRUE, !.silent = 0, !.sent = @ + 1]
  /\ UNCHANGED <<size, program, cell, fifo, held, inbox, overrun>>

ReadLine ==
  /\ master.reading
  /\ Ends(inbox) # {}
  /\ inbox' = SubSeq(inbox, FirstEnd(inbox) + 1, Len(inbox))
  /\ master' = [master EXCEPT !.reading = FALSE]
  /\ UNCHANGED <<size, program, cell, fifo, held, tx, overrun>>

\* readline() returns what it has when a character takes longer than the timeout.
ReadTimeout ==
  /\ master.reading
  /\ Ends(inbox) = {}
  /\ master.silent = program.timeout
  /\ inbox' = <<>>
  /\ master' = [master EXCEPT !.reading = FALSE, !.missed = @ + 1]
  /\ UNCHANGED <<size, program, cell, fifo, held, tx, overrun>>

Silence_PerLine(m) == \* mutant: a timeout for the whole line
  IF m.reading /\ tx[0] = <<>> THEN m.silent + 1 ELSE 0

\* The clock of readline() runs once flush() has returned, anew for each character.
Silence(m) ==
  IF m.reading /\ tx[0] = <<>> /\ Arriving(size + 1) = <<>> THEN m.silent + 1 ELSE 0

(***************************************************************************)
(* One character time.  The master's steps take none.  What follows an     *)
(* overrun is the chain's concern (SCBSChain, Lose and Garble).            *)
(***************************************************************************)
Tick ==
  /\ ~ overrun
  /\ IF master.reading THEN Ends(inbox) = {} /\ master.silent < program.timeout
                       ELSE master.sent = program.rounds
  /\ cell' = [i \in Cells |-> Updated(i).cell]
  /\ held' = [i \in Cells |-> Updated(i).held]
  /\ tx' = [i \in 0 .. size |->
              SubSeq(tx[i], 2, Len(tx[i])) \o
              (IF i = 0 \/ Updated(i).out = <<>> THEN <<>> ELSE Chars(Updated(i).out[1]))]
  /\ fifo' = [i \in Cells |->
                IF Len(Left(i)) < FifoDepth THEN Left(i) \o Arriving(i) ELSE Left(i)]
  /\ overrun' = \E i \in Cells : Len(Left(i)) = FifoDepth /\ Arriving(i) # <<>>
  /\ inbox' = inbox \o Arriving(size + 1)
  /\ master' = [master EXCEPT !.silent = Silence(master)]
  /\ UNCHANGED <<size, program>>

Next ==
  \/ \E r \in program.requests : Transmit(r)
  \/ ReadLine
  \/ ReadTimeout
  \/ Tick

Spec == Init /\ [][Next]_vars

-----------------------------------------------------------------------------
(***************************************************************************)
(* Properties.                                                             *)
(***************************************************************************)

TypeOK ==
  /\ size \in Sizes
  /\ program \in Programs
  /\ cell \in [Cells -> Cell]
  /\ \A i \in Cells : Len(fifo[i]) <= FifoDepth /\ held[i] \in 0 .. kMaxUARTBufLen - 1
  /\ \A i \in 0 .. size : Len(tx[i]) <= FifoDepth + kMaxPacketLen + 2
  /\ master \in [reading : BOOLEAN, silent : 0 .. program.timeout,
                 sent : 0 .. program.rounds, missed : 0 .. master.sent]
  /\ overrun \in BOOLEAN

\* How many cells the spammer's half second is enough for, when every one reports
\* a current of six characters.
SpammerReach == 10

\* In a healthy ring no readline times out: that of scbs_utils.py in none of Sizes,
\* whatever the command; that of the spammer up to its reach.  A sentence is sent on
\* only once it has arrived, so the time grows with the square of the number of
\* cells.
InTime ==
  program.name = "scbs_utils" \/ size <= SpammerReach => master.missed = 0

\* No cell of a healthy ring is deaf: in front of a full uart_rx_buf_, which is never
\* flushed.  That is so for sentences that fit, however many of them are in the ring.
NotDeaf == \A i \in Cells : Room(i) > 0

\* No receive FIFO overruns while Update() waits in uart_puts(), until a readline
\* has timed out: only then is there more than one sentence in the ring.  That is so
\* for requests that fit uart_rx_buf_: a longer one makes cell 1 deaf, and with
\* FifoDepth characters more an overrun.
NoOverrun == master.missed = 0 => ~ overrun

\* readline() never returns a part of an answer: when it times out nothing of the
\* next answer has come yet, though its timeout is that of a character.
WholeLines == [][ReadTimeout => inbox = <<>>]_vars

\* What comes back for a multiple read of a voltage or current has a value of each
\* cell if there is room for them all, and is an error if there is not.
ReadsComplete ==
  \A k \in Ends(inbox) : \E line \in {inbox[k][1]} :
    line.hdr = "MRD" /\ line.fields[1].n # kRegAddrReadFirmwareVersion
      => size <= kMaxNumValues /\ Len(line.fields) = 1 + size

=============================================================================
