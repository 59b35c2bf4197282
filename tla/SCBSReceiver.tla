---------------------------- MODULE SCBSReceiver ----------------------------
(***************************************************************************)
(* How a cell collects a sentence: ReceivePacket(), AppendCharToUARTBuf()  *)
(* and FlushUARTBuf() of scbs.cc between the receive FIFO of the UART and  *)
(* the handlers.  Characters arrive while Update() runs; while it handles  *)
(* a sentence and transmits the reply (uart_puts() waits for the line) it  *)
(* takes none out of the FIFO.                                             *)
(*                                                                         *)
(* SCBSChain takes for granted what is shown here: Update() handles the    *)
(* sentences sent to it, one at a time, whole and in order.                *)
(***************************************************************************)
EXTENDS Integers, Sequences, FiniteSets

LOCAL INSTANCE SequencesExt

CONSTANTS
  kMaxUARTBufLen,  \* 200
  FifoDepth,       \* 32: the receive FIFO of the UART
  Plain,           \* the characters of a sentence
  EOL,             \* '\n'
  NUL,             \* '\0', what a break or noise on the line may read as
  MaxLine,         \* the longest sentence sent to the cell, with its '\n'
  MaxArrivals      \* bound: characters sent in a behaviour

Char == Plain \cup {EOL, NUL}

ASSUME ReceiverAssumption ==
  /\ kMaxUARTBufLen \in Nat \ {0, 1}
  /\ FifoDepth \in Nat \ {0}
  /\ EOL \notin Plain /\ NUL \notin Plain /\ EOL # NUL
  /\ MaxLine \in Nat \ {0}
  /\ MaxArrivals \in Nat

VARIABLES
  fifo,      \* characters in the FIFO
  buf,       \* uart_rx_buf_ up to its terminator
  len,       \* uart_rx_buf_len_
  handling,  \* ReceivePacket() has returned a sentence to Update()
  sentLen,   \* history: length of the sentence now being sent
  whole,     \* history: every sentence so far fits the buffer, none has lost its
             \* end of line to a full FIFO
  arrived,   \* history: all that was put in the FIFO
  handed,    \* history: all that was handed to the handlers
  arrivals   \* number of characters sent so far

vars == <<fifo, buf, len, handling, sentLen, whole, arrived, handed, arrivals>>

Init ==
  /\ fifo = <<>>
  /\ buf = <<>>
  /\ len = 0
  /\ handling = FALSE
  /\ sentLen = 0
  /\ whole = TRUE
  /\ arrived = <<>>
  /\ handed = <<>>
  /\ arrivals = 0

(***************************************************************************)
(* The line: sentences of at most MaxLine characters.  A character that    *)
(* finds the FIFO full is lost.                                            *)
(***************************************************************************)
Arrive(c) ==
  /\ arrivals < MaxArrivals
  /\ arrivals' = arrivals + 1
  /\ c = EOL \/ sentLen + 1 < MaxLine
  /\ sentLen' = IF c = EOL THEN 0 ELSE sentLen + 1
  /\ \/ /\ Len(fifo) < FifoDepth
        /\ fifo' = Append(fifo, c)
        /\ arrived' = Append(arrived, c)
        /\ whole' = (whole /\ sentLen' + 1 < kMaxUARTBufLen)
     \/ /\ Len(fifo) = FifoDepth
        /\ whole' = (whole /\ sentLen' + 1 < kMaxUARTBufLen /\ c # EOL)
        /\ UNCHANGED <<fifo, arrived>>
  /\ UNCHANGED <<buf, len, handling, handed>>

\* strncat() appends at the terminator: nothing for a NUL.
AppendCharToUARTBuf(c) ==
  /\ buf' = IF c = NUL THEN buf ELSE Append(buf, c)
  /\ len' = len + 1

FlushUARTBuf ==
  /\ buf' = <<>>
  /\ len' = 0

CanTake_Full == len <= kMaxUARTBufLen - 1 \* mutant: one character more

CanTake_Short == len < kMaxUARTBufLen - 2 \* mutant: one character less

\* The condition of the loop of ReceivePacket() on the buffer.
CanTake == len < kMaxUARTBufLen - 1

(***************************************************************************)
(* One round of the loop of ReceivePacket().  The branch of a sentence that*)
(* is too long is there, as it is in the code; the loop condition has      *)
(* excluded it.                                                            *)
(***************************************************************************)
ReceiveChar ==
  /\ ~ handling
  /\ fifo # <<>>
  /\ CanTake
  /\ fifo' = Tail(fifo)
  /\ handling' = (Head(fifo) = EOL)
  /\ IF Head(fifo) # EOL /\ len >= kMaxUARTBufLen
       THEN FlushUARTBuf
       ELSE AppendCharToUARTBuf(Head(fifo))
  /\ UNCHANGED <<sentLen, whole, arrived, handed, arrivals>>

HandleSentence_NoFlush == \* mutant: FlushUARTBuf() forgotten
  /\ handling
  /\ handling' = FALSE
  /\ handed' = handed \o buf
  /\ UNCHANGED <<fifo, buf, len, sentLen, whole, arrived, arrivals>>

\* The rest of Update(): handlers, reply, flush.
HandleSentence ==
  /\ handling
  /\ handling' = FALSE
  /\ handed' = handed \o buf
  /\ FlushUARTBuf
  /\ UNCHANGED <<fifo, sentLen, whole, arrived, arrivals>>

Next ==
  \/ \E c \in Char : Arrive(c)
  \/ ReceiveChar
  \/ HandleSentence

Spec == Init /\ [][Next]_vars

\* main() calls Update() in an endless loop and each call runs to its end.
FairSpec == Spec /\ WF_vars(ReceiveChar) /\ WF_vars(HandleSentence)

-----------------------------------------------------------------------------
(***************************************************************************)
(* Properties.                                                             *)
(***************************************************************************)

\* Types, and the bound that memory safety hangs on: strncat() keeps a string
\* and its terminator inside uart_rx_buf_[kMaxUARTBufLen].
TypeOK ==
  /\ fifo \in Seq(Char) /\ Len(fifo) <= FifoDepth
  /\ buf \in Seq(Char \ {NUL}) /\ Len(buf) + 1 <= kMaxUARTBufLen
  /\ len \in 0 .. kMaxUARTBufLen - 1
  /\ handling \in BOOLEAN
  /\ sentLen \in Nat
  /\ whole \in BOOLEAN
  /\ arrived \in Seq(Char)
  /\ handed \in Seq(Char \ {NUL})
  /\ arrivals \in Nat

\* The buffer never holds more characters than the counter the loop is guarded
\* with, though NULs are counted and not stored; and it holds one sentence: an
\* end of line is the last thing in it, there exactly while Update() handles it.
OneSentence ==
  /\ Len(buf) <= len
  /\ \A k \in DOMAIN buf : buf[k] = EOL <=> handling /\ k = Len(buf)
  /\ handling => buf # <<>>

\* Nothing that arrived is handed over twice, skipped or reordered, across the
\* flush and across characters that arrive during a reply.
Printable(s) ==
  LET kept[k \in 0 .. Len(s)] ==
        IF k = 0 THEN <<>>
        ELSE IF s[k] = NUL THEN kept[k-1]
        ELSE Append(kept[k-1], s[k])
  IN  kept[Len(s)]
NothingSkipped == handed \o buf \o Printable(fifo) = Printable(arrived)

\* The receiver is stuck: the buffer is full without an end of line in it.
Deaf == ~ handling /\ len = kMaxUARTBufLen - 1

\* As long as every sentence fits and none loses its end of line, it is not, even
\* if other characters are lost, or are NULs, or arrive during a reply.
NeverDeaf == whole => ~ Deaf

\* Until then every sentence that has arrived is eventually handled: the nth end
\* of line is handed over.
NumLines(s) == Len(SelectSeq(s, LAMBDA c : c = EOL))
Heard ==
  \A n \in 1 .. MaxArrivals :
    NumLines(arrived) >= n ~> NumLines(handed) >= n \/ ~ whole

\* A sentence that is too long is aborted and the buffer used again.
Resync == Deaf ~> len = 0

=============================================================================
