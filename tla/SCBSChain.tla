----------------------------- MODULE SCBSChain ------------------------------
(***************************************************************************)
(* The daisy chain: a master running scbs_utils.py, N cells running        *)
(* SCBS::Update() in a loop, and the N + 1 serial links that join them in  *)
(* a ring,                                                                 *)
(*                                                                         *)
(*   master -- wire[0] -> cell 1 -- wire[1] -> ... cell N -- wire[N] ->    *)
(*                                                                         *)
(* each a FIFO of sentences.  Everything runs concurrently: a cell handles *)
(* the sentence at the head of its link whenever it gets to it, and after  *)
(* a timed out readline the master may send while sentences are still in   *)
(* flight.  Links damage sentences, cells lose power.                      *)
(*                                                                         *)
(* History variables record what no single part of the system knows: which *)
(* command a sentence descends from (its tag), which commands wrote a      *)
(* register of which cell, which command gave a cell its ID.               *)
(***************************************************************************)
EXTENDS SCBSCell

CONSTANTS
  N,             \* number of cells in the chain
  Commands,      \* the requests the user types
  Currents,      \* what the current sense ADC may read
  MasterTimeout, \* may a readline time out (5 s in scbs_utils, 0.5 s in spammer)
  FaultKinds,    \* the kinds of fault that may occur
  MaxCommands,   \* bound: commands sent in a behaviour
  MaxFaults      \* bound: faults in a behaviour

ASSUME ChainAssumption ==
  /\ N \in Nat \ {0}
  /\ Commands \subseteq Request
  /\ Currents \subseteq Current
  /\ Currents # {}
  /\ MasterTimeout \in BOOLEAN
  /\ FaultKinds \subseteq {"garble", "headless", "lose", "power"}
  /\ MaxCommands \in Nat
  /\ MaxFaults \in Nat

Cells == 1 .. N
Links == 0 .. N

VARIABLES
  cell,    \* cell[i]: the state of cell i
  wire,    \* wire[i]: sentences on the link out of cell i (0: the master)
  master,  \* the prompt loop: is it waiting in readline, the command that the
           \* answer printed last descends from, and (history) how many readlines
           \* have timed out
  sent,    \* history: the commands sent, in order
  wrote,   \* history: wrote[i], the commands that wrote a register of cell i
  named,   \* history: named[i], the DIS command cell i has its ID from
  faults   \* history: the kinds of the faults so far

vars == <<cell, wire, master, sent, wrote, named, faults>>

\* Sentences on a link, each with the index in sent of the command it descends
\* from.
Tagged(lines, tag) ==
  [k \in 1 .. Len(lines) |-> [line |-> lines[k], tag |-> tag]]

Init ==
  /\ cell \in [Cells -> BootCells]
  /\ wire = [i \in Links |-> <<>>]
  /\ master = [waiting |-> FALSE, answer |-> 0, missed |-> 0]
  /\ sent = <<>>
  /\ wrote = [i \in Cells |-> {}]
  /\ named = [i \in Cells |-> 0]
  /\ faults = <<>>

(***************************************************************************)
(* The master: transmit a command, then readline until an answer or the    *)
(* timeout.  The serial input buffer is never reset, so readline returns   *)
(* the oldest sentence that has come back, whatever it answers.            *)
(***************************************************************************)
Transmit(r) ==
  /\ ~ master.waiting
  /\ Len(sent) < MaxCommands
  /\ sent' = Append(sent, r)
  /\ wire' = [wire EXCEPT ![0] = @ \o Tagged(<<Packetize(r)>>, Len(sent) + 1)]
  /\ master' = [master EXCEPT !.waiting = TRUE]
  /\ UNCHANGED <<cell, wrote, named, faults>>

ReadLine ==
  /\ master.waiting
  /\ wire[N] # <<>>
  /\ master' = [master EXCEPT !.waiting = FALSE, !.answer = Head(wire[N]).tag]
  /\ wire' = [wire EXCEPT ![N] = Tail(@)]
  /\ UNCHANGED <<cell, sent, wrote, named, faults>>

ReadTimeout ==
  /\ MasterTimeout
  /\ master.waiting
  /\ wire[N] = <<>>
  /\ master' = [master EXCEPT !.waiting = FALSE, !.missed = @ + 1]
  /\ UNCHANGED <<cell, wire, sent, wrote, named, faults>>

(***************************************************************************)
(* One pass of SCBS::Update() of cell i that completes a sentence: parse,  *)
(* handle, transmit, flush, then sample the current.  A pass that does not *)
(* complete one only samples the current (and drives the PWM and the LED,  *)
(* which no handler reads).                                                *)
(***************************************************************************)
Update_NoFlush(i) == \* mutant: FlushUARTBuf() forgotten, handled again
  /\ wire[i-1] # <<>>
  /\ LET s == Head(wire[i-1])
         r == Process(cell[i], s.line)
     IN  /\ cell' = [cell EXCEPT ![i] = r.cell]
         /\ wire' = [wire EXCEPT ![i] = @ \o Tagged(r.out, s.tag)]
         /\ Len(wire[i]) < 3
  /\ UNCHANGED <<master, sent, wrote, named, faults>>

Update(i) ==
  /\ wire[i-1] # <<>>
  /\ \E s \in {Head(wire[i-1])} : \E r \in {Process(cell[i], s.line)} :
       /\ \E a \in Currents :
            cell' = [cell EXCEPT ![i] = [r.cell EXCEPT !.amp = a]]
       /\ wire' = [wire EXCEPT ![i-1] = Tail(@), ![i] = @ \o Tagged(r.out, s.tag)]
       /\ wrote' = IF r.did = "write"
                     THEN [wrote EXCEPT ![i] = @ \cup {s.tag}] ELSE wrote
       /\ named' = IF r.did = "name" THEN [named EXCEPT ![i] = s.tag] ELSE named
  /\ UNCHANGED <<master, sent, faults>>

UpdateIdle(i) ==
  /\ \E a \in Currents : cell' = [cell EXCEPT ![i].amp = a]
  /\ UNCHANGED <<wire, master, sent, wrote, named, faults>>

(***************************************************************************)
(* Faults of the links: damage that changes the checksum; damage to the    *)
(* '$' where a checksum follows that reads 0 (its contents XOR to 0, or it *)
(* was damaged with it); a sentence that never arrives (a broken           *)
(* connection, an overrun of the receive FIFO while Update() is busy       *)
(* transmitting).  A fault of a cell: a power cycle, which loses its RAM,  *)
(* what its receive FIFO held and what arrives while Init() runs.          *)
(***************************************************************************)
Fault(kind) ==
  /\ kind \in FaultKinds
  /\ Len(faults) < MaxFaults
  /\ faults' = Append(faults, kind)

Damaged(s, start, sum) == [s EXCEPT !.line.start = start, !.line.sum = sum]

Garble(i) ==
  /\ Fault("garble")
  /\ wire[i] # <<>>
  /\ wire' = [wire EXCEPT ![i][1] = Damaged(@, @.line.start, "other")]
  /\ UNCHANGED <<cell, master, sent, wrote, named>>

Headless(i) ==
  /\ Fault("headless")
  /\ wire[i] # <<>>
  /\ wire' = [wire EXCEPT ![i][1] = Damaged(@, FALSE, "zero")]
  /\ UNCHANGED <<cell, master, sent, wrote, named>>

Lose(i) ==
  /\ Fault("lose")
  /\ wire[i] # <<>>
  /\ wire' = [wire EXCEPT ![i] = Tail(@)]
  /\ UNCHANGED <<cell, master, sent, wrote, named>>

PowerCycle(i) ==
  /\ Fault("power")
  /\ \E c \in BootCells : cell' = [cell EXCEPT ![i] = c]
  /\ \E k \in 0 .. Len(wire[i-1]) :
       wire' = [wire EXCEPT ![i-1] = SubSeq(@, k + 1, Len(@))]
  /\ named' = [named EXCEPT ![i] = 0]
  /\ UNCHANGED <<master, sent, wrote>>

Next ==
  \/ \E r \in Commands : Transmit(r)
  \/ ReadLine
  \/ ReadTimeout
  \/ \E i \in Cells : Update(i)
  \/ \E i \in Cells : UpdateIdle(i)
  \/ \E i \in Links : Garble(i)
  \/ \E i \in Links : Headless(i)
  \/ \E i \in Links : Lose(i)
  \/ \E i \in Cells : PowerCycle(i)

Spec == Init /\ [][Next]_vars

\* main() calls Update() in an endless loop, so a sentence that has arrived is
\* handled: weak fairness of Update(i), with its guard for ENABLED.  readline
\* returns once a sentence is there.  Nothing makes the user type, a readline
\* time out or a fault happen.
UpdateFairness(i) == []<>(wire[i-1] = <<>>) \/ []<><<Update(i)>>_vars

FairSpec == Spec /\ WF_vars(ReadLine) /\ \A i \in Cells : UpdateFairness(i)


-----------------------------------------------------------------------------
(***************************************************************************)
(* Properties.                                                             *)
(***************************************************************************)

\* The sentences on link i.
At(i) == {wire[i][k] : k \in DOMAIN wire[i]}

\* Types.  That a wire carries WellFormed lines says that no strtok() of a
\* handler finds the end of a sentence where it needs a field, that a cell is a
\* Cell that output_voltage_ stays on the rails, or is not a number, and
\* cell_id_ is a uint16_t.
TypeOK ==
  /\ cell \in [Cells -> Cell]
  /\ wire \in [Links -> Seq([line : {l \in Line : WellFormed(l)}, tag : Nat])]
  /\ master \in [waiting : BOOLEAN, answer : Nat, missed : Nat]
  /\ sent \in Seq(Commands)
  /\ wrote \in [Cells -> SUBSET Nat]
  /\ named \in [Cells -> Nat]
  /\ faults \in Seq(FaultKinds)

\* Each command has at most one descendant, and they come back in the order the
\* commands were sent: along a link, from each link to the ones before it, and
\* behind the answer printed last.  So no answer is printed twice, and none
\* overtakes an older one, whatever is lost, damaged or late.
InOrder ==
  /\ \A i \in Links : \A k \in DOMAIN wire[i] :
       /\ wire[i][k].tag \in 1 .. Len(sent)
       /\ master.answer < wire[i][k].tag
  /\ \A i \in Links : \A k, l \in DOMAIN wire[i] :
       k < l => wire[i][k].tag < wire[i][l].tag
  /\ \A i, j \in Links : i < j =>
       \A k \in DOMAIN wire[i], l \in DOMAIN wire[j] :
         wire[j][l].tag < wire[i][k].tag
  /\ master.answer <= Len(sent)

\* A multiple write that dies on the way (lost, damaged, a cell without power)
\* has written a prefix of the chain and nothing behind it, whatever the cells'
\* IDs and voltages.  There is no rollback: the prefix stays written.
WritesFormPrefix ==
  \A i \in Cells : \A s \in wrote[i] :
    sent[s].type = "MWR" => \A j \in 1 .. i : s \in wrote[j]

\* The echo of a multiple write is its success reply (it carries no OK): behind
\* cell i it tells that cells 1 to i wrote the register and no other did, so at
\* the master that all did.
EchoMeansWritten ==
  \A i \in Links : \A x \in At(i) : x.line.hdr = "MWR" =>
    \A j \in Cells : x.tag \in wrote[j] <=> j <= i

\* A single write reaches at most one cell, even when IDs are ambiguous (before
\* discovery, after a power cycle): the first match consumes it.
SingleWriteOnce ==
  \A i, j \in Cells : \A s \in wrote[i] \cap wrote[j] :
    sent[s].type = "SWR" => i = j

\* No sentence was changed in a way that the checksum does not show.
Detected == \A k \in DOMAIN faults : faults[k] # "headless"

\* What comes back for a single write tells whether it was executed: OK exactly
\* when a cell wrote, an error or the packet itself when none did.
OkMeansWritten ==
  Detected => \A i \in Links : \A x \in At(i) : sent[x.tag].type = "SWR" =>
    (IsOk(x.line) <=> \E j \in Cells : x.tag \in wrote[j])

\* An error that comes back for a multiple write means that no cell executed it
\* (the cell that refused it dropped the packet, and it was the first).
ErrorMeansUntouched ==
  Detected => \A i \in Links : \A x \in At(i) :
    IsErr(x.line) /\ sent[x.tag].type = "MWR" => \A j \in Cells : x.tag \notin wrote[j]

\* Discovery numbers the cells by position from the ID the master sent, modulo
\* 2^16, tells the master how many there are, and gives no two cells that it
\* reached the same ID: SWR and SRD can address them.
Discovery == Detected =>
  /\ \A i \in Cells : named[i] # 0 =>
       cell[i].id = (sent[named[i]].id + i) % IdSpace
  /\ \A i \in Links : \A x \in At(i) : x.line.hdr = "DIS" =>
       x.line.fields[1].n = (sent[x.tag].id + i) % IdSpace
  /\ \A i, j \in Cells : named[i] = named[j] /\ named[i] # 0 /\ i # j =>
       cell[i].id # cell[j].id \/ N > IdSpace

\* A multiple read collects one value from every cell it has passed, so the
\* reply to the master has one for each cell of the chain.
ReadFromAll ==
  \A i \in Links : \A x \in At(i) : x.line.hdr = "MRD" =>
    Len(x.line.fields) = 1 + i

\* A sentence whose start token was damaged is ignored: CalculateChecksum() looks
\* for the token, so BSPacket::FromString() need not.
StartTokenChecked ==
  [][\A i \in Cells : Update(i) /\ ~ Head(wire[i-1]).line.start
       => wire'[i] = wire[i]]_vars

\* Without faults every command is still in flight or has been answered in
\* turn: sentences are dropped for no other reason.
NothingLost ==
  faults = <<>> => {x.tag : x \in UNION {At(i) : i \in Links}}
                  = master.answer + 1 .. Len(sent)

\* readline() returns the oldest answer that is there, whatever was asked last.
\* So the answers lag behind the commands, but never by more than the number of
\* readlines that have timed out, whatever is lost, damaged or late.  Without a
\* timeout each answer is printed for the command it answers.
AnswersLag ==
  master.answer >= Len(sent) - master.missed - (IF master.waiting THEN 1 ELSE 0)

\* A command the master waits for is answered.
AllAnswered == master.waiting ~> ~ master.waiting

=============================================================================
