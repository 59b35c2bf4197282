------------------------------ MODULE SCBSPack ------------------------------
(***************************************************************************)
(* What a chain of simulators promises its master: a pack of N cells that  *)
(* executes every command at once on all of them, and a queue of replies   *)
(* in the order of the commands.  There are no links, no sentences in      *)
(* flight and no handlers; SCBSChain without faults implements it          *)
(* (SCBSChainRefinement).                                                  *)
(***************************************************************************)
EXTENDS SCBSCell

CONSTANTS N, Commands, MasterTimeout

Cells == 1 .. N

VARIABLES
  pack,     \* pack[i]: cell i
  replies,  \* the replies the master has not read yet
  waiting   \* does the master wait for one

packVars == <<pack, replies, waiting>>

Init ==
  /\ pack \in [Cells -> BootCells]
  /\ replies = <<>>
  /\ waiting = FALSE

Reply(type, fields) ==
  [hdr |-> type, start |-> TRUE, end |-> TRUE, sum |-> "xor", fields |-> fields]
From(i, text) == Reply("SRS", <<IdText(pack[i].id), Cut(text)>>)

\* Cell i is the one a single command is for: the first with that ID.
Addressed(i, r) == pack[i].id = r.id /\ \A j \in 1 .. i-1 : pack[j].id # r.id
Unaddressed(r)  == \A i \in Cells : pack[i].id # r.id

\* The code a write, a read is refused with.
WriteCode(addr) ==
  CASE addr = kRegAddrSetOutputVoltage  -> kErrCodeNone
    [] addr = kRegAddrReadOutputCurrent -> kErrCodeWriteNotSupported
    [] OTHER                            -> kErrCodeAddrNotRecognized
ReadCode(addr) ==
  IF addr \in Readable THEN kErrCodeNone ELSE kErrCodeAddrNotRecognized

Accept(newPack, reply) ==
  /\ pack' = newPack
  /\ replies' = Append(replies, reply)

Discover(r) ==
  /\ r.type = "DIS"
  /\ Accept([i \in Cells |-> [pack[i] EXCEPT !.id = (r.id + i) % IdSpace]],
            Reply("DIS", <<IdText((r.id + N) % IdSpace)>>))

\* All cells write and the command comes back, or none does and cell 1 refuses.
WriteAll(r) ==
  /\ r.type = "MWR"
  /\ IF WriteCode(r.addr) = kErrCodeNone
       THEN Accept([i \in Cells |-> [pack[i] EXCEPT !.volt = SettingOf(Cut(r.vals[1]))]],
                   Reply("MWR", <<AddrText(r.addr), Cut(r.vals[1])>>))
       ELSE Accept(pack, From(1, CodeText(WriteCode(r.addr))))

\* One value of every cell, in their order along the chain.  A chain longer than
\* an MRD packet has room for is refused by the first cell left out.
ReadAll(r) ==
  /\ r.type = "MRD"
  /\ LET values == [i \in 1 .. N |-> Cut(ReadRegister(pack[i], r.addr))]
     IN  Accept(pack,
           IF kMaxNumValues > 0 /\ ReadCode(r.addr) # kErrCodeNone
             THEN From(1, CodeText(ReadCode(r.addr)))
           ELSE IF N > kMaxNumValues
             THEN From(kMaxNumValues + 1, CodeText(kErrCodePacketLengthExceeded))
           ELSE Reply("MRD", <<AddrText(r.addr)>> \o values))

\* A single command nobody is addressed by comes back as it was sent.
WriteOne(r) ==
  /\ r.type = "SWR"
  /\ \/ /\ Unaddressed(r)
        /\ Accept(pack, Reply("SWR", <<IdText(r.id), AddrText(r.addr), Cut(r.vals[1])>>))
     \/ \E i \in Cells :
          /\ Addressed(i, r)
          /\ Accept(IF WriteCode(r.addr) = kErrCodeNone
                      THEN [pack EXCEPT ![i].volt = SettingOf(Cut(r.vals[1]))]
                      ELSE pack,
                    From(i, CodeText(WriteCode(r.addr))))

ReadOne(r) ==
  /\ r.type = "SRD"
  /\ \/ /\ Unaddressed(r)
        /\ Accept(pack, Reply("SRD", <<IdText(r.id), AddrText(r.addr)>>))
     \/ \E i \in Cells :
          /\ Addressed(i, r)
          /\ Accept(pack, From(i, IF ReadCode(r.addr) = kErrCodeNone
                                    THEN ReadRegister(pack[i], r.addr)
                                    ELSE CodeText(ReadCode(r.addr))))

\* A response runs through the pack.
Respond(r) ==
  /\ r.type = "SRS"
  /\ Accept(pack, Reply("SRS", <<IdText(r.id), Cut(r.vals[1])>>))

Execute(r) ==
  /\ ~ waiting
  /\ waiting' = TRUE
  /\ \/ Discover(r)
     \/ WriteAll(r)
     \/ ReadAll(r)
     \/ WriteOne(r)
     \/ ReadOne(r)
     \/ Respond(r)

ReadReply ==
  /\ waiting
  /\ replies # <<>>
  /\ replies' = Tail(replies)
  /\ waiting' = FALSE
  /\ UNCHANGED pack

GiveUp ==
  /\ MasterTimeout
  /\ waiting
  /\ waiting' = FALSE
  /\ UNCHANGED <<pack, replies>>

Next ==
  \/ \E r \in Commands : Execute(r)
  \/ ReadReply
  \/ GiveUp

Spec == Init /\ [][Next]_packVars

=============================================================================
