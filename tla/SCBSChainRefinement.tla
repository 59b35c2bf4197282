------------------------ MODULE SCBSChainRefinement -------------------------
(***************************************************************************)
(* A chain without faults implements SCBSPack: although its cells handle   *)
(* several commands at once, each command takes effect as if the whole     *)
(* pack executed it when the master sent it.                               *)
(*                                                                         *)
(* The refinement mapping drains the chain: the abstract cell i is the     *)
(* state cell i will have when it has handled everything that is on the    *)
(* links before it, and the abstract replies are the sentences that will   *)
(* then be on the link to the master.  A command is executed when it       *)
(* enters the first link, a step of a cell changes nothing.                *)
(*                                                                         *)
(* The reading of the current sense is not the chain's to promise: it is   *)
(* sampled when a cell is done with a sentence, not when the master sends  *)
(* one.  The mapping takes it for 0.00 mA, so it is right where no reading *)
(* is asked for, or where nothing draws a current (ReadingHidden).         *)
(***************************************************************************)
EXTENDS SCBSChain

ReadingHidden ==
  \/ Currents = {0}
  \/ \A r \in Commands : r.addr # kRegAddrReadOutputCurrent

\* The cells without a load, and the lines of the sentences on each link.
NoLoad == [i \in Cells |-> [cell[i] EXCEPT !.amp = 0]]
Lines  == [i \in Links |-> [k \in DOMAIN wire[i] |-> wire[i][k].line]]

\* A cell with what it has transmitted so far, after one line more, and after lines.
Handled(x, line) ==
  LET r == Process(x.cell, line)
  IN  [cell |-> r.cell, out |-> x.out \o r.out]
After[t \in Cell \X Seq(Line)] ==
  LET upto[k \in 0 .. Len(t[2])] ==
        IF k = 0 THEN [cell |-> t[1], out |-> <<>>] ELSE Handled(upto[k-1], t[2][k])
  IN  upto[Len(t[2])]

\* All that is or will be on the links, once the links before them are drained.
Drained(cells, lines) ==
  LET on[i \in Links] ==
        IF i = 0 THEN lines[0] ELSE lines[i] \o After[<<cells[i], on[i-1]>>].out
  IN  on

PackCells   == [i \in Cells |-> After[<<NoLoad[i], Drained(NoLoad, Lines)[i-1]>>].cell]
PackReplies == Drained(NoLoad, Lines)[N]

Pack == INSTANCE SCBSPack WITH
  pack    <- PackCells,
  replies <- PackReplies,
  waiting <- master.waiting

\* The chain executes the commands one after the other, each on the whole pack:
\* pipelined handlers, consumed and replaced packets included.
ImplementsPack == Pack!Spec

=============================================================================
