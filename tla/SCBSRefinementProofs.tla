------------------------ MODULE SCBSRefinementProofs ------------------------
(***************************************************************************)
(* A chain without faults is a pack that executes every command at once:   *)
(* SCBSChain implements SCBSPack, for every number of cells, set of        *)
(* commands and number of sentences in flight.                             *)
(***************************************************************************)
EXTENDS SCBSChainRefinement, SCBSChainProofs

-----------------------------------------------------------------------------
(***************************************************************************)
(* What a cell makes of a sequence of lines.                               *)
(***************************************************************************)

\* A cell and what it has transmitted.
Done == [cell : Cell, out : Seq(GoodLine)]

LEMMA LinesConcat ==
  \A a, b, d \in Seq(GoodLine) : (a \o b) \o d = a \o (b \o d)
BY ConcatAssociative

\* What a cell transmits for one line.
LEMMA ProcessOut ==
  ASSUME NEW c \in Cell, NEW line \in GoodLine
  PROVE  Process(c, line).cell \in Cell /\ Process(c, line).out \in Seq(GoodLine)
<1> DEFINE r == Process(c, line)
<1>1. /\ r.cell \in Cell
      /\ r.out = <<>> \/ \E l \in GoodLine : r.out = <<l>>
  BY ProcessPost DEF SentencePost
<1>. HIDE DEF r
<1>2. <<>> \in Seq(GoodLine) /\ \A l \in GoodLine : <<l>> \in Seq(GoodLine)
  OBVIOUS
<1>3. r.out \in Seq(GoodLine)
  BY <1>1, <1>2, ZenonT(60)
<1>. QED
  BY <1>1, <1>3 DEF r

LEMMA HandledType ==
  ASSUME NEW x \in Done, NEW line \in GoodLine
  PROVE  Handled(x, line) \in Done
<1>1. x.cell \in Cell /\ x.out \in Seq(GoodLine)
  BY DEF Done
<1>2. /\ Process(x.cell, line).cell \in Cell
      /\ Process(x.cell, line).out \in Seq(GoodLine)
  BY <1>1, ProcessOut
<1>3. x.out \o Process(x.cell, line).out \in Seq(GoodLine)
  BY <1>1, <1>2, ConcatProperties, ZenonT(60)
<1>. QED
  BY <1>2, <1>3 DEF Handled, Done

\* f counts up what a cell c has done after each of the lines s.
Steps(f, c, s) ==
  /\ f[0] = [cell |-> c, out |-> <<>>]
  /\ \A k \in 1 .. Len(s) : f[k] = Handled(f[k-1], s[k])

LEMMA AfterSteps ==
  ASSUME NEW c \in Cell, NEW s \in Seq(GoodLine)
  PROVE  \E f \in [0 .. Len(s) -> Done] : Steps(f, c, s) /\ After[<<c, s>>] = f[Len(s)]
<1> DEFINE n == Len(s)
           a == [cell |-> c, out |-> <<>>]
           step == [k \in 1 .. n |-> [x \in Done |-> Handled(x, s[k])]]
           Is(f) == f = [k \in 0 .. n |-> IF k = 0 THEN a ELSE Handled(f[k-1], s[k])]
           h == CHOOSE f : Is(f)
<1>1. n \in Nat /\ \A k \in 1 .. n : s[k] \in GoodLine
  BY LenProperties, ElementOfSeq
<1>2. a \in Done
  BY DEF Done
<1>3. step \in [1 .. n -> [Done -> Done]]
  BY <1>1, HandledType
<1>4. After[<<c, s>>] = h[n]
  <2>1. s \in Seq(Line)
    BY DEF GoodLine
  <2>2. /\ <<c, s>> \in Cell \X Seq(Line)
        /\ <<c, s>>[1] = c /\ <<c, s>>[2] = s
    BY <2>1
  <2> DEFINE t == <<c, s>>
  <2>. HIDE DEF t
  <2>3. t \in Cell \X Seq(Line) /\ t[1] = c /\ t[2] = s
    BY <2>2 DEF t
  <2>4. After[t] = h[n]
    BY <2>3, Zenon DEF After
  <2>. QED
    BY <2>4 DEF t
<1>. HIDE DEF a, n
<1>5. PICK f : Solves(f, Done, n, a, step)
  <2>1. n \in Nat
    BY <1>1
  <2>2. StepsIn(Done, n, step)
    <3>. HIDE DEF step
    <3>. QED
      BY <1>3 DEF StepsIn
  <2>. HIDE DEF step
  <2>. QED
    BY <2>1, <1>2, <2>2, Recursion
<1>6. Is(f)
  <2>1. \A k \in 0 .. n : k # 0 => k \in 1 .. n /\ f[k-1] \in Done
    <3>1. f \in [0 .. n -> Done]
      BY <1>5 DEF Solves
    <3>2. \A k \in 0 .. n : k # 0 => k \in 1 .. n /\ k - 1 \in 0 .. n
      BY <1>1
    <3>. QED
      BY <3>1, <3>2
  <2>2. \A k \in 0 .. n : k # 0 => step[k][f[k-1]] = Handled(f[k-1], s[k])
    BY <2>1
  <2>3. /\ f = [k \in 0 .. n |-> f[k]]
        /\ \A k \in 0 .. n : f[k] = IF k = 0 THEN a ELSE step[k][f[k-1]]
    <3>. HIDE DEF step
    <3>. QED
      BY <1>1, <1>5 DEF Solves
  <2>. HIDE DEF step
  <2>. QED
    BY <2>2, <2>3
<1>7. Is(h)
  <2>. HIDE DEF Is
  <2>. QED
    BY <1>6
<1>. HIDE DEF h
<1>8. h[0] = a /\ \A k \in 1 .. n : h[k] = Handled(h[k-1], s[k])
  BY <1>1, <1>7
<1>9. h \in [0 .. n -> Done]
  <2> DEFINE T == {k \in 0 .. n : h[k] \in Done}
  <2>1. 0 \in T
    BY <1>1, <1>2, <1>8
  <2>2. ASSUME NEW k \in 1 .. n, k - 1 \in T
        PROVE  k \in T
    <3>1. k \in 0 .. n /\ h[k-1] \in Done /\ s[k] \in GoodLine
      BY <1>1, <2>2
    <3>2. h[k] = Handled(h[k-1], s[k])
      BY <1>8
    <3>. QED
      BY <3>1, <3>2, HandledType
  <2>3. 0 .. n \subseteq T
    <3>. HIDE DEF T
    <3>. QED
      BY <1>1, <2>1, <2>2, UptoInduction
  <2>. QED
    BY <1>7, <2>3
<1>10. Steps(h, c, s)
  BY <1>8 DEF Steps, a, n
<1>. QED
  BY <1>4, <1>9, <1>10 DEF n

LEMMA AfterType ==
  ASSUME NEW c \in Cell, NEW s \in Seq(GoodLine)
  PROVE  /\ After[<<c, s>>] \in Done
         /\ After[<<c, s>>].cell \in Cell /\ After[<<c, s>>].out \in Seq(GoodLine)
<1>1. PICK f \in [0 .. Len(s) -> Done] : After[<<c, s>>] = f[Len(s)]
  BY AfterSteps
<1>2. Len(s) \in 0 .. Len(s)
  BY LenProperties
<1>3. After[<<c, s>>] \in Done
  BY <1>1, <1>2
<1>. QED
  BY <1>3 DEF Done

LEMMA AfterNothing ==
  ASSUME NEW c \in Cell
  PROVE  After[<<c, <<>>>>] = [cell |-> c, out |-> <<>>]
<1> DEFINE s == <<>>
<1>1. s \in Seq(GoodLine) /\ Len(s) = 0
  OBVIOUS
<1>. HIDE DEF s
<1>2. PICK f : Steps(f, c, s) /\ After[<<c, s>>] = f[Len(s)]
  BY <1>1, AfterSteps
<1>3. After[<<c, s>>] = [cell |-> c, out |-> <<>>]
  BY <1>1, <1>2 DEF Steps
<1>. QED
  BY <1>3 DEF s

\* After one line more.
LEMMA AfterAppend ==
  ASSUME NEW c \in Cell, NEW s \in Seq(GoodLine), NEW l \in GoodLine
  PROVE  After[<<c, Append(s, l)>>] = Handled(After[<<c, s>>], l)
<1> DEFINE u == Append(s, l)
           n == Len(s)
<1>1. /\ u \in Seq(GoodLine) /\ n \in Nat /\ Len(u) = n + 1 /\ u[n+1] = l
      /\ \A k \in 1 .. n : u[k] = s[k]
  BY LenProperties, AppendProperties
<1>. HIDE DEF u
<1>2. PICK f : Steps(f, c, s) /\ After[<<c, s>>] = f[n]
  BY AfterSteps
<1>3. PICK g : Steps(g, c, u) /\ After[<<c, u>>] = g[n+1]
  BY <1>1, AfterSteps
<1>. HIDE DEF n
<1> DEFINE T == {k \in 0 .. n : f[k] = g[k]}
<1>4. 0 \in T
  BY <1>1, <1>2, <1>3 DEF Steps
<1>5. ASSUME NEW k \in 1 .. n, k - 1 \in T
      PROVE  k \in T
  <2>1. f[k-1] = g[k-1] /\ k \in 0 .. n /\ k \in 1 .. n + 1 /\ s[k] = u[k]
    BY <1>1, <1>5
  <2>2. f[k] = Handled(f[k-1], s[k])
    BY <1>2 DEF Steps, n
  <2>3. g[k] = Handled(g[k-1], u[k])
    BY <1>1, <1>3, <2>1 DEF Steps
  <2>. QED
    BY <2>1, <2>2, <2>3
<1>6. 0 .. n \subseteq T
  <2>. HIDE DEF T
  <2>. QED
    BY <1>1, <1>4, <1>5, UptoInduction
<1>7. f[n] = g[n] /\ n + 1 \in 1 .. n + 1 /\ (n + 1) - 1 = n
  BY <1>1, <1>6
<1>8. g[n+1] = Handled(g[n], u[n+1])
  BY <1>1, <1>3, <1>7 DEF Steps
<1>. QED
  BY <1>1, <1>2, <1>3, <1>7, <1>8 DEF u

\* The first line first.
LEMMA AfterHead ==
  ASSUME NEW c \in Cell, NEW s \in Seq(GoodLine), s # <<>>
  PROVE  LET r == Process(c, Head(s))
             a == After[<<r.cell, Tail(s)>>]
         IN  After[<<c, s>>] = [cell |-> a.cell, out |-> r.out \o a.out]
<1> DEFINE r == Process(c, Head(s))
           u == Tail(s)
           n == Len(u)
           R == r.out
<1>1. /\ Head(s) \in GoodLine /\ Head(s) = s[1] /\ u \in Seq(GoodLine)
      /\ n \in Nat /\ Len(s) = n + 1 /\ \A k \in 1 .. n : u[k] = s[k+1]
  BY EmptySeq, HeadTailProperties, LenProperties
<1>2. r.cell \in Cell /\ R \in Seq(GoodLine)
  BY <1>1, ProcessOut
<1>. HIDE DEF u, r
<1>3. PICK f : Steps(f, c, s) /\ After[<<c, s>>] = f[n+1]
  BY <1>1, AfterSteps
<1>4. PICK g : /\ g \in [0 .. n -> Done] /\ Steps(g, r.cell, u)
               /\ After[<<r.cell, u>>] = g[n]
  BY <1>1, <1>2, AfterSteps
<1>. HIDE DEF n
<1> DEFINE T == {k \in 0 .. n : f[k+1] = [cell |-> g[k].cell, out |-> R \o g[k].out]}
<1>5. 0 \in T
  <2>1. f[0] = [cell |-> c, out |-> <<>>]
    BY <1>3 DEF Steps
  <2>2. f[1] = Handled(f[0], s[1])
    <3>1. 1 \in 1 .. Len(s) /\ 1 - 1 = 0
      BY <1>1
    <3>. QED
      BY <1>3, <3>1 DEF Steps
  <2>. HIDE DEF R
  <2>3. <<>> \o R = R /\ R \o <<>> = R
    BY <1>2
  <2>4. f[1] = [cell |-> r.cell, out |-> <<>> \o R]
    BY <1>1, <2>1, <2>2 DEF Handled, r, R
  <2>5. g[0].cell = r.cell /\ g[0].out = <<>>
    BY <1>4 DEF Steps
  <2>6. 0 \in 0 .. n /\ 0 + 1 = 1
    BY <1>1
  <2>7. f[0+1] = [cell |-> g[0].cell, out |-> R \o g[0].out]
    BY <2>3, <2>4, <2>5, <2>6, Zenon
  <2>. QED
    BY <2>6, <2>7
<1>6. ASSUME NEW k \in 1 .. n, k - 1 \in T
      PROVE  k \in T
  <2> DEFINE x == g[k-1]
             q == Process(x.cell, u[k])
             X == x.out
             Q == q.out
  <2>1. /\ k \in 0 .. n /\ k - 1 \in 0 .. n /\ k + 1 \in 1 .. Len(s)
        /\ (k + 1) - 1 = k /\ (k - 1) + 1 = k /\ u[k] = s[k+1] /\ u[k] \in GoodLine
    BY <1>1, ElementOfSeq
  <2>2. f[k].cell = x.cell /\ f[k].out = R \o X
    <3>1. f[(k-1)+1] = [cell |-> g[k-1].cell, out |-> R \o g[k-1].out]
      BY <1>6
    <3>2. f[k] = [cell |-> x.cell, out |-> R \o X]
      BY <2>1, <3>1, Zenon
    <3>. HIDE DEF x, X, R
    <3>. QED
      BY <3>2
  <2>3. f[k+1] = Handled(f[k], s[k+1])
    BY <1>3, <2>1 DEF Steps
  <2>4. g[k] = Handled(x, u[k])
    BY <1>4 DEF Steps, n
  <2>5. x.cell \in Cell /\ X \in Seq(GoodLine)
    BY <1>4, <2>1 DEF Done
  <2>6. Q \in Seq(GoodLine)
    BY <2>1, <2>5, ProcessOut
  <2>7. f[k+1] = [cell |-> q.cell, out |-> (R \o X) \o Q]
    <3>. HIDE DEF x, R
    <3>. QED
      BY <2>1, <2>2, <2>3 DEF Handled
  <2>8. g[k].cell = q.cell /\ g[k].out = X \o Q
    <3>1. g[k] = [cell |-> q.cell, out |-> X \o Q]
      BY <2>4, Zenon DEF Handled
    <3>. HIDE DEF q, X, Q
    <3>. QED
      BY <3>1
  <2>9. (R \o X) \o Q = R \o (X \o Q)
    <3>. HIDE DEF X, Q, R
    <3>. QED
      BY <1>2, <2>5, <2>6, LinesConcat, Zenon
  <2>. HIDE DEF x, q, X, Q, R
  <2>10. f[k+1] = [cell |-> g[k].cell, out |-> R \o g[k].out]
    BY <2>7, <2>8, <2>9, Zenon
  <2>. QED
    BY <2>1, <2>10
<1>7. 0 .. n \subseteq T
  <2>. HIDE DEF T
  <2>. QED
    BY <1>1, <1>5, <1>6, UptoInduction
<1>8. f[n+1] = [cell |-> g[n].cell, out |-> R \o g[n].out]
  <2>1. n \in 0 .. n
    BY <1>1
  <2>2. n \in T
    <3>. HIDE DEF T
    <3>. QED
      BY <1>7, <2>1
  <2>. QED
    BY <2>2
<1>. QED
  BY <1>3, <1>4, <1>8 DEF r, u

-----------------------------------------------------------------------------
(***************************************************************************)
(* What a drained chain has on its links.                                  *)
(***************************************************************************)

\* d is on the links when those before them are drained.
Drains(d, cells, lines) ==
  /\ d[0] = lines[0]
  /\ \A i \in Cells : d[i] = lines[i] \o After[<<cells[i], d[i-1]>>].out

LEMMA DrainedSteps ==
  ASSUME NEW cells \in [Cells -> Cell], NEW lines \in [Links -> Seq(GoodLine)]
  PROVE  /\ Drained(cells, lines) \in [Links -> Seq(GoodLine)]
         /\ Drains(Drained(cells, lines), cells, lines)
<1> DEFINE S == Seq(GoodLine)
           step == [i \in 1 .. N |-> [x \in S |-> lines[i] \o After[<<cells[i], x>>].out]]
           Is(f) == f = [i \in Links |-> IF i = 0 THEN lines[0]
                                         ELSE lines[i] \o After[<<cells[i], f[i-1]>>].out]
           h == CHOOSE f : Is(f)
<1>1. /\ N \in Nat /\ 0 \in Links /\ 1 .. N \subseteq Links
      /\ \A i \in Links : i # 0 => i \in 1 .. N /\ i - 1 \in 0 .. N
  BY ChainAssumption DEF Links
<1>2. Drained(cells, lines) = h
  BY Zenon DEF Drained
<1>3. \A i \in 1 .. N, x \in S : lines[i] \o After[<<cells[i], x>>].out \in S
  <2>. SUFFICES ASSUME NEW i \in 1 .. N, NEW x \in S
                PROVE  lines[i] \o After[<<cells[i], x>>].out \in S
    OBVIOUS
  <2>1. cells[i] \in Cell /\ lines[i] \in S
    BY <1>1 DEF Cells
  <2>2. After[<<cells[i], x>>].out \in S
    BY <2>1, AfterType
  <2>. QED
    BY <2>1, <2>2, ConcatProperties, ZenonT(60)
<1>4. step \in [1 .. N -> [S -> S]]
  <2>. HIDE DEF S
  <2>. QED
    BY <1>3
<1>5. lines[0] \in S
  BY <1>1
<1>6. PICK f : Solves(f, S, N, lines[0], step)
  <2>. HIDE DEF step, S
  <2>1. StepsIn(S, N, step)
    BY <1>4 DEF StepsIn
  <2>. QED
    BY <1>1, <1>5, <2>1, Recursion
<1>. HIDE DEF S
<1>7. Is(f)
  <2>1. \A i \in Links : i # 0 => i \in 1 .. N /\ f[i-1] \in S
    BY <1>1, <1>6 DEF Solves
  <2>2. \A i \in Links : i # 0 => step[i][f[i-1]] = lines[i] \o After[<<cells[i], f[i-1]>>].out
    BY <2>1
  <2>. HIDE DEF step
  <2>3. /\ f = [i \in Links |-> f[i]]
        /\ \A i \in Links : f[i] = IF i = 0 THEN lines[0] ELSE step[i][f[i-1]]
    BY <1>1, <1>6 DEF Solves, Links
  <2>. QED
    BY <2>2, <2>3
<1>8. Is(h)
  <2>. HIDE DEF Is
  <2>. QED
    BY <1>7
<1>. HIDE DEF h
<1>9. /\ h[0] = lines[0]
      /\ \A i \in 1 .. N : h[i] = lines[i] \o After[<<cells[i], h[i-1]>>].out
  <2>1. \A i \in 1 .. N : i \in Links /\ i # 0
    BY <1>1
  <2>. QED
    BY <1>1, <1>8, <2>1
<1>10. h \in [Links -> S]
  <2> DEFINE T == {i \in 0 .. N : h[i] \in S}
  <2>1. 0 \in T
    BY <1>1, <1>5, <1>9
  <2>2. ASSUME NEW i \in 1 .. N, i - 1 \in T
        PROVE  i \in T
    <3>1. i \in 0 .. N /\ h[i-1] \in S
      BY <1>1, <2>2
    <3>. HIDE DEF T
    <3>2. h[i] \in S
      BY <1>3, <1>9, <3>1
    <3>. QED
      BY <3>1, <3>2 DEF T
  <2>3. 0 .. N \subseteq T
    <3>. HIDE DEF T
    <3>. QED
      BY <1>1, <2>1, <2>2, UptoInduction
  <2>. QED
    BY <1>8, <2>3 DEF Links
<1>. QED
  BY <1>2, <1>9, <1>10 DEF Drains, S, Cells

\* Cell j handles the head of its link.
Handles(j, cs, ls, ds, ms) ==
  /\ ls[j-1] # <<>> /\ ms[j-1] = Tail(ls[j-1])
  /\ ds[j] = Process(cs[j], Head(ls[j-1])).cell
  /\ ms[j] = ls[j] \o Process(cs[j], Head(ls[j-1])).out
  /\ \A i \in Cells : i # j => ds[i] = cs[i]
  /\ \A i \in Links : i # j /\ i # j-1 => ms[i] = ls[i]
DrainsTheSame(cs, ls, ds, ms) ==
  /\ Drained(ds, ms)[N] = Drained(cs, ls)[N]
  /\ \A i \in Cells : After[<<ds[i], Drained(ds, ms)[i-1]>>].cell
                        = After[<<cs[i], Drained(cs, ls)[i-1]>>].cell

\* That changes nothing of this: what it transmits now it would have transmitted
\* first.
LEMMA DrainUpdate ==
  ASSUME NEW cs \in [Cells -> Cell], NEW ls \in [Links -> Seq(GoodLine)],
         NEW ds \in [Cells -> Cell], NEW ms \in [Links -> Seq(GoodLine)],
         NEW j \in Cells, Handles(j, cs, ls, ds, ms)
  PROVE  DrainsTheSame(cs, ls, ds, ms)
<1> DEFINE S == Seq(GoodLine)
           d == Drained(cs, ls)
           e == Drained(ds, ms)
           r == Process(cs[j], Head(ls[j-1]))
           R == r.out
           x == After[<<r.cell, e[j-1]>>]
           X == x.out
<1>1. d \in [Links -> S] /\ e \in [Links -> S] /\ Drains(d, cs, ls) /\ Drains(e, ds, ms)
  BY DrainedSteps
<1>. HIDE DEF d, e
<1>2. /\ N \in Nat /\ 0 \in Links /\ N \in Links /\ N \in 0 .. N /\ j \in 1 .. N /\ j \in Links
      /\ j - 1 \in Links /\ j - 1 # j /\ j \in Int /\ j # 0
  BY ChainAssumption DEF Links, Cells
<1>3. Head(ls[j-1]) \in GoodLine /\ ls[j-1] # <<>>
  BY <1>2, HeadTailProperties DEF Handles
<1>4. r.cell \in Cell /\ R \in S
  BY <1>3, ProcessOut
<1>5. /\ ds[j] = r.cell /\ \A i \in Cells : i # j => ds[i] = cs[i]
      /\ ms[j-1] = Tail(ls[j-1]) /\ ms[j] = ls[j] \o R
      /\ \A i \in Links : i # j /\ i # j-1 => ms[i] = ls[i]
  BY DEF Handles
<1>6. x \in Done /\ X \in S
  <2>1. e[j-1] \in S
    BY <1>1, <1>2
  <2>. QED
    BY <1>4, <2>1, AfterType DEF S
<1>. HIDE DEF r, R
\* The link to cell j had the line that is now gone.
<1> DEFINE T == {i \in 0 .. N : IF i = j - 1 THEN d[i] # <<>> /\ Head(d[i]) = Head(ls[i])
                                                  /\ Tail(d[i]) = e[i]
                                             ELSE e[i] = d[i]}
<1>7. ASSUME j - 1 \in T
      PROVE  After[<<cs[j], d[j-1]>>] = [cell |-> x.cell, out |-> R \o X]
  <2>1. /\ d[j-1] \in Seq(GoodLine) /\ d[j-1] # <<>> /\ Head(d[j-1]) = Head(ls[j-1])
        /\ Tail(d[j-1]) = e[j-1]
    BY <1>1, <1>2, <1>7
  <2>2. cs[j] \in Cell
    OBVIOUS
  <2>. DEFINE s == d[j-1]
  <2>. HIDE DEF s, x, X
  <2>3. LET q == Process(cs[j], Head(s))
            a == After[<<q.cell, Tail(s)>>]
        IN  After[<<cs[j], s>>] = [cell |-> a.cell, out |-> q.out \o a.out]
    BY <2>1, <2>2, AfterHead DEF s
  <2>. QED
    BY <2>1, <2>3 DEF s, r, R, x, X
\* Tails of concatenations.
<1>8. \A a, b \in S : a # <<>> => /\ a \o b # <<>> /\ Head(a \o b) = Head(a)
                                  /\ Tail(a \o b) = Tail(a) \o b
  OBVIOUS
<1>9. 0 \in T
  <2>1. d[0] = ls[0] /\ e[0] = ms[0]
    BY <1>1 DEF Drains
  <2>2. CASE 0 = j - 1
    <3>1. ms[0] = Tail(ls[0]) /\ ls[0] # <<>>
      BY <1>3, <1>5, <2>2
    <3>2. d[0] # <<>> /\ Head(d[0]) = Head(ls[0]) /\ Tail(d[0]) = e[0]
      BY <2>1, <3>1
    <3>3. 0 \in 0 .. N
      BY <1>2
    <3>. QED
      BY <2>2, <3>2, <3>3
  <2>3. CASE 0 # j - 1
    <3>1. ms[0] = ls[0]
      BY <1>2, <1>5, <2>3
    <3>. QED
      BY <1>2, <2>1, <2>3, <3>1
  <2>. QED
    BY <2>2, <2>3
<1>10. ASSUME NEW i \in 1 .. N, i - 1 \in T
       PROVE  i \in T
  <2> DEFINE p == After[<<cs[i], d[i-1]>>].out
             q == After[<<ds[i], e[i-1]>>].out
  <2>1. d[i] = ls[i] \o p /\ e[i] = ms[i] \o q
    BY <1>1 DEF Drains, Cells
  <2>2. i \in 0 .. N /\ i \in Cells /\ i \in Links /\ i - 1 \in Links /\ i - 1 # i
    BY <1>2 DEF Cells, Links
  <2>3. CASE i = j
    <3>1. e[j] = (ls[j] \o R) \o X
      <4>1. q = X
        BY <1>5, <2>3
      <4>. HIDE DEF q, X, R
      <4>. QED
        BY <1>5, <2>1, <2>3, <4>1, Zenon
    <3>2. d[j] = ls[j] \o (R \o X)
      <4>1. After[<<cs[j], d[j-1]>>] = [cell |-> x.cell, out |-> R \o X]
        <5>. HIDE DEF X, R, T, x
        <5>. QED
          BY <1>7, <1>10, <2>3
      <4>2. After[<<cs[j], d[j-1]>>].out = R \o X
        <5>. HIDE DEF X, R, T, x
        <5>. QED
          BY <4>1
      <4>. QED
        BY <2>1, <2>3, <4>2
    <3>3. (ls[j] \o R) \o X = ls[j] \o (R \o X)
      <4>1. ls[j] \in S
        BY <1>2
      <4>. HIDE DEF X, R
      <4>. QED
        BY <1>4, <1>6, <4>1, LinesConcat, Zenon
    <3>. QED
      BY <1>2, <2>2, <2>3, <3>1, <3>2, <3>3, Zenon
  <2>4. CASE i # j
    <3>1. i - 1 # j - 1 /\ i - 1 \in 0 .. N
      BY <1>2, <2>2, <2>4
    <3>2. e[i-1] = d[i-1] /\ ds[i] = cs[i]
      BY <1>5, <1>10, <2>2, <2>4, <3>1
    <3>3. p = q
      BY <3>2
    <3>. HIDE DEF p, q
    <3>4. CASE i = j - 1
      <4>1. p \in S
        <5>1. cs[i] \in Cell /\ d[i-1] \in Seq(GoodLine)
          BY <1>1, <2>2
        <5>. QED
          BY <5>1, AfterType DEF p, S
      <4>2. ls[i] \in S /\ ls[i] # <<>> /\ ms[i] = Tail(ls[i])
        BY <1>3, <1>5, <2>2, <3>4
      <4>3. d[i] # <<>> /\ Head(d[i]) = Head(ls[i]) /\ Tail(d[i]) = e[i]
        <5>1. d[i] = ls[i] \o p /\ e[i] = Tail(ls[i]) \o p
          BY <2>1, <3>3, <4>2
        <5> DEFINE a == ls[i]
        <5>2. a \in S /\ a # <<>> /\ p \in S
          BY <4>1, <4>2
        <5>. HIDE DEF a, S, T
        <5>3. a \o p # <<>> /\ Head(a \o p) = Head(a) /\ Tail(a \o p) = Tail(a) \o p
          BY <1>8, <5>2
        <5>4. d[i] = a \o p /\ e[i] = Tail(a) \o p
          BY <5>1 DEF a
        <5>. QED
          BY <5>3, <5>4 DEF a
      <4>. QED
        BY <2>2, <3>4, <4>3, Zenon
    <3>5. CASE i # j - 1
      <4>1. ms[i] = ls[i]
        BY <1>5, <2>2, <2>4, <3>5
      <4>2. e[i] = d[i]
        BY <2>1, <3>3, <4>1
      <4>. QED
        BY <2>2, <3>5, <4>2
    <3>. QED
      BY <3>4, <3>5
  <2>. QED
    BY <2>3, <2>4
<1>11. 0 .. N \subseteq T
  <2>. HIDE DEF T
  <2>. QED
    BY <1>2, <1>9, <1>10, UptoInduction
<1>12. d[N] = e[N]
  <2>1. N # j - 1
    BY <1>2
  <2>. QED
    BY <1>2, <1>11, <2>1
<1>13. ASSUME NEW i \in Cells
       PROVE  After[<<ds[i], e[i-1]>>].cell = After[<<cs[i], d[i-1]>>].cell
  <2>1. i - 1 \in 0 .. N /\ (i # j => i - 1 # j - 1)
    BY <1>2 DEF Cells
  <2>2. i - 1 \in T
    <3>. HIDE DEF T
    <3>. QED
      BY <1>11, <2>1
  <2>3. CASE i = j
    <3>1. After[<<cs[j], d[j-1]>>] = [cell |-> x.cell, out |-> R \o X]
      <4>. HIDE DEF T, x, X, R
      <4>. QED
        BY <1>7, <2>2, <2>3
    <3>2. After[<<ds[j], e[j-1]>>] = x
      BY <1>5
    <3>. HIDE DEF x, X
    <3>3. After[<<ds[j], e[j-1]>>].cell = After[<<cs[j], d[j-1]>>].cell
      BY <3>1, <3>2
    <3>. QED
      BY <2>3, <3>3, Zenon
  <2>4. CASE i # j
    <3>1. i - 1 \in T /\ i - 1 # j - 1 /\ ds[i] = cs[i]
      <4>. HIDE DEF T
      <4>. QED
        BY <1>5, <2>1, <2>2, <2>4
    <3>2. e[i-1] = d[i-1]
      BY <3>1
    <3>. QED
      BY <3>1, <3>2
  <2>. QED
    BY <2>3, <2>4
<1>. QED
  BY <1>12, <1>13 DEF d, e, DrainsTheSame

\* A line that enters the chain runs through the cells as they will be by then.
LEMMA DrainAppend ==
  ASSUME NEW cs \in [Cells -> Cell], NEW ls \in [Links -> Seq(GoodLine)],
         NEW ms \in [Links -> Seq(GoodLine)], NEW run \in [Links -> GoodLine],
         ms[0] = Append(ls[0], run[0]), \A i \in Cells : ms[i] = ls[i],
         \A i \in Cells :
           Process(After[<<cs[i], Drained(cs, ls)[i-1]>>].cell, run[i-1]).out = <<run[i]>>
  PROVE  /\ Drained(cs, ms)[N] = Append(Drained(cs, ls)[N], run[N])
         /\ \A i \in Cells :
              After[<<cs[i], Drained(cs, ms)[i-1]>>].cell
                = Process(After[<<cs[i], Drained(cs, ls)[i-1]>>].cell, run[i-1]).cell
<1> DEFINE S == Seq(GoodLine)
           d == Drained(cs, ls)
           e == Drained(cs, ms)
<1>1. d \in [Links -> S] /\ e \in [Links -> S] /\ Drains(d, cs, ls) /\ Drains(e, cs, ms)
  BY DrainedSteps
<1>2. \A i \in Cells : Process(After[<<cs[i], d[i-1]>>].cell, run[i-1]).out = <<run[i]>>
  OBVIOUS
<1>. HIDE DEF d, e
<1>3. /\ N \in Nat /\ 0 \in Links /\ N \in Links /\ N \in 0 .. N
      /\ \A i \in Cells : i \in Links /\ i - 1 \in Links /\ i \in 0 .. N /\ i - 1 \in 0 .. N
  BY ChainAssumption DEF Links, Cells
<1> DEFINE T == {i \in 0 .. N : e[i] = Append(d[i], run[i])}
<1>4. 0 \in T
  BY <1>1, <1>3 DEF Drains
<1>5. ASSUME NEW i \in Cells, i - 1 \in T
      PROVE  After[<<cs[i], e[i-1]>>] = Handled(After[<<cs[i], d[i-1]>>], run[i-1])
  <2>1. e[i-1] = Append(d[i-1], run[i-1])
    BY <1>5
  <2>2. cs[i] \in Cell /\ d[i-1] \in S /\ run[i-1] \in GoodLine
    BY <1>1, <1>3
  <2>3. After[<<cs[i], Append(d[i-1], run[i-1])>>] = Handled(After[<<cs[i], d[i-1]>>], run[i-1])
    BY <2>2, AfterAppend
  <2>. QED
    BY <2>1, <2>3
<1>6. ASSUME NEW i \in 1 .. N, i - 1 \in T
      PROVE  i \in T
  <2> DEFINE x == After[<<cs[i], d[i-1]>>]
             X == x.out
             l == run[i]
             a == ls[i]
  <2>1. i \in Cells /\ i \in 0 .. N /\ i \in Links /\ i - 1 \in Links
    BY <1>3 DEF Cells
  <2>2. d[i] = a \o X /\ e[i] = a \o After[<<cs[i], e[i-1]>>].out
    BY <1>1, <2>1 DEF Drains
  <2>3. After[<<cs[i], e[i-1]>>].out = X \o <<l>>
    <3>1. After[<<cs[i], e[i-1]>>] = Handled(x, run[i-1])
      <4>. HIDE DEF T, x
      <4>. QED
        BY <1>5, <1>6, <2>1 DEF x
    <3>2. Process(x.cell, run[i-1]).out = <<l>>
      BY <1>2, <2>1
    <3>. HIDE DEF x, X, l
    <3>3. Handled(x, run[i-1]).out = x.out \o <<l>>
      BY <3>2 DEF Handled
    <3>. QED
      BY <3>1, <3>3 DEF X
  <2>4. X \in S /\ a \in S /\ <<l>> \in S /\ l \in GoodLine
    <3>1. cs[i] \in Cell /\ d[i-1] \in S
      BY <1>1, <2>1
    <3>2. X \in S
      BY <3>1, AfterType
    <3>3. a \in S /\ l \in GoodLine
      BY <2>1
    <3>. HIDE DEF X, a, l
    <3>. QED
      BY <3>2, <3>3
  <2>. HIDE DEF x, X, l, a
  <2>5. a \o (X \o <<l>>) = (a \o X) \o <<l>>
    <3>. HIDE DEF T
    <3>. QED
      BY <2>4, LinesConcat, Zenon
  <2>6. (a \o X) \o <<l>> = Append(a \o X, l)
    <3>1. \A s \in S : \A y \in GoodLine : s \o <<y>> = Append(s, y)
      OBVIOUS
    <3>2. a \o X \in S
      BY <2>4, ConcatProperties, ZenonT(60)
    <3>. QED
      BY <2>4, <3>1, <3>2, Zenon
  <2>7. e[i] = Append(d[i], l)
    <3>1. e[i] = a \o (X \o <<l>>)
      BY <2>2, <2>3, Zenon
    <3>. QED
      BY <2>2, <2>5, <2>6, <3>1, Zenon
  <2>. QED
    BY <2>1, <2>7 DEF l
<1>7. 0 .. N \subseteq T
  <2>. HIDE DEF T
  <2>. QED
    BY <1>3, <1>4, <1>6, UptoInduction
<1>8. e[N] = Append(d[N], run[N])
  BY <1>3, <1>7
<1>9. ASSUME NEW i \in Cells
      PROVE  After[<<cs[i], e[i-1]>>].cell
               = Process(After[<<cs[i], d[i-1]>>].cell, run[i-1]).cell
  <2> DEFINE x == After[<<cs[i], d[i-1]>>]
  <2>1. i - 1 \in T
    <3>. HIDE DEF T
    <3>. QED
      BY <1>3, <1>7
  <2>2. After[<<cs[i], e[i-1]>>] = Handled(x, run[i-1])
    <3>. HIDE DEF T, x
    <3>. QED
      BY <1>5, <2>1 DEF x
  <2>. HIDE DEF x
  <2>. QED
    BY <2>2 DEF Handled, x
<1>. QED
  BY <1>8, <1>9 DEF d, e

-----------------------------------------------------------------------------
(***************************************************************************)
(* What a cell makes of each kind of sentence.                             *)
(***************************************************************************)

\* An undamaged sentence, and the object it was printed from or is read into.
Msg(type, fields) ==
  [hdr |-> type, start |-> TRUE, end |-> TRUE, sum |-> "xor", fields |-> fields]
Object(type, id, addr, vals) ==
  [type |-> type, valid |-> TRUE, id |-> id, addr |-> addr, vals |-> vals]

LEMMA MsgGood ==
  ASSUME NEW type \in PacketTypes, NEW fields \in Seq(Text), Len(fields) >= NumFields(type)
  PROVE  Msg(type, fields) \in GoodLine /\ IsValid(Msg(type, fields))
BY DEF Msg, GoodLine, Line, WellFormed, IsValid, ChecksumMatches

LEMMA ObjectType ==
  ASSUME NEW type \in PacketTypes, NEW id \in Id, NEW addr \in Int, NEW vals \in Seq(Text),
         type \in HasValue => Len(vals) = 1
  PROVE  Object(type, id, addr, vals) \in Packet
BY DEF Object, Packet

\* A short packet is printed with both of its tokens.
LEMMA EncodeMsg ==
  ASSUME Roomy, NEW p \in Packet, ShortPacket(p), p.type = "MRD" => p.valid
  PROVE  Encode(p) = Msg(p.type, Fields(p))
BY EncodeFits DEF Encode, Msg

\* One or two fields and a value, as sequences.
LEMMA ShortTuples ==
  ASSUME NEW x \in Text, NEW y \in Text, NEW z \in Text
  PROVE  /\ <<x>> \in Seq(Text) /\ <<x, y>> \in Seq(Text) /\ <<x, y, z>> \in Seq(Text)
         /\ Len(<<x>>) = 1 /\ Len(<<x, y>>) = 2 /\ Len(<<x, y, z>>) = 3
OBVIOUS

LEMMA GoodMsgs ==
  ASSUME NEW i \in Text, NEW a \in Text, NEW v \in Text
  PROVE  /\ Msg("DIS", <<i>>) \in GoodLine /\ Msg("SRD", <<i, a>>) \in GoodLine
         /\ Msg("MWR", <<a, v>>) \in GoodLine /\ Msg("SWR", <<i, a, v>>) \in GoodLine
         /\ Msg("SRS", <<i, v>>) \in GoodLine
<1>1. /\ <<i>> \in Seq(Text) /\ <<i, a>> \in Seq(Text) /\ <<a, v>> \in Seq(Text)
      /\ <<i, v>> \in Seq(Text) /\ <<i, a, v>> \in Seq(Text)
      /\ Len(<<i>>) = 1 /\ Len(<<i, a>>) = 2 /\ Len(<<a, v>>) = 2 /\ Len(<<i, v>>) = 2
      /\ Len(<<i, a, v>>) = 3
  BY ShortTuples
<1>2. /\ NumFields("DIS") = 1 /\ NumFields("SRD") = 2 /\ NumFields("MWR") = 2
      /\ NumFields("SWR") = 3 /\ NumFields("SRS") = 2
  BY DEF NumFields, HasId, HasAddr, HasValue
<1>3. {"DIS", "SRD", "MWR", "SWR", "SRS"} \subseteq PacketTypes
  BY DEF PacketTypes
<1>4. \A type \in PacketTypes, f \in Seq(Text), n \in Nat :
        Len(f) = n /\ NumFields(type) = n => Msg(type, f) \in GoodLine
  BY MsgGood
<1>5. 1 \in Nat /\ 2 \in Nat /\ 3 \in Nat
  OBVIOUS
<1>6. Msg("DIS", <<i>>) \in GoodLine
  BY <1>1, <1>2, <1>3, <1>4, <1>5
<1>7. Msg("SRD", <<i, a>>) \in GoodLine
  BY <1>1, <1>2, <1>3, <1>4, <1>5
<1>8. Msg("MWR", <<a, v>>) \in GoodLine
  BY <1>1, <1>2, <1>3, <1>4, <1>5
<1>9. Msg("SWR", <<i, a, v>>) \in GoodLine
  BY <1>1, <1>2, <1>3, <1>4, <1>5
<1>10. Msg("SRS", <<i, v>>) \in GoodLine
  BY <1>1, <1>2, <1>3, <1>4, <1>5
<1>. QED
  BY <1>6, <1>7, <1>8, <1>9, <1>10

\* Cutting twice is cutting once.
LEMMA CutCut == \A t \in Text : Cut(Cut(t)) = Cut(t)
BY PacketAssumption DEF Cut, Text

LEMMA IdKept == \A n \in Id : n % IdSpace = n /\ n \in Int
BY PacketAssumption DEF Id

\* What the objects without a sequence of values print.
LEMMA FieldsOf ==
  ASSUME NEW id \in Int, NEW addr \in Int, NEW v \in Text
  PROVE  /\ Fields(Object("DIS", id, addr, <<>>)) = <<IdText(id)>>
         /\ Fields(Object("SRD", id, addr, <<>>)) = <<IdText(id), AddrText(addr)>>
         /\ Fields(Object("MWR", id, addr, <<v>>)) = <<AddrText(addr), v>>
         /\ Fields(Object("SWR", id, addr, <<v>>)) = <<IdText(id), AddrText(addr), v>>
         /\ Fields(Object("SRS", id, addr, <<v>>)) = <<IdText(id), v>>
<1> DEFINE i == IdText(id)
           a == AddrText(addr)
<1>1. i \in Text /\ a \in Text
  BY TextTypes
<1>2. /\ Fields(Object("DIS", id, addr, <<>>)) = (<<i>> \o <<>>) \o <<>>
      /\ Fields(Object("SRD", id, addr, <<>>)) = (<<i>> \o <<a>>) \o <<>>
      /\ Fields(Object("MWR", id, addr, <<v>>)) = (<<>> \o <<a>>) \o <<v>>
      /\ Fields(Object("SWR", id, addr, <<v>>)) = (<<i>> \o <<a>>) \o <<v>>
      /\ Fields(Object("SRS", id, addr, <<v>>)) = (<<i>> \o <<>>) \o <<v>>
  BY DEF Fields, Object, HasId, HasAddr, HasValue
<1>. HIDE DEF i, a
<1>3. /\ <<i>> \o <<>> = <<i>> /\ <<i>> \o <<a>> = <<i, a>> /\ <<i, a>> \o <<>> = <<i, a>>
      /\ <<>> \o <<a>> = <<a>> /\ <<a>> \o <<v>> = <<a, v>> /\ <<i, a>> \o <<v>> = <<i, a, v>>
      /\ <<i>> \o <<v>> = <<i, v>>
  BY <1>1, TupleConcat
<1>. QED
  BY <1>2, <1>3 DEF i, a

\* What they are read back as.
LEMMA DecodeOf ==
  ASSUME NEW id \in Id, NEW addr \in Int, NEW t \in Text
  PROVE  /\ Decode(Msg("DIS", <<IdText(id)>>)) = Object("DIS", id, 0, <<>>)
         /\ Decode(Msg("SRD", <<IdText(id), AddrText(addr)>>)) = Object("SRD", id, addr, <<>>)
         /\ Decode(Msg("MWR", <<AddrText(addr), t>>)) = Object("MWR", 0, addr, <<Cut(t)>>)
         /\ Decode(Msg("SWR", <<IdText(id), AddrText(addr), t>>))
              = Object("SWR", id, addr, <<Cut(t)>>)
         /\ Decode(Msg("SRS", <<IdText(id), t>>)) = Object("SRS", id, 0, <<Cut(t)>>)
<1> DEFINE i == IdText(id)
           a == AddrText(addr)
<1>1. ToNum(i) % IdSpace = id /\ ToNum(a) = addr
  BY IdKept DEF ToNum, IdText, AddrText
<1>. HIDE DEF i, a
<1>2. Decode(Msg("DIS", <<i>>)) = Object("DIS", id, 0, <<>>)
  BY <1>1 DEF Decode, Msg, Object, HasId, HasAddr, HasValue
<1>3. Decode(Msg("SRD", <<i, a>>)) = Object("SRD", id, addr, <<>>)
  BY <1>1 DEF Decode, Msg, Object, HasId, HasAddr, HasValue
<1> DEFINE last(s, n) == [k \in 1 .. Len(s) - n + 1 |-> Cut(s[n + k - 1])]
<1>4. \A s, n : n \in {2, 3} /\ Len(s) = n => last(s, n)[1] = Cut(s[n])
  OBVIOUS
<1>5. Decode(Msg("MWR", <<a, t>>)) = Object("MWR", 0, addr, <<Cut(t)>>)
  <2> DEFINE s == <<a, t>>
             v == last(s, 1 + 1)
  <2>1. v[1] = Cut(t)
    <3>1. 1 + 1 = 2 /\ Len(s) = 2 /\ s[2] = t
      OBVIOUS
    <3>. HIDE DEF last, s
    <3>. QED
      BY <1>4, <3>1
  <2>2. Decode(Msg("MWR", s)) = Object("MWR", 0, addr, <<v[1]>>)
    BY <1>1 DEF Decode, Msg, Object, HasId, HasAddr, HasValue
  <2>. QED
    BY <2>1, <2>2
<1>6. Decode(Msg("SWR", <<i, a, t>>)) = Object("SWR", id, addr, <<Cut(t)>>)
  <2> DEFINE s == <<i, a, t>>
             v == last(s, 2 + 1)
  <2>1. v[1] = Cut(t)
    <3>1. 2 + 1 = 3 /\ Len(s) = 3 /\ s[3] = t
      OBVIOUS
    <3>. HIDE DEF last, s
    <3>. QED
      BY <1>4, <3>1
  <2>2. Decode(Msg("SWR", s)) = Object("SWR", id, addr, <<v[1]>>)
    BY <1>1 DEF Decode, Msg, Object, HasId, HasAddr, HasValue
  <2>. QED
    BY <2>1, <2>2
<1>7. Decode(Msg("SRS", <<i, t>>)) = Object("SRS", id, 0, <<Cut(t)>>)
  <2> DEFINE s == <<i, t>>
             v == last(s, 2)
  <2>1. v[1] = Cut(t)
    BY <1>4
  <2>2. Decode(Msg("SRS", s)) = Object("SRS", id, 0, <<v[1]>>)
    BY <1>1 DEF Decode, Msg, Object, HasId, HasAddr, HasValue
  <2>. QED
    BY <2>1, <2>2
<1>. QED
  BY <1>2, <1>3, <1>5, <1>6, <1>7 DEF i, a

\* r is what a cell that becomes d makes of a line, when it transmits msg.
Yields(r, d, msg) == r.cell = d /\ r.out = <<msg>>

\* A cell answers an undamaged sentence with what its handler transmits.
LEMMA ProcessMsg ==
  ASSUME Roomy, NEW c \in Cell, NEW type \in PacketTypes, NEW fields \in Seq(Text),
         Len(fields) >= NumFields(type), ShortRead(Msg(type, fields)),
         NEW p, Decode(Msg(type, fields)) = p,
         NEW d, NEW q, Handle(c, p).cell = d, Handle(c, p).out = q
  PROVE  Yields(Process(c, Msg(type, fields)), d, Msg(q.type, Fields(q)))
<1> DEFINE line == Msg(type, fields)
<1>1. line \in GoodLine /\ IsValid(line) /\ Decode(line) = p
  BY MsgGood
<1>. HIDE DEF line
<1>2. p \in Packet /\ ShortPacket(p)
  BY <1>1, DecodeType, DecodeShort DEF line
<1>3. q \in Packet
  BY <1>2, HandlePost DEF HandlerPost
<1>4. ShortPacket(q) /\ (q.type = "MRD" => q.valid)
  BY <1>2, HandleShort
<1>5. Encode(q) = Msg(q.type, Fields(q))
  BY <1>3, <1>4, EncodeMsg
<1>6. Process(c, line).cell = d /\ Process(c, line).out = <<Encode(q)>>
  BY <1>1 DEF Process
<1>. QED
  BY <1>5, <1>6 DEF Yields, line

\* What a cell says for itself.
Says(c, text) == Msg("SRS", <<IdText(c.id), Cut(text)>>)

LEMMA ResponseMsg ==
  ASSUME NEW c \in Cell, NEW t \in Text
  PROVE  Msg(Response(c, t).type, Fields(Response(c, t))) = Says(c, t)
<1>1. c.id \in Int /\ Cut(t) \in Text /\ 0 \in Int
  BY IdKept, TextTypes DEF Cell
<1>2. Fields(Response(c, t)) = Fields(Object("SRS", c.id, 0, <<Cut(t)>>))
  BY DEF Fields, Response, Object
<1>3. Fields(Response(c, t)) = <<IdText(c.id), Cut(t)>>
  BY <1>1, <1>2, FieldsOf
<1>. QED
  BY <1>3 DEF Response, Says

LEMMA ProcessDIS ==
  ASSUME Roomy, NEW c \in Cell, NEW n \in Id
  PROVE  Yields(Process(c, Msg("DIS", <<IdText(n)>>)),
                [c EXCEPT !.id = (n + 1) % IdSpace],
                Msg("DIS", <<IdText((n + 1) % IdSpace)>>))
<1> DEFINE m == (n + 1) % IdSpace
           f == <<IdText(n)>>
           p == Object("DIS", n, 0, <<>>)
           q == Object("DIS", m, 0, <<>>)
           d == [c EXCEPT !.id = m]
<1>1. m \in Id /\ m \in Int /\ 0 \in Int /\ IdText(n) \in Text
  BY PacketAssumption, IdKept, TextTypes DEF Id
<1>2. Decode(Msg("DIS", f)) = p
  BY <1>1, DecodeOf
<1>3. Handle(c, p).cell = d /\ Handle(c, p).out = q
  BY DEF Handle, DISPacketHandler, Object, Result
<1>4. q.type = "DIS" /\ Fields(q) = <<IdText(m)>>
  BY <1>1, FieldsOf DEF Object
<1>5. f \in Seq(Text) /\ Len(f) >= NumFields("DIS")
      /\ "DIS" \in PacketTypes /\ ShortRead(Msg("DIS", f))
  BY <1>1, ShortTuples DEF NumFields, HasId, HasAddr, HasValue, PacketTypes, ShortRead, Msg
<1>. HIDE DEF m, p, q, f, d
<1>6. Yields(Process(c, Msg("DIS", f)), d, Msg(q.type, Fields(q)))
  BY <1>2, <1>3, <1>5, ProcessMsg
<1>. QED
  BY <1>4, <1>6 DEF m, f, d

\* A response runs through.
LEMMA ProcessSRS ==
  ASSUME Roomy, NEW c \in Cell, NEW n \in Id, NEW t \in Text
  PROVE  Yields(Process(c, Msg("SRS", <<IdText(n), t>>)), c, Msg("SRS", <<IdText(n), Cut(t)>>))
<1> DEFINE f == <<IdText(n), t>>
           p == Object("SRS", n, 0, <<Cut(t)>>)
<1>1. IdText(n) \in Text /\ Cut(t) \in Text /\ n \in Int /\ 0 \in Int
  BY IdKept, TextTypes
<1>2. Decode(Msg("SRS", f)) = p
  BY <1>1, DecodeOf
<1>3. Handle(c, p).cell = c /\ Handle(c, p).out = p
  BY DEF Handle, SRSPacketHandler, Object, Result
<1>4. p.type = "SRS" /\ Fields(p) = <<IdText(n), Cut(t)>>
  BY <1>1, FieldsOf DEF Object
<1>5. f \in Seq(Text) /\ Len(f) >= NumFields("SRS")
      /\ "SRS" \in PacketTypes /\ ShortRead(Msg("SRS", f))
  BY <1>1, ShortTuples DEF NumFields, HasId, HasAddr, HasValue, PacketTypes, ShortRead, Msg
<1>. HIDE DEF p, f
<1>6. Yields(Process(c, Msg("SRS", f)), c, Msg(p.type, Fields(p)))
  BY <1>2, <1>3, <1>5, ProcessMsg
<1>. QED
  BY <1>4, <1>6 DEF f

\* So does what a cell says.
LEMMA ProcessSays ==
  ASSUME Roomy, NEW c \in Cell, NEW b \in Cell, NEW t \in Text
  PROVE  Yields(Process(c, Says(b, t)), c, Says(b, t))
<1>1. b.id \in Id /\ Cut(t) \in Text /\ Cut(Cut(t)) = Cut(t)
  BY CutCut, TextTypes DEF Cell
<1>. QED
  BY <1>1, ProcessSRS DEF Says

\* What a write does, and the codes a command is refused with.
Written(c, t) == [c EXCEPT !.volt = SettingOf(t)]
CodeOfWrite(addr) ==
  IF addr = kRegAddrSetOutputVoltage THEN kErrCodeNone
  ELSE IF addr = kRegAddrReadOutputCurrent THEN kErrCodeWriteNotSupported
  ELSE kErrCodeAddrNotRecognized
CodeOfRead(addr) == IF addr \in Readable THEN kErrCodeNone ELSE kErrCodeAddrNotRecognized

LEMMA WriteRegisterIs ==
  ASSUME NEW c, NEW addr, NEW t
  PROVE  /\ WriteRegister(c, addr, t).cell
              = IF CodeOfWrite(addr) = kErrCodeNone THEN Written(c, t) ELSE c
         /\ WriteRegister(c, addr, t).err = CodeOfWrite(addr)
BY DEF WriteRegister, CodeOfWrite, Written, kErrCodeNone, kErrCodeWriteNotSupported,
   kErrCodeAddrNotRecognized, kRegAddrSetOutputVoltage, kRegAddrReadOutputCurrent

LEMMA Codes ==
  /\ \A addr : CodeOfWrite(addr) \in Nat /\ CodeOfRead(addr) \in Nat
  /\ \A code \in Nat : CodeText(code) \in Text
  /\ kErrCodeNone \in Nat /\ kErrCodePacketLengthExceeded \in Nat
BY TextTypes DEF CodeOfWrite, CodeOfRead, kErrCodeNone, kErrCodeWriteNotSupported,
   kErrCodeAddrNotRecognized, kErrCodePacketLengthExceeded

\* A multiple write is executed and passed on, or refused.
LEMMA ProcessMWR ==
  ASSUME Roomy, NEW c \in Cell, NEW addr \in Int, NEW t \in Text
  PROVE  LET r == Process(c, Msg("MWR", <<AddrText(addr), t>>))
         IN  IF CodeOfWrite(addr) = kErrCodeNone
               THEN Yields(r, Written(c, Cut(t)), Msg("MWR", <<AddrText(addr), Cut(t)>>))
               ELSE Yields(r, c, Says(c, CodeText(CodeOfWrite(addr))))
<1> DEFINE f == <<AddrText(addr), t>>
           p == Object("MWR", 0, addr, <<Cut(t)>>)
           w == WriteRegister(c, p.addr, p.vals[1])
           code == CodeOfWrite(addr)
           d == Written(c, Cut(t))
           e == Error(c, code)
<1>1. AddrText(addr) \in Text /\ Cut(t) \in Text /\ 0 \in Int /\ 0 \in Id
  BY TextTypes, PacketAssumption DEF Id
<1>2. Decode(Msg("MWR", f)) = p
  BY <1>1, DecodeOf
<1>3. /\ Handle(c, p).cell = w.cell
      /\ Handle(c, p).out = IF w.err = kErrCodeNone THEN p ELSE Error(c, w.err)
  BY DEF Handle, MWRPacketHandler, Object, Result
<1>4. /\ w.cell = IF code = kErrCodeNone THEN d ELSE c
      /\ w.err = code
  <2>1. p.addr = addr /\ p.vals[1] = Cut(t)
    BY DEF Object
  <2>. QED
    BY <2>1, WriteRegisterIs
<1>5. p.type = "MWR" /\ Fields(p) = <<AddrText(addr), Cut(t)>>
  BY <1>1, FieldsOf DEF Object
<1>6. Msg(e.type, Fields(e)) = Says(c, CodeText(code))
  BY Codes, ResponseMsg DEF Error
<1>7. f \in Seq(Text) /\ Len(f) >= NumFields("MWR")
      /\ "MWR" \in PacketTypes /\ ShortRead(Msg("MWR", f))
  BY <1>1, ShortTuples DEF NumFields, HasId, HasAddr, HasValue, PacketTypes, ShortRead, Msg
<1>. HIDE DEF p, f, w, d, code, e
<1>8. CASE code = kErrCodeNone
  <2>1. Handle(c, p).cell = d /\ Handle(c, p).out = p
    BY <1>3, <1>4, <1>8
  <2>2. Yields(Process(c, Msg("MWR", f)), d, Msg(p.type, Fields(p)))
    BY <1>2, <1>7, <2>1, ProcessMsg
  <2>. QED
    BY <1>5, <1>8, <2>2 DEF f, d, code
<1>9. CASE code # kErrCodeNone
  <2>1. Handle(c, p).cell = c /\ Handle(c, p).out = e
    BY <1>3, <1>4, <1>9 DEF e
  <2>2. Yields(Process(c, Msg("MWR", f)), c, Msg(e.type, Fields(e)))
    BY <1>2, <1>7, <2>1, ProcessMsg
  <2>. QED
    BY <1>6, <1>9, <2>2 DEF f, code
<1>. QED
  BY <1>8, <1>9

\* A single write is answered by the cell it is for and passed on by any other.
LEMMA ProcessSWR ==
  ASSUME Roomy, NEW c \in Cell, NEW id \in Id, NEW addr \in Int, NEW t \in Text
  PROVE  LET r == Process(c, Msg("SWR", <<IdText(id), AddrText(addr), t>>))
         IN  IF id = c.id
               THEN Yields(r, IF CodeOfWrite(addr) = kErrCodeNone THEN Written(c, Cut(t)) ELSE c,
                           Says(c, CodeText(CodeOfWrite(addr))))
               ELSE Yields(r, c, Msg("SWR", <<IdText(id), AddrText(addr), Cut(t)>>))
<1> DEFINE f == <<IdText(id), AddrText(addr), t>>
           p == Object("SWR", id, addr, <<Cut(t)>>)
           w == WriteRegister(c, p.addr, p.vals[1])
           code == CodeOfWrite(addr)
           d == IF code = kErrCodeNone THEN Written(c, Cut(t)) ELSE c
           e == Error(c, code)
<1>1. IdText(id) \in Text /\ AddrText(addr) \in Text /\ Cut(t) \in Text /\ id \in Int
  BY IdKept, TextTypes
<1>2. Decode(Msg("SWR", f)) = p
  BY DecodeOf
<1>3. /\ id = c.id => Handle(c, p).cell = w.cell /\ Handle(c, p).out = Error(c, w.err)
      /\ id # c.id => Handle(c, p).cell = c /\ Handle(c, p).out = p
  BY DEF Handle, SWRPacketHandler, Object, Result
<1>4. w.cell = d /\ w.err = code
  <2>1. p.addr = addr /\ p.vals[1] = Cut(t)
    BY DEF Object
  <2>. QED
    BY <2>1, WriteRegisterIs
<1>5. p.type = "SWR" /\ Fields(p) = <<IdText(id), AddrText(addr), Cut(t)>>
  BY <1>1, FieldsOf DEF Object
<1>6. Msg(e.type, Fields(e)) = Says(c, CodeText(code))
  BY Codes, ResponseMsg DEF Error
<1>7. f \in Seq(Text) /\ Len(f) >= NumFields("SWR")
      /\ "SWR" \in PacketTypes /\ ShortRead(Msg("SWR", f))
  BY <1>1, ShortTuples DEF NumFields, HasId, HasAddr, HasValue, PacketTypes, ShortRead, Msg
<1>. HIDE DEF p, f, w, d, code, e
<1>8. CASE id = c.id
  <2>1. Handle(c, p).cell = d /\ Handle(c, p).out = e
    BY <1>3, <1>4, <1>8 DEF e
  <2>2. Yields(Process(c, Msg("SWR", f)), d, Msg(e.type, Fields(e)))
    BY <1>2, <1>7, <2>1, ProcessMsg
  <2>. QED
    BY <1>6, <1>8, <2>2 DEF f, d, code
<1>9. CASE id # c.id
  <2>1. Handle(c, p).cell = c /\ Handle(c, p).out = p
    BY <1>3, <1>9
  <2>2. Yields(Process(c, Msg("SWR", f)), c, Msg(p.type, Fields(p)))
    BY <1>2, <1>7, <2>1, ProcessMsg
  <2>. QED
    BY <1>5, <1>9, <2>2 DEF f
<1>. QED
  BY <1>8, <1>9

\* And so is a single read.
LEMMA ProcessSRD ==
  ASSUME Roomy, NEW c \in Cell, NEW id \in Id, NEW addr \in Int
  PROVE  LET r == Process(c, Msg("SRD", <<IdText(id), AddrText(addr)>>))
         IN  IF id = c.id
               THEN Yields(r, c, Says(c, IF CodeOfRead(addr) = kErrCodeNone
                                           THEN ReadRegister(c, addr)
                                           ELSE CodeText(CodeOfRead(addr))))
               ELSE Yields(r, c, Msg("SRD", <<IdText(id), AddrText(addr)>>))
<1> DEFINE f == <<IdText(id), AddrText(addr)>>
           p == Object("SRD", id, addr, <<>>)
           code == CodeOfRead(addr)
           t == IF code = kErrCodeNone THEN ReadRegister(c, addr) ELSE CodeText(code)
           e == Response(c, t)
<1>1. IdText(id) \in Text /\ AddrText(addr) \in Text /\ id \in Int /\ t \in Text
  BY IdKept, TextTypes, ReadRegisterType, Codes
<1>2. Decode(Msg("SRD", f)) = p
  BY <1>1, DecodeOf
<1>3. /\ Handle(c, p).cell = c
      /\ id # c.id => Handle(c, p).out = p
      /\ id = c.id => Handle(c, p).out = IF addr \notin Readable
                                           THEN Error(c, kErrCodeAddrNotRecognized)
                                           ELSE Response(c, ReadRegister(c, addr))
  BY DEF Handle, SRDPacketHandler, Object, Result
<1>4. IF addr \notin Readable THEN Error(c, kErrCodeAddrNotRecognized) = e
                              ELSE Response(c, ReadRegister(c, addr)) = e
  BY DEF CodeOfRead, Error, kErrCodeAddrNotRecognized, kErrCodeNone
<1>5. p.type = "SRD" /\ Fields(p) = <<IdText(id), AddrText(addr)>>
  BY <1>1, FieldsOf DEF Object
<1>6. Msg(e.type, Fields(e)) = Says(c, t)
  BY <1>1, ResponseMsg
<1>7. f \in Seq(Text) /\ Len(f) >= NumFields("SRD")
      /\ "SRD" \in PacketTypes /\ ShortRead(Msg("SRD", f))
  BY <1>1, ShortTuples DEF NumFields, HasId, HasAddr, HasValue, PacketTypes, ShortRead, Msg
<1>. HIDE DEF p, f, t, e
<1>8. CASE id = c.id
  <2>1. Handle(c, p).cell = c /\ Handle(c, p).out = e
    BY <1>3, <1>4, <1>8
  <2>2. Yields(Process(c, Msg("SRD", f)), c, Msg(e.type, Fields(e)))
    BY <1>2, <1>7, <2>1, ProcessMsg
  <2>. QED
    BY <1>6, <1>8, <2>2 DEF f, t
<1>9. CASE id # c.id
  <2>1. Handle(c, p).cell = c /\ Handle(c, p).out = p
    BY <1>3, <1>9
  <2>2. Yields(Process(c, Msg("SRD", f)), c, Msg(p.type, Fields(p)))
    BY <1>2, <1>7, <2>1, ProcessMsg
  <2>. QED
    BY <1>5, <1>9, <2>2 DEF f
<1>. QED
  BY <1>8, <1>9

\* Values that were cut to a field, and are of one register.
Values(addr) == {s \in Seq(Text) : \A k \in 1 .. Len(s) :
                                     Cut(s[k]) = s[k] /\ s[k].len <= Longest(addr)}

LEMMA DecodeMRD ==
  ASSUME NEW addr \in Int, NEW vals \in Values(addr), Len(vals) <= kMaxNumValues
  PROVE  /\ Decode(Msg("MRD", <<AddrText(addr)>> \o vals)) = Object("MRD", 0, addr, vals)
         /\ ShortRead(Msg("MRD", <<AddrText(addr)>> \o vals))
         /\ <<AddrText(addr)>> \o vals \in Seq(Text)
         /\ Len(<<AddrText(addr)>> \o vals) >= NumFields("MRD")
<1> DEFINE a == AddrText(addr)
           f == <<a>> \o vals
           m == Len(vals)
           line == Msg("MRD", f)
           p == Decode(line)
<1>1. a \in Text /\ ToNum(a) = addr
  BY TextTypes DEF AddrText, ToNum
<1>2. /\ vals \in Seq(Text) /\ m \in Nat
      /\ \A k \in 1 .. m : Cut(vals[k]) = vals[k] /\ vals[k].len <= Longest(addr)
  BY LenProperties DEF Values
<1>. HIDE DEF a
<1>3. /\ f \in Seq(Text) /\ Len(f) = m + 1 /\ f[1] = a
      /\ \A k \in 1 .. m : f[k+1] = vals[k]
  BY <1>1, <1>2
<1>. HIDE DEF f
<1>4. Len(f) >= NumFields("MRD") /\ "MRD" \in PacketTypes
  BY <1>2, <1>3 DEF NumFields, HasId, HasAddr, HasValue, PacketTypes
<1>5. line \in GoodLine /\ IsValid(line)
  BY <1>3, <1>4, MsgGood
<1>6. Leading(line) = addr /\ line.hdr = "MRD" /\ line.fields = f
  BY <1>1, <1>3 DEF Leading, Msg
<1>7. p.valid /\ p.id = 0
  <2> DEFINE type   == line.hdr
             addrAt == IF type \in HasId THEN 2 ELSE 1
             valsAt == IF type \in HasAddr THEN addrAt + 1 ELSE addrAt
             v == [i \in 1 .. Len(line.fields) - valsAt + 1 |->
                     Cut(line.fields[valsAt + i - 1])]
             fits == type # "MRD" \/ Len(v) <= kMaxNumValues
             id == IF type \in HasId THEN ToNum(line.fields[1]) % IdSpace ELSE 0
             at == IF type \in HasAddr THEN ToNum(line.fields[addrAt]) ELSE 0
             values == IF type = "MRD"
                         THEN SubSeq(v, 1, IF Len(v) < kMaxNumValues
                                             THEN Len(v) ELSE kMaxNumValues)
                       ELSE IF type \in HasValue THEN <<v[1]>> ELSE <<>>
  <2>1. p = IF ~ line.start THEN Rejected(type)
            ELSE [type |-> type, valid |-> fits, id |-> id, addr |-> at, vals |-> values]
    BY DEF Decode
  <2>2. type = "MRD" /\ line.start /\ id = 0
    BY DEF Msg, HasId
  <2>3. Len(line.fields) - valsAt + 1 = m
    BY <1>2, <1>3, <1>6 DEF HasId, HasAddr
  <2>4. fits
    <3>. HIDE DEF m, valsAt
    <3>1. Len(v) = m
      BY <1>2, <2>3
    <3>. HIDE DEF v
    <3>. QED
      BY <3>1 DEF m
  <2>. HIDE DEF p, line, fits, id, at, values, type
  <2>. QED
    BY <2>1, <2>2, <2>4
<1>8. p \in Packet /\ p.type = "MRD"
  BY <1>5, <1>6, DecodeType
<1>9. /\ p.addr = addr /\ Len(p.vals) = m
      /\ \A k \in 1 .. m : p.vals[k] = vals[k]
  <2>. HIDE DEF p, line
  <2>1. /\ p.addr = Leading(line) /\ Len(p.vals) = Len(line.fields) - 1
        /\ \A k \in 1 .. Len(line.fields) - 1 : p.vals[k] = Cut(line.fields[k+1])
    BY <1>5, <1>6, <1>7, DecodeRead DEF p
  <2>2. Len(line.fields) - 1 = m
    BY <1>2, <1>3, <1>6
  <2>. QED
    BY <1>2, <1>3, <1>6, <2>1, <2>2
<1>10. p.vals = vals
  <2>1. p.vals \in Seq(Text)
    BY <1>8 DEF Packet
  <2>. HIDE DEF p
  <2>. QED
    BY <1>2, <1>9, <2>1, SeqEqual
<1>11. p = Object("MRD", 0, addr, vals)
  <2>. HIDE DEF p
  <2>1. p = [type |-> p.type, valid |-> p.valid, id |-> p.id, addr |-> p.addr, vals |-> p.vals]
    BY <1>8 DEF Packet
  <2>2. p.valid = TRUE
    BY <1>7, <1>8 DEF Packet
  <2>. QED
    BY <1>7, <1>8, <1>9, <1>10, <2>1, <2>2 DEF Object
<1>12. ShortRead(line)
  <2>. SUFFICES ASSUME NEW k \in 2 .. Len(f)
                PROVE  f[k].len <= Longest(addr)
    BY <1>6 DEF ShortRead
  <2>1. k - 1 \in 1 .. m /\ (k - 1) + 1 = k
    BY <1>2, <1>3
  <2>. QED
    BY <1>2, <1>3, <2>1
<1>. QED
  BY <1>3, <1>4, <1>11, <1>12 DEF f, a

LEMMA ObjectWith ==
  ASSUME NEW addr, NEW vals, NEW u
  PROVE  [Object("MRD", 0, addr, vals) EXCEPT !.vals = u] = Object("MRD", 0, addr, u)
<1> DEFINE t == TRUE
           read(v) == [type |-> "MRD", valid |-> t, id |-> 0, addr |-> addr, vals |-> v]
<1>1. [read(vals) EXCEPT !.vals = u] = read(u)
  <2>. HIDE DEF t
  <2>. QED
    OBVIOUS
<1>2. \A v : Object("MRD", 0, addr, v) = read(v)
  BY Zenon DEF Object
<1>. HIDE DEF read
<1>. QED
  BY <1>1, <1>2

\* A multiple read is refused by a cell that has no room in the object for its value,
\* or does not know the register, and is else passed on with its value.
LEMMA ProcessMRD ==
  ASSUME Roomy, NEW c \in Cell, NEW addr \in Int, NEW vals \in Values(addr),
         Len(vals) <= kMaxNumValues
  PROVE  LET r == Process(c, Msg("MRD", <<AddrText(addr)>> \o vals))
         IN  /\ Len(vals) = kMaxNumValues =>
                  Yields(r, c, Says(c, CodeText(kErrCodePacketLengthExceeded)))
             /\ Len(vals) < kMaxNumValues /\ addr \notin Readable =>
                  Yields(r, c, Says(c, CodeText(kErrCodeAddrNotRecognized)))
             /\ Len(vals) < kMaxNumValues /\ addr \in Readable /\ RoomFor(addr, Len(vals) + 1) =>
                  Yields(r, c, Msg("MRD", <<AddrText(addr)>>
                                          \o Append(vals, Cut(ReadRegister(c, addr)))))
<1> DEFINE f == <<AddrText(addr)>> \o vals
           p == Object("MRD", 0, addr, vals)
           v == Cut(ReadRegister(c, addr))
           more == Append(vals, v)
           q == Object("MRD", 0, addr, more)
           m == Len(vals)
           a == AddrText(addr)
<1>1. Decode(Msg("MRD", f)) = p /\ ShortRead(Msg("MRD", f))
      /\ f \in Seq(Text) /\ Len(f) >= NumFields("MRD") /\ "MRD" \in PacketTypes
  BY DecodeMRD DEF PacketTypes
<1>2. vals \in Seq(Text) /\ m \in Nat /\ kMaxNumValues \in Nat
      /\ \A k \in 1 .. m : vals[k].len <= Longest(addr)
  BY LenProperties, PacketAssumption DEF Values
<1>3. /\ Handle(c, p).cell = c
      /\ Handle(c, p).out = IF m >= kMaxNumValues THEN Error(c, kErrCodePacketLengthExceeded)
                            ELSE IF addr \notin Readable
                                   THEN Error(c, kErrCodeAddrNotRecognized)
                            ELSE q
  <2>1. p.type = "MRD" /\ p.valid /\ p.vals = vals /\ p.addr = addr
    BY DEF Object
  <2>2. [p EXCEPT !.vals = more] = q
    BY ObjectWith
  <2>. HIDE DEF p, q, v
  <2>3. Handle(c, p) = MRDPacketHandler(c, p)
    BY <2>1 DEF Handle
  <2>4. [p EXCEPT !.vals = Append(@, v)] = q
    BY <2>1, <2>2, Zenon
  <2>5. Cut(ReadRegister(c, p.addr)) = v
    BY <2>1 DEF v
  <2>6. /\ Handle(c, p).cell = c
        /\ Handle(c, p).out = IF Len(p.vals) >= kMaxNumValues
                                THEN Error(c, kErrCodePacketLengthExceeded)
                              ELSE IF p.addr \notin Readable
                                THEN Error(c, kErrCodeAddrNotRecognized)
                              ELSE [p EXCEPT !.vals = Append(@, Cut(ReadRegister(c, p.addr)))]
    <3> DEFINE x == IF Len(p.vals) >= kMaxNumValues
                      THEN Error(c, kErrCodePacketLengthExceeded)
                    ELSE IF p.addr \notin Readable
                      THEN Error(c, kErrCodeAddrNotRecognized)
                    ELSE [p EXCEPT !.vals = Append(@, Cut(ReadRegister(c, p.addr)))]
    <3>1. Handle(c, p) = Result(c, x, "nothing")
      BY <2>3 DEF MRDPacketHandler
    <3>. HIDE DEF x
    <3>2. Handle(c, p).cell = c /\ Handle(c, p).out = x
      BY <3>1 DEF Result
    <3>. QED
      BY <3>2 DEF x
  <2>. QED
    <3> DEFINE grown == [p EXCEPT !.vals = Append(@, Cut(ReadRegister(c, p.addr)))]
               long  == Error(c, kErrCodePacketLengthExceeded)
               wrong == Error(c, kErrCodeAddrNotRecognized)
    <3>1. grown = q /\ Len(p.vals) = m
      BY <2>1, <2>4, <2>5
    <3>2. /\ Handle(c, p).cell = c
          /\ Handle(c, p).out = IF Len(p.vals) >= kMaxNumValues THEN long
                                ELSE IF p.addr \notin Readable THEN wrong ELSE grown
      BY <2>6
    <3>. HIDE DEF grown, long, wrong, m
    <3>3. /\ Handle(c, p).cell = c
          /\ Handle(c, p).out = IF m >= kMaxNumValues THEN long
                                ELSE IF addr \notin Readable THEN wrong ELSE q
      BY <2>1, <3>1, <3>2
    <3>. QED
      BY <3>3 DEF long, wrong
<1>4. \A code \in Nat : Msg(Error(c, code).type, Fields(Error(c, code))) = Says(c, CodeText(code))
  BY Codes, ResponseMsg DEF Error
<1>5. kErrCodePacketLengthExceeded \in Nat /\ kErrCodeAddrNotRecognized \in Nat
  BY DEF kErrCodePacketLengthExceeded, kErrCodeAddrNotRecognized
<1>6. v \in Text /\ v.len <= Longest(addr)
  BY ReadLength
<1>. HIDE DEF f, v, m
<1>7. /\ more \in Seq(Text) /\ Len(more) = m + 1 /\ more[m+1] = v
      /\ \A k \in 1 .. m : more[k] = vals[k]
  BY <1>2, <1>6, AppendProperties DEF m
<1>. HIDE DEF more
<1>8. q.type = "MRD" /\ q.valid /\ q.addr = addr /\ q.vals = more
  BY DEF Object
<1>9. q \in Packet
  <2>1. 0 \in Id /\ "MRD" \in PacketTypes /\ "MRD" \notin HasValue
    BY PacketAssumption DEF Id, PacketTypes, HasValue
  <2>. QED
    BY <1>7, <2>1, ObjectType
<1>. HIDE DEF p, q
<1>10. ShortPacket(q)
  <2>1. \A k \in 1 .. m + 1 : more[k].len <= Longest(addr)
    <3>. SUFFICES ASSUME NEW k \in 1 .. m + 1
                  PROVE  more[k].len <= Longest(addr)
      OBVIOUS
    <3>1. k \in 1 .. m \/ k = m + 1
      BY <1>2
    <3>. QED
      BY <1>2, <1>6, <1>7, <3>1
  <2>. QED
    BY <1>7, <1>8, <2>1 DEF ShortPacket, HasValue
<1>11. ASSUME RoomFor(addr, m + 1)
       PROVE  Fields(q) = <<a>> \o more
  <2> DEFINE n == NumPrinted(q.addr, q.vals)
  <2>1. Len(Encode(q).fields) = 1 + (m + 1)
    BY <1>7, <1>8, <1>9, <1>10, <1>11, PrintedAll
  <2>2. Encode(q).fields = <<a>> \o SubSeq(more, 1, n) /\ Len(Encode(q).fields) = 1 + n
        /\ n \in 0 .. Len(more)
    BY <1>8, <1>9, EncodeRead
  <2>. HIDE DEF n
  <2>3. n = Len(more)
    BY <1>2, <1>7, <2>1, <2>2
  <2>4. SubSeq(more, 1, Len(more)) = more
    BY <1>7
  <2>. QED
    BY <2>2, <2>3, <2>4 DEF Encode
<1>12. ASSUME NEW x, Handle(c, p).out = x
       PROVE  Yields(Process(c, Msg("MRD", f)), c, Msg(x.type, Fields(x)))
  BY <1>1, <1>3, <1>12, ProcessMsg
<1>. HIDE DEF a
<1>13. m = kMaxNumValues => Yields(Process(c, Msg("MRD", f)), c,
                                   Says(c, CodeText(kErrCodePacketLengthExceeded)))
  BY <1>2, <1>3, <1>4, <1>5, <1>12
<1>14. m < kMaxNumValues /\ addr \notin Readable =>
         Yields(Process(c, Msg("MRD", f)), c, Says(c, CodeText(kErrCodeAddrNotRecognized)))
  BY <1>2, <1>3, <1>4, <1>5, <1>12
<1>15. m < kMaxNumValues /\ addr \in Readable /\ RoomFor(addr, m + 1) =>
         Yields(Process(c, Msg("MRD", f)), c, Msg("MRD", <<a>> \o more))
  <2>. SUFFICES ASSUME m < kMaxNumValues, addr \in Readable, RoomFor(addr, m + 1)
                PROVE  Yields(Process(c, Msg("MRD", f)), c, Msg("MRD", <<a>> \o more))
    OBVIOUS
  <2>1. Handle(c, p).out = q
    BY <1>2, <1>3
  <2>2. Yields(Process(c, Msg("MRD", f)), c, Msg(q.type, Fields(q)))
    BY <1>12, <2>1
  <2>. QED
    BY <1>8, <1>11, <2>2
<1>. QED
  BY <1>13, <1>14, <1>15 DEF f, m, a, more, v

\* What the master transmits.
LEMMA PacketizeOf ==
  ASSUME NEW r \in Request
  PROVE  /\ r.type \in HasValue => r.vals[1] \in Text /\ r.vals = <<r.vals[1]>>
         /\ r.type = "DIS" => Packetize(r) = Msg("DIS", <<IdText(r.id)>>)
         /\ r.type = "SRD" => Packetize(r) = Msg("SRD", <<IdText(r.id), AddrText(r.addr)>>)
         /\ r.type = "MRD" => Packetize(r) = Msg("MRD", <<AddrText(r.addr)>> \o <<>>)
         /\ r.type = "MWR" => Packetize(r) = Msg("MWR", <<AddrText(r.addr), r.vals[1]>>)
         /\ r.type = "SWR" => Packetize(r) = Msg("SWR", <<IdText(r.id), AddrText(r.addr), r.vals[1]>>)
         /\ r.type = "SRS" => Packetize(r) = Msg("SRS", <<IdText(r.id), r.vals[1]>>)
<1> DEFINE i == IdText(r.id)
           a == AddrText(r.addr)
           v == r.vals[1]
<1>1. /\ i \in Text /\ a \in Text /\ r.type \in PacketTypes /\ r.vals \in Seq(Text)
      /\ Len(r.vals) = IF r.type \in HasValue THEN 1 ELSE 0
  BY IdKept, TextTypes DEF Request
<1>2. r.type \in HasValue => v \in Text /\ r.vals = <<v>>
  BY <1>1
<1>3. r.type \notin HasValue => r.vals = <<>>
  BY <1>1, EmptySeq
<1>. HIDE DEF i, a, v
<1>4. \A x, y, z \in Text : /\ (<<x>> \o <<>>) \o <<>> = <<x>>
                            /\ (<<x>> \o <<y>>) \o <<>> = <<x, y>>
                            /\ (<<>> \o <<x>>) \o <<>> = <<x>> \o <<>>
                            /\ (<<>> \o <<x>>) \o <<y>> = <<x, y>>
                            /\ (<<x>> \o <<y>>) \o <<z>> = <<x, y, z>>
                            /\ (<<x>> \o <<>>) \o <<y>> = <<x, y>>
  <2>. SUFFICES ASSUME NEW x \in Text, NEW y \in Text, NEW z \in Text
                PROVE  /\ (<<x>> \o <<>>) \o <<>> = <<x>>
                       /\ (<<x>> \o <<y>>) \o <<>> = <<x, y>>
                       /\ (<<>> \o <<x>>) \o <<>> = <<x>> \o <<>>
                       /\ (<<>> \o <<x>>) \o <<y>> = <<x, y>>
                       /\ (<<x>> \o <<y>>) \o <<z>> = <<x, y, z>>
                       /\ (<<x>> \o <<>>) \o <<y>> = <<x, y>>
    OBVIOUS
  <2>1. /\ <<x>> \o <<>> = <<x>> /\ <<>> \o <<x>> = <<x>> /\ <<x, y>> \o <<>> = <<x, y>>
        /\ <<x>> \o <<y>> = <<x, y>> /\ <<x, y>> \o <<z>> = <<x, y, z>>
    BY TupleConcat
  <2>. QED
    BY <2>1, Zenon
<1> DEFINE f == ((IF r.type \in HasId THEN <<i>> ELSE <<>>)
                 \o (IF r.type \in HasAddr THEN <<a>> ELSE <<>>)) \o r.vals
<1>5. Packetize(r) = Msg(r.type, f)
  BY DEF Packetize, Msg, i, a
<1>6. r.type = "DIS" => f = <<i>>
  BY <1>1, <1>3, <1>4 DEF HasId, HasAddr, HasValue
<1>7. r.type = "SRD" => f = <<i, a>>
  BY <1>1, <1>3, <1>4 DEF HasId, HasAddr, HasValue
<1>8. r.type = "MRD" => f = <<a>> \o <<>>
  BY <1>1, <1>3, <1>4 DEF HasId, HasAddr, HasValue
<1>9. r.type = "MWR" => f = <<a, v>>
  BY <1>1, <1>2, <1>4 DEF HasId, HasAddr, HasValue
<1>10. r.type = "SWR" => f = <<i, a, v>>
  BY <1>1, <1>2, <1>4, ZenonT(30) DEF HasId, HasAddr, HasValue
<1>11. r.type = "SRS" => f = <<i, v>>
  BY <1>1, <1>2, <1>4 DEF HasId, HasAddr, HasValue
<1>. HIDE DEF f
<1>. QED
  BY <1>2, <1>5, <1>6, <1>7, <1>8, <1>9, <1>10, <1>11 DEF i, a, v

-----------------------------------------------------------------------------
(***************************************************************************)
(* The mapping.                                                            *)
(***************************************************************************)

LEMMA MapType ==
  ASSUME TypeOK
  PROVE  /\ NoLoad \in [Cells -> Cell] /\ Lines \in [Links -> Seq(GoodLine)]
         /\ PackCells \in [Cells -> Cell] /\ PackReplies \in Seq(GoodLine)
<1>1. NoLoad \in [Cells -> Cell]
  <2>1. cell \in [Cells -> Cell] /\ 0 \in Current
    BY DEF TypeOK, Current
  <2>2. \A c \in Cell : [c EXCEPT !.amp = 0] \in Cell
    BY <2>1 DEF Cell
  <2>. QED
    BY <2>1, <2>2 DEF NoLoad
<1>2. Lines \in [Links -> Seq(GoodLine)]
  <2>1. \A s \in Seq(Sentence) : [k \in DOMAIN s |-> s[k].line] \in Seq(GoodLine)
    <3>. SUFFICES ASSUME NEW s \in Seq(Sentence)
                  PROVE  [k \in DOMAIN s |-> s[k].line] \in Seq(GoodLine)
      OBVIOUS
    <3>1. Len(s) \in Nat /\ DOMAIN s = 1 .. Len(s) /\ \A k \in 1 .. Len(s) : s[k] \in Sentence
      BY LenProperties, ElementOfSeq
    <3>2. \A x \in Sentence : x.line \in GoodLine
      BY DEF Sentence
    <3>. QED
      BY <3>1, <3>2, SeqDef
  <2>2. wire \in [Links -> Seq(Sentence)]
    BY WireType
  <2>. QED
    BY <2>1, <2>2 DEF Lines
<1>3. Drained(NoLoad, Lines) \in [Links -> Seq(GoodLine)]
  BY <1>1, <1>2, DrainedSteps
<1>4. PackReplies \in Seq(GoodLine)
  <2>1. N \in Links
    BY ChainAssumption DEF Links
  <2>. QED
    BY <1>3, <2>1 DEF PackReplies
<1>5. \A i \in Cells : After[<<NoLoad[i], Drained(NoLoad, Lines)[i-1]>>].cell \in Cell
  <2>. SUFFICES ASSUME NEW i \in Cells
                PROVE  After[<<NoLoad[i], Drained(NoLoad, Lines)[i-1]>>].cell \in Cell
    OBVIOUS
  <2>1. i - 1 \in Links
    BY ChainAssumption DEF Links, Cells
  <2>. QED
    BY <1>1, <1>3, <2>1, AfterType
<1>. QED
  BY <1>1, <1>2, <1>4, <1>5 DEF PackCells

\* The lines of sentences, link by link.
LEMMA LinesOf ==
  /\ \A s \in Seq(Sentence) : [k \in DOMAIN s |-> s[k].line] \in Seq(GoodLine)
  /\ \A s \in Seq(Sentence), x \in Sentence :
       [k \in DOMAIN Append(s, x) |-> Append(s, x)[k].line]
         = Append([k \in DOMAIN s |-> s[k].line], x.line)
  /\ \A s \in Seq(Sentence) : s # <<>> =>
       LET u == [k \in DOMAIN s |-> s[k].line]
       IN  /\ u # <<>> /\ Head(u) = Head(s).line
           /\ [k \in DOMAIN Tail(s) |-> Tail(s)[k].line] = Tail(u)
<1> DEFINE L(s) == [k \in DOMAIN s |-> s[k].line]
<1>0. \A x \in Sentence : x.line \in GoodLine
  BY DEF Sentence
<1>1. ASSUME NEW s \in Seq(Sentence)
      PROVE  /\ L(s) \in Seq(GoodLine) /\ Len(L(s)) = Len(s) /\ Len(s) \in Nat
             /\ \A k \in 1 .. Len(s) : L(s)[k] = s[k].line /\ s[k] \in Sentence
  <2>1. Len(s) \in Nat /\ DOMAIN s = 1 .. Len(s) /\ \A k \in 1 .. Len(s) : s[k] \in Sentence
    BY LenProperties, ElementOfSeq
  <2>. QED
    BY <1>0, <2>1, SeqDef
<1>. HIDE DEF L
<1>2. ASSUME NEW s \in Seq(Sentence), NEW x \in Sentence
      PROVE  L(Append(s, x)) = Append(L(s), x.line)
  <2> DEFINE u == Append(s, x)
             n == Len(s)
  <2>1. /\ n \in Nat /\ u \in Seq(Sentence) /\ Len(u) = n + 1 /\ u[n+1] = x
        /\ \A k \in 1 .. n : u[k] = s[k]
    BY LenProperties, AppendProperties
  <2>. HIDE DEF u
  <2>2. L(u) \in Seq(GoodLine) /\ Len(L(u)) = n + 1 /\ \A k \in 1 .. n + 1 : L(u)[k] = u[k].line
    BY <1>1, <2>1
  <2> DEFINE w == Append(L(s), x.line)
  <2>3. /\ w \in Seq(GoodLine) /\ Len(w) = n + 1 /\ w[n+1] = x.line
        /\ \A k \in 1 .. n : w[k] = s[k].line
    <3>1. L(s) \in Seq(GoodLine) /\ Len(L(s)) = n /\ x.line \in GoodLine
          /\ \A k \in 1 .. n : L(s)[k] = s[k].line
      BY <1>0, <1>1
    <3>. HIDE DEF n
    <3>. QED
      BY <3>1, AppendProperties
  <2>. HIDE DEF w, n
  <2>4. ASSUME NEW k \in 1 .. n + 1
        PROVE  L(u)[k] = w[k]
    <3>1. k \in 1 .. n \/ k = n + 1
      BY <2>1
    <3>. QED
      BY <2>1, <2>2, <2>3, <3>1
  <2>. QED
    BY <2>2, <2>3, <2>4, SeqEqual DEF u, w
<1>3. ASSUME NEW s \in Seq(Sentence), s # <<>>
      PROVE  L(s) # <<>> /\ Head(L(s)) = Head(s).line /\ L(Tail(s)) = Tail(L(s))
  <2> DEFINE u == Tail(s)
             w == Tail(L(s))
             n == Len(u)
  <2>1. /\ u \in Seq(Sentence) /\ n \in Nat /\ Len(s) = n + 1 /\ Head(s) = s[1]
        /\ \A k \in 1 .. n : u[k] = s[k+1]
    BY <1>3, EmptySeq, HeadTailProperties, LenProperties
  <2>2. /\ L(s) \in Seq(GoodLine) /\ Len(L(s)) = n + 1
        /\ \A k \in 1 .. n + 1 : L(s)[k] = s[k].line
    BY <1>1, <2>1
  <2>. HIDE DEF u, n
  <2>3. L(s) # <<>> /\ Head(L(s)) = L(s)[1] /\ 1 \in 1 .. n + 1
    BY <2>1, <2>2, EmptySeq, HeadTailProperties
  <2>4. w \in Seq(GoodLine) /\ Len(w) = n /\ \A k \in 1 .. n : w[k] = L(s)[k+1]
    BY <2>1, <2>2, <2>3, HeadTailProperties
  <2>5. L(u) \in Seq(GoodLine) /\ Len(L(u)) = n /\ \A k \in 1 .. n : L(u)[k] = u[k].line
    BY <1>1, <2>1 DEF n
  <2>. HIDE DEF w
  <2>6. ASSUME NEW k \in 1 .. n
        PROVE  L(u)[k] = w[k]
    <3>1. k + 1 \in 1 .. n + 1
      BY <2>1
    <3>. QED
      BY <2>1, <2>2, <2>4, <2>5, <3>1
  <2>7. L(u) = w
    BY <2>4, <2>5, <2>6, SeqEqual
  <2>. QED
    BY <2>1, <2>2, <2>3, <2>7 DEF u, w
<1>4. /\ \A s \in Seq(Sentence) : L(s) \in Seq(GoodLine)
      /\ \A s \in Seq(Sentence), x \in Sentence : L(Append(s, x)) = Append(L(s), x.line)
      /\ \A s \in Seq(Sentence) : s # <<>> =>
           L(s) # <<>> /\ Head(L(s)) = Head(s).line /\ L(Tail(s)) = Tail(L(s))
  BY <1>1, <1>2, <1>3
<1>. QED
  BY <1>4 DEF L

\* A command whose line runs through the pack as run and changes it to new takes
\* effect at once.
LEMMA ExecuteMaps ==
  ASSUME TypeOK, NEW r \in Commands, Transmit(r),
         NEW run \in [Links -> GoodLine], run[0] = Packetize(r), NEW new \in [Cells -> Cell],
         \A i \in Cells : Yields(Process(PackCells[i], run[i-1]), new[i], run[i])
  PROVE  PackCells' = new /\ PackReplies' = Append(PackReplies, run[N])
<1> DEFINE cs == NoLoad
           ls == Lines
           ms == Lines'
<1>1. cs \in [Cells -> Cell] /\ ls \in [Links -> Seq(GoodLine)] /\ NoLoad' = cs
  BY MapType DEF Transmit, NoLoad
<1>2. /\ wire \in [Links -> Seq(Sentence)] /\ wire' \in [Links -> Seq(Sentence)]
      /\ \A j \in Links : j # 0 => wire'[j] = wire[j]
      /\ wire'[0] = Append(wire[0], [line |-> Packetize(r), tag |-> Len(sent) + 1])
      /\ [line |-> Packetize(r), tag |-> Len(sent) + 1] \in Sentence
  <2>1. Packetize(r) \in GoodLine /\ Len(sent) \in Nat
    BY TransmitEffect, LenProperties DEF TypeOK
  <2>2. [line |-> Packetize(r), tag |-> Len(sent) + 1] \in Sentence
    BY <2>1 DEF Sentence
  <2>3. wire \in [Links -> Seq(Sentence)]
    BY WireType
  <2>. HIDE DEF Sentence
  <2>. QED
    BY <2>2, <2>3, TransmitEffect, Zenon
<1>3. /\ ms \in [Links -> Seq(GoodLine)]
      /\ ms[0] = Append(ls[0], run[0]) /\ \A i \in Cells : ms[i] = ls[i]
  <2>1. 0 \in Links /\ \A i \in Cells : i \in Links /\ i # 0
    BY ChainAssumption DEF Links, Cells
  <2> DEFINE x == [line |-> Packetize(r), tag |-> Len(sent) + 1]
  <2>2. ms \in [Links -> Seq(GoodLine)]
    BY <1>2, LinesOf DEF Lines
  <2>3. \A i \in Cells : ms[i] = ls[i]
    BY <1>2, <2>1 DEF Lines
  <2>4. ms[0] = Append(ls[0], run[0])
    <3>1. ls[0] = [k \in DOMAIN wire[0] |-> wire[0][k].line]
          /\ ms[0] = [k \in DOMAIN Append(wire[0], x) |-> Append(wire[0], x)[k].line]
      BY <1>2, <2>1 DEF Lines
    <3>2. x \in Sentence /\ x.line = run[0] /\ wire[0] \in Seq(Sentence)
      BY <1>2, <2>1
    <3>. HIDE DEF x
    <3>. QED
      BY <3>1, <3>2, LinesOf
  <2>. QED
    BY <2>2, <2>3, <2>4
<1>4. \A i \in Cells : PackCells[i] = After[<<cs[i], Drained(cs, ls)[i-1]>>].cell
  BY DEF PackCells
<1>5. /\ PackReplies = Drained(cs, ls)[N] /\ PackReplies' = Drained(cs, ms)[N]
      /\ PackCells' = [i \in Cells |-> After[<<cs[i], Drained(cs, ms)[i-1]>>].cell]
  BY <1>1 DEF PackReplies, PackCells
<1>. HIDE DEF cs, ls, ms
<1>6. \A i \in Cells :
        Process(After[<<cs[i], Drained(cs, ls)[i-1]>>].cell, run[i-1]).out = <<run[i]>>
  BY <1>4 DEF Yields
<1>7. /\ Drained(cs, ms)[N] = Append(Drained(cs, ls)[N], run[N])
      /\ \A i \in Cells :
           After[<<cs[i], Drained(cs, ms)[i-1]>>].cell
             = Process(After[<<cs[i], Drained(cs, ls)[i-1]>>].cell, run[i-1]).cell
  BY <1>1, <1>3, <1>6, DrainAppend
<1>8. \A i \in Cells : After[<<cs[i], Drained(cs, ms)[i-1]>>].cell = new[i]
  BY <1>4, <1>7 DEF Yields
<1>9. PackCells' = new
  <2>1. new = [i \in Cells |-> new[i]]
    OBVIOUS
  <2>. QED
    BY <1>5, <1>8, <2>1
<1>. QED
  BY <1>5, <1>7, <1>9

-----------------------------------------------------------------------------
(***************************************************************************)
(* Each command takes effect at once.                                      *)
(***************************************************************************)

\* The pack is built from the definitions the cells are built from.
LEMMA SameCodec ==
  /\ \A n : Pack!IdText(n) = IdText(n) /\ Pack!AddrText(n) = AddrText(n)
  /\ \A t : Pack!Cut(t) = Cut(t) /\ Pack!SettingOf(t) = SettingOf(t)
  /\ \A c, addr : Pack!ReadRegister(c, addr) = ReadRegister(c, addr)
  /\ \A code : Pack!CodeText(code) = CodeText(code)
  /\ \A addr : Pack!WriteCode(addr) = CodeOfWrite(addr) /\ Pack!ReadCode(addr) = CodeOfRead(addr)
  /\ Pack!kErrCodeNone = kErrCodeNone
  /\ Pack!kErrCodePacketLengthExceeded = kErrCodePacketLengthExceeded
<1>1. \A n : Pack!IdText(n) = IdText(n) /\ Pack!AddrText(n) = AddrText(n)
  BY DEF Pack!IdText, IdText, Pack!AddrText, AddrText
<1>2. \A t : Pack!Cut(t) = Cut(t)
  BY DEF Pack!Cut, Cut
<1>3. \A t : Pack!SettingOf(t) = SettingOf(t)
  BY DEF Pack!SettingOf, SettingOf, Pack!NotANumber, NotANumber, Pack!Rail, Rail,
     Pack!ToNum, ToNum, Pack!kMaxOutputVoltage, kMaxOutputVoltage, Pack!kMinOutputVoltage,
     kMinOutputVoltage
<1>4. \A n : Pack!FloatText(n) = FloatText(n)
  BY DEF Pack!FloatText, FloatText, Pack!NotANumber, NotANumber
<1>5. \A c, addr : Pack!ReadRegister(c, addr) = ReadRegister(c, addr)
  BY <1>4 DEF Pack!ReadRegister, ReadRegister, Pack!VersionText, VersionText,
     Pack!kRegAddrSetOutputVoltage, kRegAddrSetOutputVoltage,
     Pack!kRegAddrReadOutputCurrent, kRegAddrReadOutputCurrent
<1>6. \A code : Pack!CodeText(code) = CodeText(code)
  BY DEF Pack!CodeText, CodeText, Pack!kErrCodeNone, kErrCodeNone
<1>7. \A addr : Pack!WriteCode(addr) = CodeOfWrite(addr)
  BY DEF Pack!WriteCode, CodeOfWrite, Pack!kErrCodeNone, kErrCodeNone,
     Pack!kErrCodeWriteNotSupported, kErrCodeWriteNotSupported,
     Pack!kErrCodeAddrNotRecognized, kErrCodeAddrNotRecognized,
     Pack!kRegAddrSetOutputVoltage, kRegAddrSetOutputVoltage,
     Pack!kRegAddrReadOutputCurrent, kRegAddrReadOutputCurrent
<1>8. \A addr : Pack!ReadCode(addr) = CodeOfRead(addr)
  BY DEF Pack!ReadCode, CodeOfRead, Pack!Readable, Readable, Pack!kErrCodeNone, kErrCodeNone,
     Pack!kErrCodeAddrNotRecognized, kErrCodeAddrNotRecognized,
     Pack!kRegAddrSetOutputVoltage, kRegAddrSetOutputVoltage,
     Pack!kRegAddrReadOutputCurrent, kRegAddrReadOutputCurrent,
     Pack!kRegAddrReadFirmwareVersion, kRegAddrReadFirmwareVersion
<1>9. Pack!kErrCodeNone = kErrCodeNone
      /\ Pack!kErrCodePacketLengthExceeded = kErrCodePacketLengthExceeded
  BY DEF Pack!kErrCodeNone, kErrCodeNone, Pack!kErrCodePacketLengthExceeded,
     kErrCodePacketLengthExceeded
<1>. QED
  BY <1>1, <1>2, <1>3, <1>5, <1>6, <1>7, <1>8, <1>9

LEMMA SameReplies ==
  /\ Pack!Cells = Cells
  /\ \A type, fields : Pack!Reply(type, fields) = Msg(type, fields)
  /\ \A i, text : Pack!From(i, text) = Says(PackCells[i], text)
  /\ \A i, r : Pack!Addressed(i, r) <=>
                 PackCells[i].id = r.id /\ \A j \in 1 .. i-1 : PackCells[j].id # r.id
  /\ \A r : Pack!Unaddressed(r) <=> \A i \in Cells : PackCells[i].id # r.id
BY SameCodec DEF Pack!Cells, Cells, Pack!Reply, Msg, Pack!From, Says, Pack!Addressed,
   Pack!Unaddressed

\* A command has taken effect on the pack and been answered.
Takes(new, msg) ==
  /\ PackCells' = new /\ PackReplies' = Append(PackReplies, msg)
  /\ ~ master.waiting /\ master'.waiting = TRUE

LEMMA TakesAccept ==
  ASSUME NEW new, NEW msg
  PROVE  Takes(new, msg) => /\ Pack!Accept(new, msg)
                            /\ ~ master.waiting /\ master'.waiting = TRUE
BY DEF Takes, Pack!Accept

LEMMA TransmitTakes ==
  ASSUME TypeOK, NEW r \in Commands, Transmit(r),
         NEW run \in [Links -> GoodLine], run[0] = Packetize(r), NEW new \in [Cells -> Cell],
         \A i \in Cells : Yields(Process(PackCells[i], run[i-1]), new[i], run[i])
  PROVE  Takes(new, run[N])
<1>1. ~ master.waiting /\ master'.waiting = TRUE
  BY DEF Transmit, TypeOK
<1>. QED
  BY <1>1, ExecuteMaps DEF Takes

LEMMA Positions ==
  /\ N \in Nat /\ N \in Cells /\ N \in Links /\ 0 \in Links /\ 1 \in Cells
  /\ \A i \in Cells : i \in Nat /\ i \in Links /\ i - 1 \in Links /\ i # 0 /\ (i - 1 = 0 <=> i = 1)
                      /\ (i # 1 => i - 1 \in Cells)
BY ChainAssumption DEF Links, Cells

LEMMA ExecuteDIS ==
  ASSUME Roomy, TypeOK, NEW r \in Commands, Transmit(r), r.type = "DIS"
  PROVE  Pack!Execute(r)
<1> DEFINE at(i) == (r.id + i) % IdSpace
           run == [i \in Links |-> Msg("DIS", <<IdText(at(i))>>)]
           new == [i \in Cells |-> [PackCells[i] EXCEPT !.id = at(i)]]
<1>1. r \in Request /\ r.id \in Id /\ r.id \in Int /\ r.id % IdSpace = r.id
  BY IdKept, ChainAssumption DEF Request
<1>2. \A i \in Int : at(i) \in Id /\ at(i) \in Int
  BY <1>1, PacketAssumption DEF Id
<1>3. \A i \in Int : (at(i - 1) + 1) % IdSpace = at(i)
  <2>. SUFFICES ASSUME NEW i \in Int
                PROVE  (((r.id + (i - 1)) % IdSpace) + 1) % IdSpace = (r.id + i) % IdSpace
    OBVIOUS
  <2>1. r.id + (i - 1) \in Int /\ (r.id + (i - 1)) + 1 = r.id + i /\ 1 \in Int
    BY <1>1
  <2>. QED
    BY <2>1, PacketAssumption, ModShift
<1>4. run[0] = Packetize(r)
  <2>1. at(0) = r.id
    BY <1>1
  <2>. HIDE DEF at
  <2>. QED
    BY <1>1, <2>1, PacketizeOf, Positions
<1>. HIDE DEF at
<1>5. run \in [Links -> GoodLine]
  <2>. SUFFICES ASSUME NEW i \in Links
                PROVE  Msg("DIS", <<IdText(at(i))>>) \in GoodLine
    OBVIOUS
  <2>1. IdText(at(i)) \in Text
    BY <1>2, TextTypes DEF Links
  <2>. QED
    BY <2>1, GoodMsgs
<1>6. PackCells \in [Cells -> Cell]
  BY MapType
<1>7. new \in [Cells -> Cell]
  <2>1. \A c \in Cell, n \in Id : [c EXCEPT !.id = n] \in Cell
    BY DEF Cell
  <2>. QED
    BY <1>2, <1>6, <2>1 DEF Cells
<1>8. ASSUME NEW i \in Cells
      PROVE  Yields(Process(PackCells[i], run[i-1]), new[i], run[i])
  <2>1. /\ run[i-1] = Msg("DIS", <<IdText(at(i-1))>>) /\ run[i] = Msg("DIS", <<IdText(at(i))>>)
        /\ new[i] = [PackCells[i] EXCEPT !.id = at(i)]
    BY Positions
  <2>2. at(i-1) \in Id /\ (at(i-1) + 1) % IdSpace = at(i) /\ PackCells[i] \in Cell
    <3>1. i \in Int /\ i - 1 \in Int
      BY Positions
    <3>. QED
      BY <1>2, <1>3, <1>6, <3>1
  <2>. HIDE DEF run, new
  <2>3. Yields(Process(PackCells[i], Msg("DIS", <<IdText(at(i-1))>>)),
               [PackCells[i] EXCEPT !.id = (at(i-1) + 1) % IdSpace],
               Msg("DIS", <<IdText((at(i-1) + 1) % IdSpace)>>))
    BY <2>2, ProcessDIS
  <2>. QED
    BY <2>1, <2>2, <2>3
<1>9. Takes(new, run[N])
  <2>. HIDE DEF run, new
  <2>. QED
    BY <1>4, <1>5, <1>7, <1>8, TransmitTakes
<1>10. run[N] = Msg("DIS", <<IdText((r.id + N) % IdSpace)>>)
       /\ new = [i \in Cells |-> [PackCells[i] EXCEPT !.id = (r.id + i) % IdSpace]]
  BY Positions DEF at
<1>. HIDE DEF run, new
<1>11. Pack!Discover(r)
  <2>1. Pack!Accept(new, Msg("DIS", <<IdText((r.id + N) % IdSpace)>>))
    BY <1>9, <1>10, TakesAccept
  <2>. QED
    BY <1>10, <2>1, SameCodec, SameReplies DEF Pack!Discover, Pack!Cells, Cells
<1>. QED
  BY <1>9, <1>11, TakesAccept DEF Pack!Execute

\* Cell j passes on what it is given, and changes nothing.
PassesOn(j, line, pass) == Yields(Process(PackCells[j], line), PackCells[j], pass)

\* A line that no cell answers leaves the chain, and the pack as it is.
LEMMA PassedOn ==
  ASSUME TypeOK, NEW r \in Commands, Transmit(r), NEW pass \in GoodLine,
         \A j \in Cells : PassesOn(j, Packetize(r), pass) /\ PassesOn(j, pass, pass)
  PROVE  Takes(PackCells, pass)
<1> DEFINE run == [j \in Links |-> IF j = 0 THEN Packetize(r) ELSE pass]
<1>1. Packetize(r) \in GoodLine
  BY TransmitEffect
<1>2. run \in [Links -> GoodLine] /\ run[0] = Packetize(r) /\ run[N] = pass
  BY <1>1, Positions
<1>3. ASSUME NEW j \in Cells
      PROVE  Yields(Process(PackCells[j], run[j-1]), PackCells[j], run[j])
  <2>1. run[j] = pass /\ run[j-1] \in {Packetize(r), pass}
    BY Positions
  <2>. HIDE DEF run
  <2>. QED
    BY <2>1 DEF PassesOn
<1>4. PackCells \in [Cells -> Cell]
  BY MapType
<1>5. Takes(PackCells, run[N])
  <2>. HIDE DEF run
  <2>. QED
    BY <1>2, <1>3, <1>4, TransmitTakes
<1>. QED
  BY <1>2, <1>5

\* A line that cell i answers reaches it, and its answer the master.
LEMMA Consumed ==
  ASSUME Roomy, TypeOK, NEW r \in Commands, Transmit(r),
         NEW i \in Cells, NEW pass \in GoodLine, NEW d \in Cell, NEW t \in Text,
         \A j \in 1 .. i-1 : PassesOn(j, Packetize(r), pass) /\ PassesOn(j, pass, pass),
         Yields(Process(PackCells[i], Packetize(r)), d, Says(PackCells[i], t)),
         Yields(Process(PackCells[i], pass), d, Says(PackCells[i], t))
  PROVE  Takes([PackCells EXCEPT ![i] = d], Says(PackCells[i], t))
<1> DEFINE says == Says(PackCells[i], t)
           run == [j \in Links |-> IF j = 0 THEN Packetize(r)
                                   ELSE IF j < i THEN pass ELSE says]
           new == [PackCells EXCEPT ![i] = d]
<1>1. Packetize(r) \in GoodLine
  BY TransmitEffect
<1>2. PackCells \in [Cells -> Cell] /\ i \in Nat /\ i >= 1 /\ N \in Nat /\ N >= i /\ N # 0
  BY MapType, ChainAssumption DEF Cells
<1>3. says \in GoodLine
  <2>1. PackCells[i].id \in Int
    BY <1>2, IdKept DEF Cell
  <2>2. IdText(PackCells[i].id) \in Text /\ Cut(t) \in Text
    BY <2>1, TextTypes
  <2>. QED
    BY <2>2, GoodMsgs DEF Says
<1>4. ASSUME NEW j \in Cells
      PROVE  Yields(Process(PackCells[j], says), PackCells[j], says)
  BY <1>2, <1>4, ProcessSays
<1>. HIDE DEF says
<1>5. run \in [Links -> GoodLine] /\ run[0] = Packetize(r) /\ run[N] = says
  BY <1>1, <1>2, <1>3, Positions
<1>6. new \in [Cells -> Cell] /\ new[i] = d /\ \A j \in Cells : j # i => new[j] = PackCells[j]
  BY <1>2
<1>7. ASSUME NEW j \in Cells
      PROVE  Yields(Process(PackCells[j], run[j-1]), new[j], run[j])
  <2>1. j \in Int /\ j \in Links /\ j - 1 \in Links /\ j # 0
    BY Positions
  <2>2. CASE j < i
    <3>1. run[j] = pass /\ run[j-1] \in {Packetize(r), pass} /\ j \in 1 .. i-1 /\ j # i
      BY <1>2, <2>1, <2>2 DEF Cells
    <3>. HIDE DEF run, new
    <3>. QED
      BY <1>6, <3>1 DEF PassesOn
  <2>3. CASE j = i
    <3>1. run[j] = says /\ run[j-1] \in {Packetize(r), pass}
      BY <1>2, <2>1, <2>3
    <3>. HIDE DEF run, new
    <3>. QED
      BY <1>6, <2>3, <3>1 DEF says
  <2>4. CASE j > i
    <3>1. run[j] = says /\ run[j-1] = says /\ j # i
      BY <1>2, <2>1, <2>4
    <3>. HIDE DEF run, new
    <3>. QED
      BY <1>4, <1>6, <3>1
  <2>. QED
    BY <1>2, <2>1, <2>2, <2>3, <2>4
<1>8. Takes(new, run[N])
  <2>. HIDE DEF run, new
  <2>. QED
    BY <1>5, <1>6, <1>7, TransmitTakes
<1>. QED
  BY <1>5, <1>8 DEF says

LEMMA ExecuteSRS ==
  ASSUME Roomy, TypeOK, NEW r \in Commands, Transmit(r), r.type = "SRS"
  PROVE  Pack!Execute(r)
<1> DEFINE v == r.vals[1]
           pass == Msg("SRS", <<IdText(r.id), Cut(v)>>)
<1>1. r \in Request /\ r.id \in Id /\ r.id \in Int /\ v \in Text /\ Cut(v) \in Text
      /\ Packetize(r) = Msg("SRS", <<IdText(r.id), v>>) /\ Cut(Cut(v)) = Cut(v)
  <2>1. r \in Request /\ r.id \in Id
    BY ChainAssumption DEF Request
  <2>2. v \in Text /\ Packetize(r) = Msg("SRS", <<IdText(r.id), v>>)
    BY <2>1, PacketizeOf DEF HasValue
  <2>. QED
    BY <2>1, <2>2, IdKept, CutCut, TextTypes
<1>. HIDE DEF v
<1>2. pass \in GoodLine
  BY <1>1, TextTypes, GoodMsgs
<1>3. ASSUME NEW j \in Cells
      PROVE  PassesOn(j, Packetize(r), pass) /\ PassesOn(j, pass, pass)
  <2>1. PackCells[j] \in Cell
    BY MapType
  <2>2. \A t \in Text : Yields(Process(PackCells[j], Msg("SRS", <<IdText(r.id), t>>)),
                               PackCells[j], Msg("SRS", <<IdText(r.id), Cut(t)>>))
    BY <1>1, <2>1, ProcessSRS
  <2>. QED
    BY <1>1, <2>2 DEF PassesOn
<1>4. Takes(PackCells, pass)
  <2>. HIDE DEF pass
  <2>. QED
    BY <1>2, <1>3, PassedOn
<1>5. Pack!Accept(PackCells, pass) /\ ~ master.waiting /\ master'.waiting = TRUE
  <2>. HIDE DEF pass
  <2>. QED
    BY <1>4, TakesAccept
<1>6. Pack!Respond(r)
  BY <1>5, SameCodec, SameReplies DEF Pack!Respond, v
<1>. HIDE DEF pass
<1>. QED
  BY <1>5, <1>6 DEF Pack!Execute

LEMMA ExecuteMWR ==
  ASSUME Roomy, TypeOK, NEW r \in Commands, Transmit(r), r.type = "MWR"
  PROVE  Pack!Execute(r)
<1> DEFINE v == r.vals[1]
           a == AddrText(r.addr)
           code == CodeOfWrite(r.addr)
           echo == Msg("MWR", <<a, Cut(v)>>)
<1>1. r \in Request /\ r.addr \in Int /\ v \in Text /\ Cut(v) \in Text /\ a \in Text
      /\ Packetize(r) = Msg("MWR", <<a, v>>) /\ Cut(Cut(v)) = Cut(v)
  <2>1. r \in Request /\ r.addr \in Int
    BY ChainAssumption DEF Request
  <2>2. v \in Text /\ Packetize(r) = Msg("MWR", <<a, v>>)
    BY <2>1, PacketizeOf DEF HasValue
  <2>. QED
    BY <2>1, <2>2, CutCut, TextTypes
<1>2. PackCells \in [Cells -> Cell]
  BY MapType
<1>3. ASSUME NEW j \in Cells, NEW t \in Text
      PROVE  IF code = kErrCodeNone
               THEN Yields(Process(PackCells[j], Msg("MWR", <<a, t>>)),
                           Written(PackCells[j], Cut(t)), Msg("MWR", <<a, Cut(t)>>))
               ELSE Yields(Process(PackCells[j], Msg("MWR", <<a, t>>)),
                           PackCells[j], Says(PackCells[j], CodeText(code)))
  <2>1. PackCells[j] \in Cell
    BY <1>2
  <2>. QED
    BY <1>1, <2>1, ProcessMWR
<1>. HIDE DEF v, a, code
<1>4. CASE code = kErrCodeNone
  <2> DEFINE run == [j \in Links |-> IF j = 0 THEN Packetize(r) ELSE echo]
             new == [j \in Cells |-> Written(PackCells[j], Cut(v))]
  <2>1. echo \in GoodLine /\ Packetize(r) \in GoodLine
    BY <1>1, GoodMsgs, TransmitEffect
  <2>2. new \in [Cells -> Cell]
    <3>1. SettingOf(Cut(v)) \in Setting
      BY <1>1 DEF SettingOf, Setting, Rail, Voltage, ToNum, Text, kMaxOutputVoltage, kMinOutputVoltage
    <3>2. \A c \in Cell, s \in Setting : [c EXCEPT !.volt = s] \in Cell
      BY DEF Cell
    <3>. QED
      BY <1>2, <3>1, <3>2 DEF Written
  <2>. HIDE DEF echo
  <2>3. run \in [Links -> GoodLine] /\ run[0] = Packetize(r) /\ run[N] = echo
    BY <2>1, Positions
  <2>4. ASSUME NEW j \in Cells
        PROVE  Yields(Process(PackCells[j], run[j-1]), new[j], run[j])
    <3>1. /\ run[j] = echo /\ new[j] = Written(PackCells[j], Cut(v))
          /\ run[j-1] \in {Msg("MWR", <<a, v>>), Msg("MWR", <<a, Cut(v)>>)}
      BY <1>1, Positions DEF echo
    <3>. HIDE DEF run, new
    <3>. QED
      BY <1>1, <1>3, <1>4, <3>1 DEF echo
  <2>5. Takes(new, echo)
    <3>. HIDE DEF run, new
    <3>. QED
      BY <2>2, <2>3, <2>4, TransmitTakes
  <2>6. Pack!Accept(new, echo) /\ ~ master.waiting /\ master'.waiting = TRUE
    <3>. HIDE DEF new
    <3>. QED
      BY <2>5, TakesAccept
  <2>7. Pack!WriteAll(r)
    <3>1. new = [j \in Cells |-> [PackCells[j] EXCEPT !.volt = SettingOf(Cut(v))]]
      BY DEF Written
    <3>. HIDE DEF new
    <3>. QED
      BY <1>4, <2>6, <3>1, SameCodec, SameReplies
         DEF Pack!WriteAll, Pack!Cells, Cells, v, a, echo, code
  <2>. QED
    BY <2>6, <2>7 DEF Pack!Execute
<1>5. CASE code # kErrCodeNone
  <2> DEFINE t == CodeText(code)
  <2>1. t \in Text /\ 1 \in Cells /\ PackCells[1] \in Cell /\ Packetize(r) \in GoodLine
        /\ \A j \in 1 .. 1 - 1 : FALSE
    <3>1. code \in Nat /\ \A n \in Nat : CodeText(n) \in Text
      BY Codes DEF code
    <3>2. Packetize(r) \in GoodLine
      BY TransmitEffect
    <3>. QED
      BY <1>2, <3>1, <3>2, Positions
  <2>2. Yields(Process(PackCells[1], Packetize(r)), PackCells[1], Says(PackCells[1], t))
    BY <1>1, <1>3, <1>5, <2>1
  <2>. HIDE DEF t
  <2>3. Takes([PackCells EXCEPT ![1] = PackCells[1]], Says(PackCells[1], t))
    BY <2>1, <2>2, Consumed
  <2>4. [PackCells EXCEPT ![1] = PackCells[1]] = PackCells
    BY <1>2
  <2>5. Pack!Accept(PackCells, Says(PackCells[1], t)) /\ ~ master.waiting /\ master'.waiting = TRUE
    BY <2>3, <2>4, TakesAccept
  <2>6. Pack!WriteAll(r)
    BY <1>5, <2>5, SameCodec, SameReplies DEF Pack!WriteAll, t, code
  <2>. QED
    BY <2>5, <2>6 DEF Pack!Execute
<1>. QED
  BY <1>4, <1>5

\* Either no cell has the ID of a command, or one is the first that has it.
LEMMA FirstAddressed ==
  ASSUME NEW id
  PROVE  \/ \A i \in Cells : PackCells[i].id # id
         \/ \E i \in Cells : PackCells[i].id = id /\ \A j \in 1 .. i-1 : PackCells[j].id # id
<1> DEFINE T == {i \in Cells : PackCells[i].id = id}
<1>. SUFFICES ASSUME T # {}
              PROVE  \E i \in Cells : PackCells[i].id = id
                                      /\ \A j \in 1 .. i-1 : PackCells[j].id # id
  OBVIOUS
<1>1. T \in SUBSET Nat
  BY DEF Cells
<1>2. PICK i \in T : \A j \in T : i <= j
  <2>. HIDE DEF T
  <2>. QED
    BY <1>1, LeastNat
<1>3. \A j \in 1 .. i-1 : j \in Cells /\ ~ (i <= j)
  BY ChainAssumption DEF Cells
<1>. QED
  BY <1>2, <1>3

LEMMA ExecuteSWR ==
  ASSUME Roomy, TypeOK, NEW r \in Commands, Transmit(r), r.type = "SWR"
  PROVE  Pack!Execute(r)
<1> DEFINE v == r.vals[1]
           n == IdText(r.id)
           a == AddrText(r.addr)
           code == CodeOfWrite(r.addr)
           says == CodeText(code)
           pass == Msg("SWR", <<n, a, Cut(v)>>)
           after(c) == IF code = kErrCodeNone THEN Written(c, Cut(v)) ELSE c
<1>1. r \in Request /\ r.id \in Id /\ r.addr \in Int /\ v \in Text /\ Cut(v) \in Text
      /\ Packetize(r) = Msg("SWR", <<n, a, v>>) /\ Cut(Cut(v)) = Cut(v)
  <2>1. r \in Request /\ r.id \in Id /\ r.addr \in Int
    BY ChainAssumption DEF Request
  <2>2. v \in Text /\ Packetize(r) = Msg("SWR", <<n, a, v>>)
    BY <2>1, PacketizeOf DEF HasValue
  <2>. QED
    BY <2>1, <2>2, CutCut, TextTypes
<1>2. PackCells \in [Cells -> Cell]
  BY MapType
<1>3. says \in Text
  <2>1. code \in Nat /\ \A k \in Nat : CodeText(k) \in Text
    BY Codes
  <2>. QED
    BY <2>1
<1>4. pass \in GoodLine
  BY <1>1, IdKept, TextTypes, GoodMsgs
<1>5. ASSUME NEW j \in Cells, NEW t \in Text
      PROVE  IF r.id = PackCells[j].id
               THEN Yields(Process(PackCells[j], Msg("SWR", <<n, a, t>>)),
                           IF code = kErrCodeNone THEN Written(PackCells[j], Cut(t))
                                                  ELSE PackCells[j],
                           Says(PackCells[j], says))
               ELSE Yields(Process(PackCells[j], Msg("SWR", <<n, a, t>>)),
                           PackCells[j], Msg("SWR", <<n, a, Cut(t)>>))
  <2>1. PackCells[j] \in Cell
    BY <1>2
  <2>. QED
    BY <1>1, <2>1, ProcessSWR
<1>. HIDE DEF v, n, a, code, says
<1>6. ASSUME NEW j \in Cells, PackCells[j].id # r.id
      PROVE  PassesOn(j, Packetize(r), pass) /\ PassesOn(j, pass, pass)
  BY <1>1, <1>5, <1>6 DEF PassesOn
<1>7. ASSUME \A i \in Cells : PackCells[i].id # r.id
      PROVE  Pack!Execute(r)
  <2>1. Takes(PackCells, pass)
    <3>. HIDE DEF pass
    <3>. QED
      BY <1>4, <1>6, <1>7, PassedOn
  <2>2. Pack!Accept(PackCells, pass) /\ ~ master.waiting /\ master'.waiting = TRUE
    <3>. HIDE DEF pass
    <3>. QED
      BY <2>1, TakesAccept
  <2>3. Pack!Unaddressed(r)
    BY <1>7, SameReplies
  <2>4. Pack!WriteOne(r)
    BY <2>2, <2>3, SameCodec, SameReplies DEF Pack!WriteOne, v, n, a
  <2>. HIDE DEF pass
  <2>. QED
    BY <2>2, <2>4 DEF Pack!Execute
<1>8. ASSUME NEW i \in Cells, PackCells[i].id = r.id, \A j \in 1 .. i-1 : PackCells[j].id # r.id
      PROVE  Pack!Execute(r)
  <2> DEFINE d == after(PackCells[i])
             new == [PackCells EXCEPT ![i] = d]
             reply == Says(PackCells[i], says)
  <2>1. d \in Cell /\ PackCells[i] \in Cell
    <3>1. SettingOf(Cut(v)) \in Setting
      BY <1>1 DEF SettingOf, Setting, Rail, Voltage, ToNum, Text, kMaxOutputVoltage, kMinOutputVoltage
    <3>2. \A c \in Cell, s \in Setting : [c EXCEPT !.volt = s] \in Cell
      BY DEF Cell
    <3>. QED
      BY <1>2, <3>1, <3>2 DEF Written
  <2>2. /\ Yields(Process(PackCells[i], Packetize(r)), d, reply)
        /\ Yields(Process(PackCells[i], pass), d, reply)
    BY <1>1, <1>5, <1>8
  <2>3. \A j \in 1 .. i-1 : PassesOn(j, Packetize(r), pass) /\ PassesOn(j, pass, pass)
    <3>1. \A j \in 1 .. i-1 : j \in Cells
      BY ChainAssumption DEF Cells
    <3>. HIDE DEF pass
    <3>. QED
      BY <1>6, <1>8, <3>1
  <2>. HIDE DEF pass, d, after
  <2>4. Takes(new, reply)
    BY <1>3, <1>4, <2>1, <2>2, <2>3, Consumed
  <2>5. Pack!Accept(new, reply) /\ ~ master.waiting /\ master'.waiting = TRUE
    <3>. HIDE DEF new, reply
    <3>. QED
      BY <2>4, TakesAccept
  <2>6. new = IF code = kErrCodeNone THEN [PackCells EXCEPT ![i].volt = SettingOf(Cut(v))]
                                     ELSE PackCells
    <3>1. [PackCells EXCEPT ![i] = PackCells[i]] = PackCells
      BY <1>2
    <3>. QED
      BY <3>1 DEF d, after, Written
  <2>7. Pack!Addressed(i, r)
    BY <1>8, SameReplies
  <2>8. reply = Pack!From(i, Pack!CodeText(Pack!WriteCode(r.addr)))
    BY SameCodec, SameReplies DEF says, code
  <2>9. Pack!WriteOne(r)
    <3>1. Pack!Accept(IF Pack!WriteCode(r.addr) = Pack!kErrCodeNone
                        THEN [PackCells EXCEPT ![i].volt = Pack!SettingOf(Pack!Cut(r.vals[1]))]
                        ELSE PackCells,
                      Pack!From(i, Pack!CodeText(Pack!WriteCode(r.addr))))
      <4>. HIDE DEF new, reply
      <4>. QED
        BY <2>5, <2>6, <2>8, SameCodec DEF code, v
    <3>. QED
      BY <2>7, <3>1, SameReplies DEF Pack!WriteOne
  <2>. HIDE DEF new, reply
  <2>. QED
    BY <2>5, <2>9 DEF Pack!Execute
<1>. QED
  BY <1>7, <1>8, FirstAddressed

LEMMA ExecuteSRD ==
  ASSUME Roomy, TypeOK, NEW r \in Commands, Transmit(r), r.type = "SRD"
  PROVE  Pack!Execute(r)
<1> DEFINE n == IdText(r.id)
           a == AddrText(r.addr)
           code == CodeOfRead(r.addr)
           pass == Msg("SRD", <<n, a>>)
           answer(c) == IF code = kErrCodeNone THEN ReadRegister(c, r.addr) ELSE CodeText(code)
<1>1. r \in Request /\ r.id \in Id /\ r.addr \in Int /\ Packetize(r) = pass
  <2>1. r \in Request /\ r.id \in Id /\ r.addr \in Int
    BY ChainAssumption DEF Request
  <2>. QED
    BY <2>1, PacketizeOf
<1>2. PackCells \in [Cells -> Cell]
  BY MapType
<1>3. pass \in GoodLine
  BY <1>1, TransmitEffect
<1>4. ASSUME NEW j \in Cells
      PROVE  IF r.id = PackCells[j].id
               THEN Yields(Process(PackCells[j], pass), PackCells[j],
                           Says(PackCells[j], answer(PackCells[j])))
               ELSE Yields(Process(PackCells[j], pass), PackCells[j], pass)
  <2>1. PackCells[j] \in Cell
    BY <1>2
  <2>. QED
    BY <1>1, <2>1, ProcessSRD
<1>5. \A c \in Cell : answer(c) \in Text
  <2>1. code \in Nat /\ \A k \in Nat : CodeText(k) \in Text
    BY Codes
  <2>. QED
    BY <2>1, ReadRegisterType
<1>. HIDE DEF n, a, code, answer
<1>6. ASSUME NEW j \in Cells, PackCells[j].id # r.id
      PROVE  PassesOn(j, Packetize(r), pass) /\ PassesOn(j, pass, pass)
  BY <1>1, <1>4, <1>6 DEF PassesOn
<1>7. ASSUME \A i \in Cells : PackCells[i].id # r.id
      PROVE  Pack!Execute(r)
  <2>1. Takes(PackCells, pass)
    <3>. HIDE DEF pass
    <3>. QED
      BY <1>3, <1>6, <1>7, PassedOn
  <2>2. Pack!Accept(PackCells, pass) /\ ~ master.waiting /\ master'.waiting = TRUE
    <3>. HIDE DEF pass
    <3>. QED
      BY <2>1, TakesAccept
  <2>3. Pack!Unaddressed(r)
    BY <1>7, SameReplies
  <2>4. Pack!ReadOne(r)
    BY <2>2, <2>3, SameCodec, SameReplies DEF Pack!ReadOne, n, a
  <2>. HIDE DEF pass
  <2>. QED
    BY <2>2, <2>4 DEF Pack!Execute
<1>8. ASSUME NEW i \in Cells, PackCells[i].id = r.id, \A j \in 1 .. i-1 : PackCells[j].id # r.id
      PROVE  Pack!Execute(r)
  <2> DEFINE d == PackCells[i]
             t == answer(d)
             reply == Says(PackCells[i], t)
  <2>1. d \in Cell /\ t \in Text
    BY <1>2, <1>5
  <2>2. /\ Yields(Process(PackCells[i], Packetize(r)), d, reply)
        /\ Yields(Process(PackCells[i], pass), d, reply)
    BY <1>1, <1>4, <1>8
  <2>3. \A j \in 1 .. i-1 : PassesOn(j, Packetize(r), pass) /\ PassesOn(j, pass, pass)
    <3>1. \A j \in 1 .. i-1 : j \in Cells
      BY ChainAssumption DEF Cells
    <3>. HIDE DEF pass
    <3>. QED
      BY <1>6, <1>8, <3>1
  <2>. HIDE DEF pass, d, t
  <2>4. Takes([PackCells EXCEPT ![i] = d], reply)
    BY <1>3, <2>1, <2>2, <2>3, Consumed
  <2>5. [PackCells EXCEPT ![i] = d] = PackCells
    BY <1>2 DEF d
  <2>6. Pack!Accept(PackCells, reply) /\ ~ master.waiting /\ master'.waiting = TRUE
    <3>. HIDE DEF reply
    <3>. QED
      BY <2>4, <2>5, TakesAccept
  <2>7. Pack!Addressed(i, r)
    BY <1>8, SameReplies
  <2>8. reply = Pack!From(i, IF Pack!ReadCode(r.addr) = Pack!kErrCodeNone
                               THEN Pack!ReadRegister(PackCells[i], r.addr)
                               ELSE Pack!CodeText(Pack!ReadCode(r.addr)))
    BY SameCodec, SameReplies DEF t, d, answer, code
  <2>9. Pack!ReadOne(r)
    <3>. HIDE DEF reply
    <3>. QED
      BY <2>6, <2>7, <2>8, SameReplies DEF Pack!ReadOne
  <2>. HIDE DEF reply
  <2>. QED
    BY <2>6, <2>9 DEF Pack!Execute
<1>. QED
  BY <1>7, <1>8, FirstAddressed

LEMMA ExecuteMRD ==
  ASSUME Roomy, RoomForAll, TypeOK, NEW r \in Commands, Transmit(r), r.type = "MRD"
  PROVE  Pack!Execute(r)
<1> DEFINE a == AddrText(r.addr)
           K == kMaxNumValues
           code == CodeOfRead(r.addr)
           value(k) == Cut(ReadRegister(PackCells[k], r.addr))
           vals(i) == [k \in 1 .. i |-> value(k)]
           read(i) == Msg("MRD", <<a>> \o vals(i))
           wrong == CodeText(kErrCodeAddrNotRecognized)
           long == CodeText(kErrCodePacketLengthExceeded)
           says == Says(PackCells[K+1], long)
           run == [j \in Links |-> IF j <= K THEN read(j) ELSE says]
<1>1. r \in Request /\ r.addr \in Int /\ Packetize(r) = Msg("MRD", <<a>> \o <<>>) /\ a \in Text
  <2>1. r \in Request /\ r.addr \in Int
    BY ChainAssumption DEF Request
  <2>2. Packetize(r) = Msg("MRD", <<a>> \o <<>>)
    BY <2>1, PacketizeOf
  <2>3. a \in Text
    BY <2>1, TextTypes
  <2>. QED
    BY <2>1, <2>2, <2>3
<1>2. PackCells \in [Cells -> Cell] /\ K \in Nat /\ N \in Nat /\ N >= 1
  BY MapType, PacketAssumption, ChainAssumption
<1>3. \A k \in Cells : value(k) \in Text /\ value(k).len <= Longest(r.addr) /\ Cut(value(k)) = value(k)
  <2>. SUFFICES ASSUME NEW k \in Cells
                PROVE  value(k) \in Text /\ value(k).len <= Longest(r.addr)
                       /\ Cut(value(k)) = value(k)
    OBVIOUS
  <2>1. PackCells[k] \in Cell
    BY <1>2
  <2>2. ReadRegister(PackCells[k], r.addr) \in Text
    BY <2>1, ReadRegisterType
  <2>. QED
    BY <2>1, <2>2, ReadLength, CutCut
<1>. HIDE DEF value
<1>4. ASSUME NEW i \in Links
      PROVE  /\ vals(i) \in Seq(Text) /\ Len(vals(i)) = i /\ vals(i) \in Values(r.addr)
             /\ \A k \in 1 .. i : vals(i)[k] = value(k)
  <2>1. i \in Nat /\ \A k \in 1 .. i : k \in Cells
    BY <1>2 DEF Links, Cells
  <2>2. vals(i) \in Seq(Text) /\ Len(vals(i)) = i /\ \A k \in 1 .. i : vals(i)[k] = value(k)
    BY <1>3, <2>1
  <2>. HIDE DEF vals
  <2>. QED
    BY <1>3, <2>1, <2>2 DEF Values
<1>5. vals(0) = <<>>
  <2>1. vals(0) \in Seq(Text) /\ Len(vals(0)) = 0
    BY <1>4, Positions
  <2>. HIDE DEF vals
  <2>. QED
    BY <2>1, EmptySeq
<1>6. ASSUME NEW i \in Cells
      PROVE  vals(i) = Append(vals(i-1), value(i))
  <2> DEFINE s == vals(i-1)
             u == Append(s, value(i))
  <2>1. i \in Nat /\ i \in Links /\ i - 1 \in Links /\ i - 1 \in Nat
    BY Positions DEF Links
  <2>2. /\ s \in Seq(Text) /\ Len(s) = i - 1 /\ \A k \in 1 .. i-1 : s[k] = value(k)
        /\ value(i) \in Text
    BY <1>3, <1>4, <2>1
  <2>. HIDE DEF s, vals
  <2>3. /\ u \in Seq(Text) /\ Len(u) = i /\ u[i] = value(i)
        /\ \A k \in 1 .. i-1 : u[k] = value(k)
    <3>1. /\ u \in Seq(Text) /\ Len(u) = Len(s) + 1 /\ u[Len(s)+1] = value(i)
          /\ \A k \in 1 .. Len(s) : u[k] = s[k]
      BY <2>2, AppendProperties
    <3>2. (i - 1) + 1 = i
      BY <2>1
    <3>. HIDE DEF u
    <3>. QED
      BY <2>2, <3>1, <3>2
  <2>. HIDE DEF u
  <2>4. ASSUME NEW k \in 1 .. i
        PROVE  u[k] = vals(i)[k]
    <3>1. k \in 1 .. i-1 \/ k = i
      BY <2>1
    <3>2. vals(i)[k] = value(k)
      BY <1>4, <2>1
    <3>. QED
      BY <2>3, <3>1, <3>2
  <2>5. vals(i) \in Seq(Text) /\ Len(vals(i)) = i
    BY <1>4, <2>1
  <2>. QED
    BY <2>3, <2>4, <2>5, SeqEqual DEF s, u
<1>. HIDE DEF vals
<1>7. wrong \in Text /\ long \in Text
  BY Codes DEF kErrCodeAddrNotRecognized
\* What cell i makes of the values of the cells before it.
<1>8. ASSUME NEW i \in Cells, i - 1 <= K
      PROVE  /\ i - 1 = K => Yields(Process(PackCells[i], read(i-1)), PackCells[i],
                                    Says(PackCells[i], long))
             /\ i - 1 < K /\ r.addr \notin Readable =>
                  Yields(Process(PackCells[i], read(i-1)), PackCells[i], Says(PackCells[i], wrong))
             /\ i - 1 < K /\ r.addr \in Readable =>
                  Yields(Process(PackCells[i], read(i-1)), PackCells[i], read(i))
  <2> DEFINE s == vals(i-1)
             p == Process(PackCells[i], Msg("MRD", <<a>> \o s))
  <2>1. /\ i \in Nat /\ i \in 1 .. N /\ i \in Links /\ i - 1 \in Links /\ (i - 1) + 1 = i
        /\ (i - 1 < K => i <= K)
    BY <1>2, Positions DEF Cells
  <2>2. s \in Values(r.addr) /\ Len(s) = i - 1 /\ PackCells[i] \in Cell
    BY <1>2, <1>4, <2>1
  <2>3. vals(i) = Append(s, Cut(ReadRegister(PackCells[i], r.addr)))
    BY <1>6 DEF value
  <2>4. i - 1 < K /\ r.addr \in Readable => RoomFor(r.addr, Len(s) + 1)
    BY <2>1, <2>2 DEF RoomForAll
  <2>. HIDE DEF s
  <2>5. /\ Len(s) = K => Yields(p, PackCells[i], Says(PackCells[i], long))
        /\ Len(s) < K /\ r.addr \notin Readable =>
             Yields(p, PackCells[i], Says(PackCells[i], wrong))
        /\ Len(s) < K /\ r.addr \in Readable /\ RoomFor(r.addr, Len(s) + 1) =>
             Yields(p, PackCells[i],
                    Msg("MRD", <<a>> \o Append(s, Cut(ReadRegister(PackCells[i], r.addr)))))
    <3>1. Len(s) <= K
      BY <1>8, <2>2
    <3>. QED
      BY <1>1, <2>2, <3>1, ProcessMRD
  <2>. HIDE DEF p
  <2>. QED
    BY <2>2, <2>3, <2>4, <2>5 DEF p, s
<1>9. read(0) = Packetize(r)
  BY <1>1, <1>5
<1>10. code = kErrCodeNone <=> r.addr \in Readable
  BY DEF CodeOfRead, kErrCodeNone, kErrCodeAddrNotRecognized
<1>11. \A i \in Links : read(i) \in GoodLine
  <2>. SUFFICES ASSUME NEW i \in Links
                PROVE  read(i) \in GoodLine
    OBVIOUS
  <2>1. <<a>> \o vals(i) \in Seq(Text) /\ Len(<<a>> \o vals(i)) = 1 + i /\ i \in Nat
    BY <1>1, <1>4 DEF Links
  <2>2. "MRD" \in PacketTypes /\ NumFields("MRD") = 1
    BY DEF PacketTypes, NumFields, HasId, HasAddr, HasValue
  <2>3. Len(<<a>> \o vals(i)) >= NumFields("MRD")
    BY <2>1, <2>2
  <2>. QED
    BY <2>1, <2>2, <2>3, MsgGood
<1>. HIDE DEF wrong, long, read
<1>12. CASE K > 0 /\ code # kErrCodeNone
  <2>1. /\ 1 \in Cells /\ PackCells[1] \in Cell /\ Packetize(r) \in GoodLine
        /\ \A j \in 1 .. 1 - 1 : FALSE
    <3>1. 1 \in Cells /\ PackCells[1] \in Cell /\ \A j \in 1 .. 1 - 1 : FALSE
      BY <1>2, Positions
    <3>2. Packetize(r) \in GoodLine
      BY TransmitEffect
    <3>. QED
      BY <3>1, <3>2
  <2>2. Yields(Process(PackCells[1], Packetize(r)), PackCells[1], Says(PackCells[1], wrong))
    BY <1>2, <1>8, <1>9, <1>10, <1>12, <2>1
  <2>3. Takes([PackCells EXCEPT ![1] = PackCells[1]], Says(PackCells[1], wrong))
    BY <1>7, <2>1, <2>2, Consumed
  <2>4. [PackCells EXCEPT ![1] = PackCells[1]] = PackCells
    BY <1>2
  <2>5. Pack!Accept(PackCells, Says(PackCells[1], wrong)) /\ ~ master.waiting
        /\ master'.waiting = TRUE
    BY <2>3, <2>4, TakesAccept
  <2>6. wrong = CodeText(CodeOfRead(r.addr))
    BY <1>10, <1>12 DEF wrong, CodeOfRead
  <2>7. Pack!ReadAll(r)
    BY <1>12, <2>5, <2>6, SameCodec, SameReplies DEF Pack!ReadAll
  <2>. QED
    BY <2>5, <2>7 DEF Pack!Execute
<1>13. CASE ~ (K > 0 /\ code # kErrCodeNone)
  <2>1. K > 0 => r.addr \in Readable
    BY <1>10, <1>13
  <2>2. N > K => says \in GoodLine /\ K + 1 \in Cells /\ PackCells[K+1] \in Cell
    <3>. SUFFICES ASSUME N > K
                  PROVE  says \in GoodLine /\ K + 1 \in Cells /\ PackCells[K+1] \in Cell
      OBVIOUS
    <3>1. K + 1 \in Cells /\ PackCells[K+1] \in Cell
      BY <1>2 DEF Cells
    <3>2. PackCells[K+1].id \in Int
      BY <3>1, IdKept DEF Cell
    <3>. QED
      BY <1>7, <3>1, <3>2, TextTypes, GoodMsgs DEF Says
  <2>3. ASSUME NEW j \in Cells, N > K
        PROVE  Yields(Process(PackCells[j], says), PackCells[j], says)
    <3>1. PackCells[j] \in Cell
      BY <1>2
    <3>. QED
      BY <1>7, <2>2, <2>3, <3>1, ProcessSays
  <2>. HIDE DEF says
  <2>4. run \in [Links -> GoodLine] /\ run[0] = Packetize(r)
        /\ run[N] = IF N <= K THEN read(N) ELSE says
    <3>1. \A j \in Links : ~ (j <= K) => N > K
      BY <1>2 DEF Links
    <3>. QED
      BY <1>2, <1>9, <1>11, <2>2, <3>1, Positions
  <2>5. ASSUME NEW j \in Cells
        PROVE  Yields(Process(PackCells[j], run[j-1]), PackCells[j], run[j])
    <3>1. j \in Nat /\ j \in Links /\ j - 1 \in Links /\ j <= N /\ j >= 1
      BY <1>2, Positions DEF Cells
    <3>2. CASE j <= K
      <4>1. j - 1 <= K /\ j - 1 < K /\ K > 0 /\ run[j] = read(j) /\ run[j-1] = read(j-1)
        BY <1>2, <3>1, <3>2
      <4>. HIDE DEF run
      <4>. QED
        BY <1>8, <2>1, <4>1
    <3>3. CASE j = K + 1
      <4>1. j - 1 <= K /\ j - 1 = K /\ run[j] = says /\ run[j-1] = read(j-1)
        BY <1>2, <3>1, <3>3
      <4>. HIDE DEF run
      <4>. QED
        BY <1>8, <3>3, <4>1 DEF says
    <3>4. CASE j > K + 1
      <4>1. N > K /\ run[j] = says /\ run[j-1] = says
        BY <1>2, <3>1, <3>4
      <4>. HIDE DEF run
      <4>. QED
        BY <2>3, <4>1
    <3>. QED
      BY <1>2, <3>1, <3>2, <3>3, <3>4
  <2>. HIDE DEF run
  <2>6. Takes(PackCells, IF N <= K THEN read(N) ELSE says)
    BY <1>2, <2>4, <2>5, TransmitTakes
  <2>7. Pack!Accept(PackCells, IF N <= K THEN read(N) ELSE says) /\ ~ master.waiting
        /\ master'.waiting = TRUE
    BY <2>6, TakesAccept
  <2>8. N <= K <=> ~ (N > K)
    BY <1>2
  <2>9. Pack!ReadAll(r)
    <3> DEFINE values == [i \in 1 .. N |-> Pack!Cut(Pack!ReadRegister(PackCells[i], r.addr))]
    <3>1. read(N) = Pack!Reply("MRD", <<Pack!AddrText(r.addr)>> \o values)
      BY SameCodec, SameReplies DEF read, a, vals, value
    <3>2. says = Pack!From(kMaxNumValues + 1, Pack!CodeText(Pack!kErrCodePacketLengthExceeded))
      BY SameCodec, SameReplies DEF says, long
    <3>. HIDE DEF values
    <3>3. Pack!Accept(PackCells,
            IF kMaxNumValues > 0 /\ Pack!ReadCode(r.addr) # Pack!kErrCodeNone
              THEN Pack!From(1, Pack!CodeText(Pack!ReadCode(r.addr)))
            ELSE IF N > kMaxNumValues
              THEN Pack!From(kMaxNumValues + 1, Pack!CodeText(Pack!kErrCodePacketLengthExceeded))
            ELSE Pack!Reply("MRD", <<Pack!AddrText(r.addr)>> \o values))
      BY <1>13, <2>7, <2>8, <3>1, <3>2, SameCodec
    <3>. QED
      BY <3>3 DEF Pack!ReadAll, values
  <2>. QED
    BY <2>7, <2>9 DEF Pack!Execute
<1>. QED
  BY <1>12, <1>13

\* The chain executes whatever the master sends.
LEMMA ExecuteAny ==
  ASSUME Roomy, RoomForAll, TypeOK, NEW r \in Commands, Transmit(r)
  PROVE  Pack!Execute(r)
<1>1. r.type \in PacketTypes
  BY ChainAssumption DEF Request
<1>. QED
  BY <1>1, ExecuteDIS, ExecuteMRD, ExecuteMWR, ExecuteSRD, ExecuteSWR, ExecuteSRS
     DEF PacketTypes

-----------------------------------------------------------------------------
(***************************************************************************)
(* The reading is hidden: what a cell makes of a sentence that does not    *)
(* ask for the current does not depend on the current.                     *)
(***************************************************************************)

\* A cell without its load.
Unloaded(c) == [c EXCEPT !.amp = 0]

\* The line asks the cells for their output currents.
Asks(line) ==
  /\ line.hdr \in {"MRD", "SRD"}
  /\ ToNum(line.fields[IF line.hdr = "SRD" THEN 2 ELSE 1]) = kRegAddrReadOutputCurrent
AsksFor(p) == p.type \in {"MRD", "SRD"} /\ p.addr = kRegAddrReadOutputCurrent

LEMMA UnloadedIs ==
  /\ \A c \in Cell : /\ Unloaded(c) \in Cell /\ Unloaded(c).amp = 0
                     /\ Unloaded(c).id = c.id /\ Unloaded(c).volt = c.volt
  /\ \A c, d \in Cell : c.id = d.id /\ c.volt = d.volt /\ c.amp = d.amp => c = d
  /\ \A c \in Cell, x \in Id : /\ [c EXCEPT !.id = x] \in Cell
                               /\ [c EXCEPT !.id = x].id = x /\ [c EXCEPT !.id = x].volt = c.volt
                               /\ [c EXCEPT !.id = x].amp = c.amp
  /\ \A c \in Cell, x \in Setting :
       /\ [c EXCEPT !.volt = x] \in Cell
       /\ [c EXCEPT !.volt = x].id = c.id /\ [c EXCEPT !.volt = x].volt = x
       /\ [c EXCEPT !.volt = x].amp = c.amp
<1>1. 0 \in Current
  BY DEF Current
<1>. QED
  BY <1>1 DEF Cell, Unloaded

\* What Handle(c, p) is to Handle(d, p) where d is c without its load.
SameBut(r, q, c) == /\ r.cell \in Cell /\ r.cell.amp = c.amp
                    /\ q.out = r.out /\ q.cell = Unloaded(r.cell)

LEMMA WriteUnloaded ==
  ASSUME NEW c \in Cell, NEW addr \in Int, NEW t \in Text
  PROVE  LET w == WriteRegister(c, addr, t)
             v == WriteRegister(Unloaded(c), addr, t)
         IN  /\ w.cell \in Cell /\ w.cell.amp = c.amp /\ v.cell = Unloaded(w.cell)
             /\ w.err = v.err /\ w.did = v.did
<1> DEFINE d == Unloaded(c)
           x == SettingOf(t)
<1>1. d \in Cell /\ d.id = c.id /\ d.volt = c.volt /\ d.amp = 0
  BY UnloadedIs
<1>2. x \in Setting
  BY DEF SettingOf, Setting, Voltage, Rail, ToNum, Text, NotANumber, kMaxOutputVoltage,
     kMinOutputVoltage
<1>. HIDE DEF d, x
<1>3. [d EXCEPT !.volt = x] = Unloaded([c EXCEPT !.volt = x])
  <2> DEFINE e == [c EXCEPT !.volt = x]
             f == [d EXCEPT !.volt = x]
             g == Unloaded(e)
  <2>1. e \in Cell /\ e.id = c.id /\ e.volt = x
    BY <1>2, UnloadedIs
  <2>2. f \in Cell /\ f.id = c.id /\ f.volt = x /\ f.amp = 0
    BY <1>1, <1>2, UnloadedIs
  <2>. HIDE DEF e, f
  <2>3. g \in Cell /\ g.id = e.id /\ g.volt = e.volt /\ g.amp = 0
    BY <2>1, UnloadedIs
  <2>. HIDE DEF g
  <2>4. f = g
    BY <2>1, <2>2, <2>3, UnloadedIs
  <2>. QED
    BY <2>4 DEF e, f, g
<1>. QED
  BY <1>1, <1>2, <1>3, UnloadedIs DEF WriteRegister, d, x

LEMMA ReadUnloaded ==
  ASSUME NEW c \in Cell, NEW addr, addr # kRegAddrReadOutputCurrent
  PROVE  ReadRegister(Unloaded(c), addr) = ReadRegister(c, addr)
BY UnloadedIs DEF ReadRegister

LEMMA ErrorUnloaded ==
  ASSUME NEW c \in Cell
  PROVE  /\ \A t : Response(Unloaded(c), t) = Response(c, t)
         /\ \A code : Error(Unloaded(c), code) = Error(c, code)
BY UnloadedIs DEF Response, Error

LEMMA HandleUnloaded ==
  ASSUME NEW c \in Cell, NEW p \in Packet, ~ AsksFor(p)
  PROVE  SameBut(Handle(c, p), Handle(Unloaded(c), p), c)
<1> DEFINE d == Unloaded(c)
<1>1. /\ p.type \in PacketTypes /\ p.valid \in BOOLEAN /\ p.id \in Id /\ p.addr \in Int
      /\ (p.type \in HasValue => p.vals[1] \in Text)
  BY DEF Packet
<1>2. d \in Cell /\ d.id = c.id
  BY UnloadedIs
<1>3. \A code : Error(d, code) = Error(c, code)
  BY ErrorUnloaded
<1>4. \A t : Response(d, t) = Response(c, t)
  BY ErrorUnloaded
<1>5. \A q, did : SameBut(Result(c, q, did), Result(d, q, did), c)
  BY DEF SameBut, Result
<1>6. CASE ~ p.valid
  <2>1. /\ Handle(c, p) = Result(c, Error(c, kErrCodeReceivedInvalidPacket), "nothing")
        /\ Handle(d, p) = Result(d, Error(d, kErrCodeReceivedInvalidPacket), "nothing")
    BY <1>6 DEF Handle
  <2>. HIDE DEF d
  <2>. QED
    BY <1>3, <1>5, <2>1 DEF d
<1>7. CASE p.valid /\ p.type = "DIS"
  <2> DEFINE id == (p.id + 1) % IdSpace
             e == [c EXCEPT !.id = id]
             f == [d EXCEPT !.id = id]
             g == Unloaded(e)
  <2>1. id \in Id
    BY <1>1, PacketAssumption DEF Id
  <2>2. Handle(c, p).cell = e /\ Handle(d, p).cell = f /\ Handle(d, p).out = Handle(c, p).out
    BY <1>7 DEF Handle, DISPacketHandler, Result
  <2>. HIDE DEF id
  <2>3. e \in Cell /\ e.id = id /\ e.volt = c.volt /\ e.amp = c.amp
    BY <2>1, UnloadedIs
  <2>4. f \in Cell /\ f.id = id /\ f.volt = c.volt /\ f.amp = 0
    <3>1. d.volt = c.volt /\ d.amp = 0
      BY UnloadedIs
    <3>. HIDE DEF d
    <3>. QED
      BY <1>2, <2>1, <3>1, UnloadedIs
  <2>. HIDE DEF e, f, d
  <2>5. g \in Cell /\ g.id = e.id /\ g.volt = e.volt /\ g.amp = 0
    BY <2>3, UnloadedIs
  <2>. HIDE DEF g
  <2>6. f = g
    BY <2>3, <2>4, <2>5, UnloadedIs
  <2>. QED
    BY <2>2, <2>3, <2>6 DEF SameBut, g, d
<1>8. CASE p.valid /\ p.type = "MRD"
  <2>1. p.addr # kRegAddrReadOutputCurrent
    BY <1>8 DEF AsksFor
  <2>2. ReadRegister(d, p.addr) = ReadRegister(c, p.addr)
    BY <2>1, ReadUnloaded
  <2>3. Handle(c, p) = MRDPacketHandler(c, p) /\ Handle(d, p) = MRDPacketHandler(d, p)
    BY <1>8 DEF Handle
  <2>4. MRDPacketHandler(d, p) = Result(d, MRDPacketHandler(c, p).out, "nothing")
    <3>. HIDE DEF d
    <3>. QED
      BY <1>3, <2>2 DEF MRDPacketHandler, Result
  <2>5. MRDPacketHandler(c, p) = Result(c, MRDPacketHandler(c, p).out, "nothing")
    BY DEF MRDPacketHandler, Result
  <2>. HIDE DEF d
  <2>. QED
    BY <1>5, <2>3, <2>4, <2>5, Zenon DEF d
<1>9. CASE p.valid /\ p.type = "MWR"
  <2> DEFINE w == WriteRegister(c, p.addr, p.vals[1])
             v == WriteRegister(d, p.addr, p.vals[1])
  <2>1. /\ w.cell \in Cell /\ w.cell.amp = c.amp /\ v.cell = Unloaded(w.cell)
        /\ w.err = v.err /\ w.did = v.did
    BY <1>1, <1>9, WriteUnloaded DEF HasValue
  <2>2. /\ Handle(c, p) = Result(w.cell, IF w.err = kErrCodeNone THEN p ELSE Error(c, w.err), w.did)
        /\ Handle(d, p) = Result(v.cell, IF v.err = kErrCodeNone THEN p ELSE Error(d, v.err), v.did)
    BY <1>9 DEF Handle, MWRPacketHandler
  <2>. HIDE DEF w, v, d
  <2>3. Handle(d, p).out = Handle(c, p).out
    BY <1>3, <2>1, <2>2 DEF Result
  <2>. QED
    BY <2>1, <2>2, <2>3 DEF SameBut, Result, d
<1>10. CASE p.valid /\ p.type = "SRD"
  <2>1. p.addr # kRegAddrReadOutputCurrent
    BY <1>10 DEF AsksFor
  <2>2. ReadRegister(d, p.addr) = ReadRegister(c, p.addr)
    BY <2>1, ReadUnloaded
  <2>3. Handle(c, p) = SRDPacketHandler(c, p) /\ Handle(d, p) = SRDPacketHandler(d, p)
    BY <1>10 DEF Handle
  <2>4. SRDPacketHandler(d, p) = Result(d, SRDPacketHandler(c, p).out, "nothing")
    <3>. HIDE DEF d
    <3>. QED
      BY <1>2, <1>3, <1>4, <2>2 DEF SRDPacketHandler, Result
  <2>5. SRDPacketHandler(c, p) = Result(c, SRDPacketHandler(c, p).out, "nothing")
    BY DEF SRDPacketHandler, Result
  <2>. HIDE DEF d
  <2>. QED
    BY <1>5, <2>3, <2>4, <2>5, Zenon DEF d
<1>11. CASE p.valid /\ p.type = "SWR"
  <2> DEFINE w == WriteRegister(c, p.addr, p.vals[1])
             v == WriteRegister(d, p.addr, p.vals[1])
  <2>1. /\ w.cell \in Cell /\ w.cell.amp = c.amp /\ v.cell = Unloaded(w.cell)
        /\ w.err = v.err /\ w.did = v.did
    BY <1>1, <1>11, WriteUnloaded DEF HasValue
  <2>2. /\ Handle(c, p) = IF p.id = c.id THEN Result(w.cell, Error(c, w.err), w.did)
                                         ELSE Result(c, p, "nothing")
        /\ Handle(d, p) = IF p.id = d.id THEN Result(v.cell, Error(d, v.err), v.did)
                                         ELSE Result(d, p, "nothing")
    BY <1>11 DEF Handle, SWRPacketHandler
  <2>. HIDE DEF w, v, d
  <2>3. Error(d, v.err) = Error(c, w.err)
    BY <1>3, <2>1
  <2>4. CASE p.id = c.id
    BY <1>2, <2>1, <2>2, <2>3, <2>4 DEF SameBut, Result, d
  <2>5. CASE p.id # c.id
    <3>1. Handle(c, p) = Result(c, p, "nothing") /\ Handle(d, p) = Result(d, p, "nothing")
      BY <1>2, <2>2, <2>5
    <3>. QED
      BY <1>5, <3>1, Zenon DEF d
  <2>. QED
    BY <2>4, <2>5
<1>12. CASE p.valid /\ p.type = "SRS"
  <2>1. Handle(c, p) = Result(c, p, "nothing") /\ Handle(d, p) = Result(d, p, "nothing")
    BY <1>12 DEF Handle, SRSPacketHandler
  <2>. HIDE DEF d
  <2>. QED
    BY <1>5, <2>1, Zenon DEF d
<1>. QED
  BY <1>1, <1>6, <1>7, <1>8, <1>9, <1>10, <1>11, <1>12 DEF PacketTypes

\* No handler makes a request for the current out of another packet.
LEMMA HandleAsks ==
  ASSUME NEW c \in Cell, NEW p \in Packet, ~ AsksFor(p)
  PROVE  ~ AsksFor(Handle(c, p).out)
<1> DEFINE r == Handle(c, p)
<1>1. p.type \in PacketTypes /\ p.valid \in BOOLEAN
  BY DEF Packet
<1>2. \A code : Error(c, code).type = "SRS"
  BY DEF Error, Response
<1>3. \A t : Response(c, t).type = "SRS"
  BY DEF Response
<1>4. \A q : q.type = "SRS" => ~ AsksFor(q)
  BY DEF AsksFor
<1>5. CASE ~ p.valid
  BY <1>2, <1>4, <1>5 DEF Handle, Result
<1>6. CASE p.valid /\ p.type = "DIS"
  <2>1. r.out = [p EXCEPT !.id = (p.id + 1) % IdSpace]
    BY <1>6 DEF Handle, DISPacketHandler, Result
  <2>2. r.out.type = "DIS"
    BY <1>6, <2>1 DEF Packet
  <2>. QED
    BY <2>2 DEF AsksFor
<1>7. CASE p.valid /\ p.type = "MRD"
  <2> DEFINE q == [p EXCEPT !.vals = Append(@, Cut(ReadRegister(c, p.addr)))]
  <2>1. q.type = p.type /\ q.addr = p.addr
    BY DEF Packet
  <2>2. r.out \in {Error(c, kErrCodePacketLengthExceeded), Error(c, kErrCodeAddrNotRecognized), q}
    BY <1>7 DEF Handle, MRDPacketHandler, Result
  <2>3. ~ AsksFor(q)
    BY <2>1 DEF AsksFor
  <2>. HIDE DEF q, r
  <2>4. CASE r.out = q
    BY <2>3, <2>4 DEF r
  <2>5. CASE r.out # q
    BY <1>2, <1>4, <2>2, <2>5 DEF r
  <2>. QED
    BY <2>4, <2>5
<1>8. CASE p.valid /\ p.type = "MWR"
  <2>1. PICK e : r.out = p \/ r.out = Error(c, e)
    BY <1>8 DEF Handle, MWRPacketHandler, Result
  <2>. HIDE DEF r
  <2>. QED
    BY <1>2, <1>4, <2>1 DEF r
<1>9. CASE p.valid /\ p.type = "SRD"
  <2>1. \/ r.out = p \/ r.out = Error(c, kErrCodeAddrNotRecognized)
        \/ r.out = Response(c, ReadRegister(c, p.addr))
    BY <1>9 DEF Handle, SRDPacketHandler, Result
  <2>. HIDE DEF r
  <2>. QED
    BY <1>2, <1>3, <1>4, <2>1 DEF r
<1>10. CASE p.valid /\ p.type = "SWR"
  <2>1. PICK e : r.out = p \/ r.out = Error(c, e)
    BY <1>10 DEF Handle, SWRPacketHandler, Result
  <2>. HIDE DEF r
  <2>. QED
    BY <1>2, <1>4, <2>1 DEF r
<1>11. CASE p.valid /\ p.type = "SRS"
  BY <1>11 DEF Handle, SRSPacketHandler, Result
<1>. QED
  BY <1>1, <1>5, <1>6, <1>7, <1>8, <1>9, <1>10, <1>11 DEF PacketTypes

\* The address is read off the line, and printed on it, where it belongs.
LEMMA DecodeAsks ==
  ASSUME NEW line \in GoodLine, IsValid(line), ~ Asks(line)
  PROVE  ~ AsksFor(Decode(line))
<1>1. CASE ~ line.start
  BY <1>1 DEF Decode, Rejected, AsksFor, kRegAddrReadOutputCurrent
<1>2. CASE line.start
  <2>1. Decode(line).type = line.hdr
    BY <1>2 DEF Decode
  <2>2. line.hdr \in HasAddr =>
          Decode(line).addr = ToNum(line.fields[IF line.hdr \in HasId THEN 2 ELSE 1])
    BY <1>2 DEF Decode
  <2>. QED
    BY <2>1, <2>2 DEF Asks, AsksFor, HasAddr, HasId
<1>. QED
  BY <1>1, <1>2

LEMMA EncodeAsks ==
  ASSUME NEW p \in Packet, ~ AsksFor(p)
  PROVE  ~ Asks(Encode(p))
<1> DEFINE f == Encode(p).fields
           a == AddrText(p.addr)
           i == IdText(p.id)
<1>1. /\ p.type \in PacketTypes /\ p.addr \in Int /\ p.id \in Id /\ Encode(p).hdr = p.type
  BY DEF Packet, Encode
<1>2. a \in Text /\ i \in Text /\ ToNum(a) = p.addr
  <2>1. p.id \in Int
    BY <1>1, IdKept
  <2>2. a \in Text /\ i \in Text
    BY <1>1, <2>1, TextTypes
  <2>. QED
    BY <2>2 DEF AddrText, ToNum
<1>3. CASE p.type = "MRD"
  <2>1. f[1] = a
    BY <1>3, EncodeRead
  <2>. QED
    BY <1>1, <1>2, <1>3, <2>1 DEF Asks, AsksFor
<1>4. CASE p.type = "SRD"
  <2>1. f = (<<i>> \o <<a>>) \o <<>> /\ \A x, y : ((<<x>> \o <<y>>) \o <<>>)[2] = y
    BY <1>4 DEF Encode, Fields, HasId, HasAddr, HasValue
  <2>. HIDE DEF a, i, f
  <2>2. f[2] = a
    BY <1>2, <2>1
  <2>. QED
    BY <1>1, <1>2, <1>4, <2>2 DEF Asks, AsksFor, f
<1>5. CASE p.type \notin {"MRD", "SRD"}
  BY <1>1, <1>5 DEF Asks
<1>. QED
  BY <1>3, <1>4, <1>5

LEMMA PacketizeAsks ==
  ASSUME NEW r \in Request, r.addr # kRegAddrReadOutputCurrent
  PROVE  ~ Asks(Packetize(r))
<1> DEFINE a == AddrText(r.addr)
           i == IdText(r.id)
<1>1. r.type \in PacketTypes /\ r.addr \in Int /\ r.id \in Id /\ Packetize(r).hdr = r.type
  BY DEF Request, Packetize
<1>2. a \in Text /\ i \in Text /\ ToNum(a) = r.addr
  <2>1. r.id \in Int
    BY <1>1, IdKept
  <2>2. a \in Text /\ i \in Text
    BY <1>1, <2>1, TextTypes
  <2>. QED
    BY <2>2 DEF AddrText, ToNum
<1>3. CASE r.type = "MRD"
  <2>1. Packetize(r).fields = <<a>> \o <<>>
    BY <1>3, PacketizeOf DEF Msg
  <2>. HIDE DEF a
  <2>2. Packetize(r).fields[1] = a
    BY <1>2, <2>1
  <2>. QED
    BY <1>1, <1>2, <1>3, <2>2 DEF Asks
<1>4. CASE r.type = "SRD"
  <2>1. Packetize(r).fields = <<i, a>>
    BY <1>4, PacketizeOf DEF Msg
  <2>. HIDE DEF a, i
  <2>2. Packetize(r).fields[2] = a
    BY <1>2, <2>1
  <2>. QED
    BY <1>1, <1>2, <1>4, <2>2 DEF Asks
<1>5. CASE r.type \notin {"MRD", "SRD"}
  BY <1>1, <1>5 DEF Asks
<1>. QED
  BY <1>3, <1>4, <1>5

\* Processing a line that does not ask for the current: the current neither shows
\* nor changes, and the line that comes out does not ask for it either.
LEMMA ProcessUnloaded ==
  ASSUME NEW c \in Cell, NEW line \in GoodLine, ~ Asks(line)
  PROVE  /\ SameBut(Process(c, line), Process(Unloaded(c), line), c)
         /\ \A l : Process(c, line).out = <<l>> => ~ Asks(l)
<1> DEFINE d == Unloaded(c)
           p == Decode(line)
<1>1. CASE ~ IsValid(line)
  <2>1. /\ Process(c, line) = [cell |-> c, out |-> <<>>, did |-> "nothing"]
        /\ Process(d, line) = [cell |-> d, out |-> <<>>, did |-> "nothing"]
    BY <1>1 DEF Process
  <2>2. \A l : <<>> # <<l>>
    OBVIOUS
  <2>. HIDE DEF d
  <2>. QED
    BY <2>1, <2>2 DEF SameBut, d
<1>2. CASE IsValid(line)
  <2>1. p \in Packet
    BY <1>2, DecodeType
  <2>2. ~ AsksFor(p)
    BY <1>2, DecodeAsks
  <2> DEFINE r == Handle(c, p)
             q == Handle(d, p)
  <2>3. SameBut(r, q, c) /\ ~ AsksFor(r.out) /\ r.out \in Packet
    <3>. HIDE DEF p
    <3>. QED
      BY <2>1, <2>2, HandleUnloaded, HandleAsks, HandlePost DEF HandlerPost
  <2>4. /\ Process(c, line) = [cell |-> r.cell, out |-> <<Encode(r.out)>>, did |-> r.did]
        /\ Process(d, line) = [cell |-> q.cell, out |-> <<Encode(q.out)>>, did |-> q.did]
    BY <1>2 DEF Process
  <2>. HIDE DEF d, p, r, q
  <2>5. ~ Asks(Encode(r.out))
    BY <2>3, EncodeAsks
  <2>6. \A l : Process(c, line).out = <<l>> => l = Encode(r.out)
    BY <2>4
  <2>7. SameBut(Process(c, line), Process(d, line), c)
    BY <2>3, <2>4 DEF SameBut
  <2>. QED
    BY <2>5, <2>6, <2>7 DEF d
<1>. QED
  BY <1>1, <1>2

\* What asks for the current changes nothing; so no sentence changes the current.
LEMMA ProcessLoad ==
  ASSUME NEW c \in Cell, NEW line \in GoodLine
  PROVE  Process(c, line).cell \in Cell /\ Process(c, line).cell.amp = c.amp
<1> DEFINE p == Decode(line)
<1>1. CASE ~ Asks(line)
  BY <1>1, ProcessUnloaded DEF SameBut
<1>2. CASE Asks(line) /\ ~ IsValid(line)
  BY <1>2 DEF Process
<1>3. CASE Asks(line) /\ IsValid(line)
  <2>1. p \in Packet /\ p.type \in {"MRD", "SRD"}
    BY <1>3, DecodeType DEF Asks
  <2>2. Handle(c, p).cell = c
    <3>. HIDE DEF p
    <3>1. p.valid \in BOOLEAN
      BY <2>1 DEF Packet
    <3>. QED
      BY <2>1, <3>1 DEF Handle, MRDPacketHandler, SRDPacketHandler, Result
  <2>. HIDE DEF p
  <2>. QED
    BY <1>3, <2>2 DEF Process, p
<1>. QED
  BY <1>1, <1>2, <1>3

-----------------------------------------------------------------------------
(***************************************************************************)
(* The steps of the cells, and the master's reads, of a chain.             *)
(***************************************************************************)

\* Nothing in these sentences asks for a current.
Quiet(s) == \A k \in DOMAIN s : ~ Asks(s[k].line)

\* No current can be read: none flows, or nothing in flight asks for it.
Loadless == Currents = {0}
Unasked  == \A r \in Commands : r.addr # kRegAddrReadOutputCurrent
Hidden ==
  /\ Loadless => \A i \in Cells : cell[i].amp = 0
  /\ Unasked => \A i \in Links : Quiet(wire[i])

\* The link that is drained last is read by the master alone.
LEMMA DrainRead ==
  ASSUME NEW cs \in [Cells -> Cell], NEW ls \in [Links -> Seq(GoodLine)],
         NEW ms \in [Links -> Seq(GoodLine)], ls[N] # <<>>, ms[N] = Tail(ls[N]),
         \A i \in Links : i # N => ms[i] = ls[i]
  PROVE  /\ \A i \in Cells : Drained(cs, ms)[i-1] = Drained(cs, ls)[i-1]
         /\ Drained(cs, ls)[N] # <<>> /\ Drained(cs, ms)[N] = Tail(Drained(cs, ls)[N])
<1> DEFINE S == Seq(GoodLine)
           d == Drained(cs, ls)
           e == Drained(cs, ms)
           T == {i \in 0 .. N : i < N => e[i] = d[i]}
<1>1. d \in [Links -> S] /\ e \in [Links -> S] /\ Drains(d, cs, ls) /\ Drains(e, cs, ms)
  BY DrainedSteps
<1>. HIDE DEF d, e
<1>2. /\ N \in Nat /\ N >= 1 /\ 0 \in Links /\ N \in Links /\ N \in Cells /\ N - 1 \in Links
      /\ N - 1 \in 0 .. N
  BY ChainAssumption DEF Links, Cells
<1>3. 0 \in T
  <2>1. ms[0] = ls[0]
    BY <1>2
  <2>. QED
    BY <1>1, <1>2, <2>1 DEF Drains
<1>4. ASSUME NEW i \in 1 .. N, i - 1 \in T
      PROVE  i \in T
  <2>. SUFFICES ASSUME i < N
                PROVE  e[i] = d[i]
    BY <1>2
  <2>1. e[i-1] = d[i-1] /\ ms[i] = ls[i] /\ i \in Cells
    BY <1>2, <1>4 DEF Links, Cells
  <2>. QED
    BY <1>1, <2>1 DEF Drains
<1>5. 0 .. N \subseteq T
  <2>. HIDE DEF T
  <2>. QED
    BY <1>2, <1>3, <1>4, UptoInduction
<1>6. \A i \in Cells : e[i-1] = d[i-1]
  <2>. SUFFICES ASSUME NEW i \in Cells
                PROVE  e[i-1] = d[i-1]
    OBVIOUS
  <2>1. i - 1 \in 0 .. N /\ i - 1 < N
    BY <1>2 DEF Cells
  <2>. QED
    BY <1>5, <2>1
<1> DEFINE p == After[<<cs[N], d[N-1]>>].out
<1>7. p \in S
  <2>1. cs[N] \in Cell /\ d[N-1] \in Seq(GoodLine)
    BY <1>1, <1>2
  <2>. QED
    BY <2>1, AfterType
<1>8. d[N] = ls[N] \o p /\ e[N] = Tail(ls[N]) \o p
  BY <1>1, <1>2, <1>6 DEF Drains
<1>. HIDE DEF p
<1>9. d[N] # <<>> /\ e[N] = Tail(d[N])
  <2> DEFINE a == ls[N]
  <2>1. a \in S /\ a # <<>>
    BY <1>2
  <2>2. \A u, v \in S : u # <<>> => u \o v # <<>> /\ Tail(u \o v) = Tail(u) \o v
    OBVIOUS
  <2>3. d[N] = a \o p /\ e[N] = Tail(a) \o p
    BY <1>8
  <2>. HIDE DEF a, S
  <2>4. a \o p # <<>> /\ Tail(a \o p) = Tail(a) \o p
    BY <1>7, <2>1, <2>2
  <2>. QED
    BY <2>3, <2>4
<1>. QED
  BY <1>6, <1>9 DEF d, e

LEMMA ReadLineMaps ==
  ASSUME TypeOK, ReadLine
  PROVE  Pack!ReadReply
<1> DEFINE cs == NoLoad
           ls == Lines
           ms == Lines'
<1>1. cs \in [Cells -> Cell] /\ ls \in [Links -> Seq(GoodLine)] /\ NoLoad' = cs
  BY MapType DEF ReadLine, NoLoad
<1>2. /\ wire \in [Links -> Seq(Sentence)] /\ N \in Links
      /\ wire[N] # <<>> /\ wire' = [wire EXCEPT ![N] = Tail(@)]
  BY WireType, ChainAssumption DEF Links, ReadLine
<1>3. wire' \in [Links -> Seq(Sentence)] /\ wire'[N] = Tail(wire[N])
      /\ \A i \in Links : i # N => wire'[i] = wire[i]
  BY <1>2, TailType
<1>4. ms \in [Links -> Seq(GoodLine)] /\ \A i \in Links : i # N => ms[i] = ls[i]
  BY <1>3, LinesOf DEF Lines
<1>5. ls[N] # <<>> /\ ms[N] = Tail(ls[N])
  <2> DEFINE s == wire[N]
  <2>1. s \in Seq(Sentence) /\ s # <<>>
    BY <1>2
  <2>2. ls[N] = [k \in DOMAIN s |-> s[k].line]
        /\ ms[N] = [k \in DOMAIN Tail(s) |-> Tail(s)[k].line]
    BY <1>2, <1>3 DEF Lines
  <2>. HIDE DEF s
  <2>. QED
    BY <2>1, <2>2, LinesOf
<1>6. /\ PackCells = [i \in Cells |-> After[<<cs[i], Drained(cs, ls)[i-1]>>].cell]
      /\ PackCells' = [i \in Cells |-> After[<<cs[i], Drained(cs, ms)[i-1]>>].cell]
      /\ PackReplies = Drained(cs, ls)[N] /\ PackReplies' = Drained(cs, ms)[N]
  BY <1>1 DEF PackReplies, PackCells
<1>. HIDE DEF cs, ls, ms
<1>7. /\ \A i \in Cells : Drained(cs, ms)[i-1] = Drained(cs, ls)[i-1]
      /\ Drained(cs, ls)[N] # <<>> /\ Drained(cs, ms)[N] = Tail(Drained(cs, ls)[N])
  BY <1>1, <1>4, <1>5, DrainRead
<1>8. /\ PackCells' = PackCells /\ PackReplies # <<>> /\ PackReplies' = Tail(PackReplies)
  BY <1>6, <1>7
<1>9. master.waiting /\ master'.waiting = FALSE
  BY DEF ReadLine, TypeOK
<1>. QED
  BY <1>8, <1>9 DEF Pack!ReadReply

\* A step of the master that leaves the links alone.
LEMMA ReadTimeoutMaps ==
  ASSUME TypeOK, ReadTimeout
  PROVE  Pack!GiveUp
<1>1. PackCells' = PackCells /\ PackReplies' = PackReplies
  BY DEF ReadTimeout, PackCells, PackReplies, NoLoad, Lines
<1>2. MasterTimeout /\ master.waiting /\ master'.waiting = FALSE
  BY DEF ReadTimeout, TypeOK
<1>. QED
  BY <1>1, <1>2 DEF Pack!GiveUp

LEMMA UpdateMaps ==
  ASSUME ReadingHidden, TypeOK, Hidden, NEW i \in Cells, Update(i)
  PROVE  PackCells' = PackCells /\ PackReplies' = PackReplies
<1> DEFINE cs == NoLoad
           ls == Lines
           ds == NoLoad'
           ms == Lines'
           q == Process(cs[i], Head(ls[i-1]))
<1>1. PICK s, r : UpdatePost(i, s, r)
  BY UpdateEffect
<1>2. /\ i \in Links /\ i - 1 \in Links /\ i # i - 1
      /\ cell \in [Cells -> Cell] /\ wire \in [Links -> Seq(Sentence)]
  BY WireType, ChainAssumption DEF Links, Cells, TypeOK
<1>3. /\ wire[i-1] # <<>> /\ s = Head(wire[i-1]) /\ s \in Sentence /\ s.line \in GoodLine
      /\ r = Process(cell[i], s.line)
      /\ wire' \in [Links -> Seq(Sentence)] /\ wire'[i-1] = Tail(wire[i-1])
      /\ \A j \in Links : j # i-1 /\ j # i => wire'[j] = wire[j]
      /\ \/ r.out = <<>> /\ wire'[i] = wire[i]
         \/ \E l \in GoodLine : /\ r.out = <<l>>
                                /\ wire'[i] = Append(wire[i], [line |-> l, tag |-> s.tag])
      /\ cell' \in [Cells -> Cell] /\ \A j \in Cells : j # i => cell'[j] = cell[j]
  BY <1>1 DEF UpdatePost, Sentence
<1>4. PICK a \in Currents : cell'[i] = [r.cell EXCEPT !.amp = a]
  <2>1. \E a \in Currents :
          cell' = [cell EXCEPT ![i] = [Process(cell[i], Head(wire[i-1]).line).cell EXCEPT !.amp = a]]
    BY Zenon DEF Update
  <2>. QED
    BY <1>2, <1>3, <2>1
<1>5. cs \in [Cells -> Cell] /\ ls \in [Links -> Seq(GoodLine)]
  BY MapType
<1>6. /\ \A j \in Cells : cs[j] = Unloaded(cell[j]) /\ ds[j] = Unloaded(cell'[j])
      /\ ds \in [Cells -> Cell]
  <2>1. \A j \in Cells : Unloaded(cell'[j]) \in Cell
    BY <1>3, UnloadedIs
  <2>. QED
    BY <2>1 DEF NoLoad, Unloaded
<1>7. ls[i-1] # <<>> /\ Head(ls[i-1]) = s.line /\ ms[i-1] = Tail(ls[i-1])
  <2> DEFINE w == wire[i-1]
  <2>1. w \in Seq(Sentence) /\ w # <<>> /\ Head(w) = s
    BY <1>2, <1>3
  <2>2. ls[i-1] = [k \in DOMAIN w |-> w[k].line]
        /\ ms[i-1] = [k \in DOMAIN Tail(w) |-> Tail(w)[k].line]
    BY <1>2, <1>3 DEF Lines
  <2>. HIDE DEF w
  <2>. QED
    BY <2>1, <2>2, LinesOf
<1>8. r.cell \in Cell /\ r.cell.amp = cell[i].amp /\ q.out = r.out /\ q.cell = Unloaded(r.cell)
  <2>0. q = Process(Unloaded(cell[i]), s.line) /\ cell[i] \in Cell
    BY <1>2, <1>6, <1>7
  <2>1. r.cell \in Cell /\ r.cell.amp = cell[i].amp
    BY <1>3, <2>0, ProcessLoad
  <2>2. CASE cell[i].amp = 0
    <3>1. Unloaded(cell[i]) = cell[i] /\ Unloaded(r.cell) = r.cell
      <4>1. \A c \in Cell : c.amp = 0 => Unloaded(c) = c
        BY UnloadedIs
      <4>. QED
        BY <2>0, <2>1, <2>2, <4>1
    <3>. QED
      BY <1>3, <2>0, <2>1, <3>1
  <2>3. CASE cell[i].amp # 0
    <3>1. ~ Asks(s.line)
      <4>1. 1 \in DOMAIN wire[i-1] /\ Head(wire[i-1]) = wire[i-1][1]
        BY <1>2, <1>3, EmptySeq
      <4>. QED
        BY <1>2, <1>3, <2>3, <4>1 DEF ReadingHidden, Hidden, Loadless, Unasked, Quiet
    <3>2. SameBut(r, q, cell[i])
      BY <1>3, <2>0, <3>1, ProcessUnloaded
    <3>. QED
      BY <2>1, <3>2 DEF SameBut
  <2>. QED
    BY <2>1, <2>2, <2>3
<1>9. ds[i] = q.cell /\ \A j \in Cells : j # i => ds[j] = cs[j]
  <2>1. Unloaded(cell'[i]) = Unloaded(r.cell)
    BY <1>4, <1>8 DEF Unloaded, Cell
  <2>. QED
    BY <1>3, <1>6, <1>8, <2>1, SMTT(30)
<1>10. ms \in [Links -> Seq(GoodLine)] /\ \A j \in Links : j # i /\ j # i-1 => ms[j] = ls[j]
  BY <1>3, LinesOf DEF Lines
<1>11. ms[i] = ls[i] \o r.out
  <2> DEFINE w == wire[i]
  <2>1. w \in Seq(Sentence) /\ ls[i] = [k \in DOMAIN w |-> w[k].line] /\ ls[i] \in Seq(GoodLine)
    BY <1>2, <1>5 DEF Lines
  <2>2. CASE r.out = <<>> /\ wire'[i] = w
    <3>1. ms[i] = ls[i]
      BY <1>2, <2>2 DEF Lines
    <3>2. \A u \in Seq(GoodLine) : u \o <<>> = u
      OBVIOUS
    <3>. HIDE DEF ms, ls
    <3>. QED
      BY <2>1, <2>2, <3>1, <3>2
  <2>3. ASSUME NEW l \in GoodLine, r.out = <<l>>,
               wire'[i] = Append(w, [line |-> l, tag |-> s.tag])
        PROVE  ms[i] = ls[i] \o r.out
    <3> DEFINE x == [line |-> l, tag |-> s.tag]
               u == Append(w, x)
    <3>1. x \in Sentence /\ x.line = l
      BY <1>3 DEF Sentence
    <3>2. ms[i] = [k \in DOMAIN u |-> u[k].line]
      BY <1>2, <2>3 DEF Lines
    <3>. HIDE DEF x, w
    <3>3. ms[i] = Append(ls[i], l)
      BY <2>1, <3>1, <3>2, LinesOf
    <3>4. Append(ls[i], l) = ls[i] \o <<l>>
      BY <2>1
    <3>. QED
      BY <2>3, <3>3, <3>4
  <2>. QED
    BY <1>3, <2>2, <2>3
<1>12. ms[i] = ls[i] \o q.out
  BY <1>8, <1>11
<1>13. /\ PackCells = [j \in Cells |-> After[<<cs[j], Drained(cs, ls)[j-1]>>].cell]
       /\ PackCells' = [j \in Cells |-> After[<<ds[j], Drained(ds, ms)[j-1]>>].cell]
       /\ PackReplies = Drained(cs, ls)[N] /\ PackReplies' = Drained(ds, ms)[N]
  BY DEF PackReplies, PackCells
<1>. HIDE DEF cs, ls, ds, ms
<1>14. Handles(i, cs, ls, ds, ms)
  BY <1>7, <1>9, <1>10, <1>12 DEF Handles
<1>15. ds \in [Cells -> Cell] /\ ms \in [Links -> Seq(GoodLine)]
  BY <1>6, <1>10
<1>16. DrainsTheSame(cs, ls, ds, ms)
  BY <1>5, <1>14, <1>15, DrainUpdate
<1>. QED
  BY <1>13, <1>16 DEF DrainsTheSame

\* Sampling the current does not show.
LEMMA UpdateIdleMaps ==
  ASSUME TypeOK, NEW i \in Cells, UpdateIdle(i)
  PROVE  PackCells' = PackCells /\ PackReplies' = PackReplies
<1>1. \A c \in Cell : \A a : [[c EXCEPT !.amp = a] EXCEPT !.amp = 0] = [c EXCEPT !.amp = 0]
  BY DEF Cell
<1>2. NoLoad' = NoLoad
  <2>1. PICK a : cell' = [cell EXCEPT ![i].amp = a]
    BY DEF UpdateIdle
  <2>2. cell \in [Cells -> Cell]
    BY DEF TypeOK
  <2>3. \A j \in Cells : cell'[j] = cell[j] \/ cell'[j] = [cell[j] EXCEPT !.amp = a]
    BY <2>1, <2>2
  <2>4. \A j \in Cells : [cell'[j] EXCEPT !.amp = 0] = [cell[j] EXCEPT !.amp = 0]
    BY <1>1, <2>2, <2>3
  <2>. QED
    BY <2>4 DEF NoLoad
<1>3. Lines' = Lines
  BY DEF UpdateIdle, Lines
<1>. QED
  BY <1>2, <1>3 DEF PackCells, PackReplies

-----------------------------------------------------------------------------
(***************************************************************************)
(* The refinement.                                                         *)
(***************************************************************************)

LEMMA QuietKept ==
  /\ \A s \in Seq(Sentence) : s # <<>> /\ Quiet(s) => Quiet(Tail(s))
  /\ \A s \in Seq(Sentence), x \in Sentence :
       Quiet(s) /\ ~ Asks(x.line) => Quiet(Append(s, x))
<1>1. ASSUME NEW s \in Seq(Sentence), s # <<>>, Quiet(s)
      PROVE  Quiet(Tail(s))
  <2>. SUFFICES ASSUME NEW k \in DOMAIN Tail(s)
                PROVE  ~ Asks(Tail(s)[k].line)
    BY DEF Quiet
  <2>1. k + 1 \in DOMAIN s /\ Tail(s)[k] = s[k+1]
    BY <1>1
  <2>. QED
    BY <1>1, <2>1 DEF Quiet
<1>2. ASSUME NEW s \in Seq(Sentence), NEW x \in Sentence, Quiet(s), ~ Asks(x.line)
      PROVE  Quiet(Append(s, x))
  <2>. SUFFICES ASSUME NEW k \in DOMAIN Append(s, x)
                PROVE  ~ Asks(Append(s, x)[k].line)
    BY DEF Quiet
  <2>1. \/ k \in DOMAIN s /\ Append(s, x)[k] = s[k]
        \/ Append(s, x)[k] = x
    BY AppendProperties
  <2>. QED
    BY <1>2, <2>1 DEF Quiet
<1>. QED
  BY <1>1, <1>2

\* Nothing that would show a current enters the links or comes about on them.
LEMMA HiddenKept ==
  ASSUME FaultKinds = {}, TypeOK, Hidden, [Next]_vars
  PROVE  Hidden'
<1>0. /\ cell \in [Cells -> Cell] /\ wire \in [Links -> Seq(Sentence)]
      /\ 0 \in Links /\ N \in Links
  BY WireType, ChainAssumption DEF TypeOK, Links
<1>1. \A kind : ~ Fault(kind)
  BY DEF Fault
<1>2. \A i : ~ Garble(i) /\ ~ Headless(i) /\ ~ Lose(i) /\ ~ PowerCycle(i)
  BY <1>1 DEF Garble, Headless, Lose, PowerCycle
<1>3. CASE UNCHANGED vars
  BY <1>3 DEF vars, Hidden, Quiet
<1>4. ASSUME NEW r \in Commands, Transmit(r)
      PROVE  Hidden'
  <2> DEFINE x == [line |-> Packetize(r), tag |-> Len(sent) + 1]
  <2>1. cell' = cell
    BY <1>4 DEF Transmit
  <2>2. /\ \A j \in Links : j # 0 => wire'[j] = wire[j]
        /\ wire'[0] = Append(wire[0], x) /\ Packetize(r) \in GoodLine
    BY <1>4, TransmitEffect
  <2>3. x \in Sentence
    BY <2>2, LenProperties DEF TypeOK, Sentence
  <2>4. Unasked => ~ Asks(x.line)
    BY PacketizeAsks, ChainAssumption DEF Unasked
  <2>. HIDE DEF x
  <2>5. Unasked => \A j \in Links : Quiet(wire'[j])
    BY <1>0, <2>2, <2>3, <2>4, QuietKept DEF Hidden
  <2>. QED
    BY <2>1, <2>5 DEF Hidden, Loadless, Unasked
<1>5. CASE ReadLine
  <2>1. cell' = cell /\ wire[N] # <<>> /\ wire' = [wire EXCEPT ![N] = Tail(@)]
    BY <1>5 DEF ReadLine
  <2>2. wire'[N] = Tail(wire[N]) /\ \A j \in Links : j # N => wire'[j] = wire[j]
    BY <1>0, <2>1
  <2>3. Unasked => \A j \in Links : Quiet(wire'[j])
    BY <1>0, <2>1, <2>2, QuietKept DEF Hidden
  <2>. QED
    BY <2>1, <2>3 DEF Hidden, Loadless, Unasked
<1>6. CASE ReadTimeout
  BY <1>6 DEF ReadTimeout, Hidden, Quiet
<1>7. ASSUME NEW i \in Cells, Update(i)
      PROVE  Hidden'
  <2>1. PICK s, r : UpdatePost(i, s, r)
    BY <1>7, UpdateEffect
  <2>2. i \in Links /\ i - 1 \in Links /\ i # i - 1
    BY ChainAssumption DEF Links, Cells
  <2>3. /\ wire[i-1] # <<>> /\ s = Head(wire[i-1]) /\ s \in Sentence /\ s.line \in GoodLine
        /\ r = Process(cell[i], s.line) /\ r.cell \in Cell
        /\ wire'[i-1] = Tail(wire[i-1])
        /\ \A j \in Links : j # i-1 /\ j # i => wire'[j] = wire[j]
        /\ \/ r.out = <<>> /\ wire'[i] = wire[i]
           \/ \E l \in GoodLine : /\ r.out = <<l>>
                                  /\ wire'[i] = Append(wire[i], [line |-> l, tag |-> s.tag])
        /\ cell' \in [Cells -> Cell] /\ \A j \in Cells : j # i => cell'[j] = cell[j]
    BY <2>1 DEF UpdatePost, SentencePost, Sentence
  <2>4. Loadless => \A j \in Cells : cell'[j].amp = 0
    <3>1. \E a \in Currents :
            cell' = [cell EXCEPT ![i] = [Process(cell[i], Head(wire[i-1]).line).cell EXCEPT !.amp = a]]
      BY <1>7, Zenon DEF Update
    <3>2. PICK a \in Currents : cell'[i] = [r.cell EXCEPT !.amp = a]
      BY <1>0, <2>3, <3>1
    <3>3. cell'[i].amp = a
      BY <2>3, <3>2 DEF Cell
    <3>. QED
      BY <2>3, <3>3 DEF Hidden, Loadless
  <2>5. Unasked => \A j \in Links : Quiet(wire'[j])
    <3>. SUFFICES ASSUME Unasked
                  PROVE  \A j \in Links : Quiet(wire'[j])
      OBVIOUS
    <3>1. \A j \in Links : wire[j] \in Seq(Sentence) /\ Quiet(wire[j])
      BY <1>0 DEF Hidden
    <3>2. Quiet(wire'[i-1])
      BY <2>2, <2>3, <3>1, QuietKept
    <3>3. ~ Asks(s.line)
      <4>1. 1 \in DOMAIN wire[i-1] /\ Head(wire[i-1]) = wire[i-1][1]
        BY <2>2, <2>3, <3>1, EmptySeq
      <4>. QED
        BY <2>2, <2>3, <3>1, <4>1 DEF Quiet
    <3>4. ASSUME NEW l \in GoodLine, r.out = <<l>>,
                 wire'[i] = Append(wire[i], [line |-> l, tag |-> s.tag])
          PROVE  Quiet(wire'[i])
      <4> DEFINE x == [line |-> l, tag |-> s.tag]
      <4>1. x \in Sentence /\ x.line = l
        BY <2>3 DEF Sentence
      <4>2. ~ Asks(l)
        BY <1>0, <2>3, <3>3, <3>4, ProcessUnloaded
      <4>3. wire'[i] = Append(wire[i], x) /\ wire[i] \in Seq(Sentence) /\ Quiet(wire[i])
        BY <2>2, <3>1, <3>4
      <4>. HIDE DEF x
      <4>. QED
        BY <4>1, <4>2, <4>3, QuietKept
    <3>5. Quiet(wire'[i])
      BY <2>2, <2>3, <3>1, <3>4
    <3>. QED
      BY <2>3, <3>1, <3>2, <3>5
  <2>. QED
    BY <2>4, <2>5 DEF Hidden, Loadless, Unasked
<1>8. ASSUME NEW i \in Cells, UpdateIdle(i)
      PROVE  Hidden'
  <2>1. PICK a \in Currents : cell' = [cell EXCEPT ![i].amp = a]
    BY <1>8 DEF UpdateIdle
  <2>2. \A j \in Cells : cell'[j] = cell[j] \/ cell'[j] = [cell[j] EXCEPT !.amp = a]
    BY <1>0, <2>1
  <2>3. ASSUME NEW j \in Cells
        PROVE  cell'[j].amp = cell[j].amp \/ cell'[j].amp = a
    <3>1. cell[j] \in Cell
      BY <1>0
    <3>2. [cell[j] EXCEPT !.amp = a].amp = a
      BY <3>1 DEF Cell
    <3>. QED
      BY <2>2, <3>2
  <2>4. \A j \in Cells : cell'[j].amp = cell[j].amp \/ cell'[j].amp = a
    BY <2>3
  <2>5. Loadless => \A j \in Cells : cell'[j].amp = 0
    BY <2>4 DEF Hidden, Loadless
  <2>6. wire' = wire
    BY <1>8 DEF UpdateIdle
  <2>. QED
    BY <2>5, <2>6 DEF Hidden, Loadless, Unasked, Quiet
<1>. QED
  BY <1>2, <1>3, <1>4, <1>5, <1>6, <1>7, <1>8 DEF Next

\* A chain that is switched on is a pack that is: nothing is on its links.
LEMMA InitMaps ==
  ASSUME Init
  PROVE  Pack!Init /\ Hidden
<1>1. /\ cell \in [Cells -> BootCells] /\ wire = [i \in Links |-> <<>>]
      /\ master.waiting = FALSE /\ N \in Nat /\ N \in Links /\ 0 \in Links
  BY ChainAssumption DEF Init, Links
<1>2. \A c \in BootCells : c \in Cell /\ c.amp = 0
  <2>1. \A c \in BootCells : c.amp = 0
    BY DEF BootCells
  <2>. QED
    BY <2>1, BootCellsType
<1>3. NoLoad = cell
  <2>1. \A c \in Cell : c.amp = 0 => [c EXCEPT !.amp = 0] = c
    BY DEF Cell
  <2>2. \A i \in Cells : [cell[i] EXCEPT !.amp = 0] = cell[i]
    BY <1>1, <1>2, <2>1
  <2>. QED
    BY <1>1, <2>2 DEF NoLoad
<1>4. cell \in [Cells -> Cell] /\ Lines \in [Links -> Seq(GoodLine)]
      /\ \A i \in Links : Lines[i] = <<>>
  <2>1. \A i \in Links : Lines[i] = <<>>
    BY <1>1 DEF Lines
  <2>2. cell \in [Cells -> Cell]
    BY <1>1, <1>2
  <2>3. Lines \in [Links -> Seq(GoodLine)]
    BY <2>1 DEF Lines
  <2>. QED
    BY <2>1, <2>2, <2>3
<1> DEFINE d == Drained(cell, Lines)
           T == {i \in 0 .. N : d[i] = <<>>}
<1>5. d \in [Links -> Seq(GoodLine)] /\ Drains(d, cell, Lines)
  BY <1>4, DrainedSteps
<1>. HIDE DEF d
<1>6. ASSUME NEW c \in Cell
      PROVE  After[<<c, <<>>>>].cell = c /\ After[<<c, <<>>>>].out = <<>>
  <2>1. After[<<c, <<>>>>] = [cell |-> c, out |-> <<>>]
    BY AfterNothing
  <2>. QED
    BY <2>1
<1>7. 0 \in T
  BY <1>1, <1>4, <1>5 DEF Drains
<1>8. ASSUME NEW i \in 1 .. N, i - 1 \in T
      PROVE  i \in T
  <2>1. i \in Cells /\ i \in Links /\ i \in 0 .. N
    BY <1>1 DEF Cells, Links
  <2>2. d[i] = <<>> \o After[<<cell[i], <<>>>>].out
    BY <1>4, <1>5, <1>8, <2>1 DEF Drains
  <2>3. d[i] = <<>> \o <<>>
    BY <1>4, <1>6, <2>1, <2>2
  <2>. QED
    BY <2>1, <2>3
<1>9. 0 .. N \subseteq T
  <2>. HIDE DEF T
  <2>. QED
    BY <1>1, <1>7, <1>8, UptoInduction
<1>10. PackReplies = <<>>
  BY <1>1, <1>3, <1>9 DEF PackReplies, d, Links
<1>11. \A i \in Cells : After[<<NoLoad[i], Drained(NoLoad, Lines)[i-1]>>].cell = cell[i]
  <2>. SUFFICES ASSUME NEW i \in Cells
                PROVE  After[<<NoLoad[i], Drained(NoLoad, Lines)[i-1]>>].cell = cell[i]
    OBVIOUS
  <2>1. i - 1 \in 0 .. N
    BY <1>1 DEF Cells
  <2>2. Drained(NoLoad, Lines)[i-1] = <<>>
    BY <1>3, <1>9, <2>1 DEF d
  <2>. QED
    BY <1>3, <1>4, <1>6, <2>2
<1>12. PackCells = cell
  BY <1>1, <1>11 DEF PackCells
<1>13. Pack!Cells = Cells /\ Pack!BootCells = BootCells
  BY DEF Pack!Cells, Cells, Pack!BootCells, BootCells, Pack!Id, Id
<1>14. Hidden
  <2>1. \A i \in Cells : cell[i].amp = 0
    BY <1>1, <1>2
  <2>2. \A i \in Links : Quiet(wire[i])
    BY <1>1 DEF Quiet
  <2>. QED
    BY <2>1, <2>2 DEF Hidden
<1>. QED
  BY <1>1, <1>10, <1>12, <1>13, <1>14 DEF Pack!Init

\* Each step of the chain is one of the pack, or nothing that the pack shows.
LEMMA StepMaps ==
  ASSUME FaultKinds = {}, ReadingHidden, Roomy, RoomForAll, TypeOK, Hidden, [Next]_vars
  PROVE  [Pack!Next]_(Pack!packVars)
<1>1. \A kind : ~ Fault(kind)
  BY DEF Fault
<1>2. \A i : ~ Garble(i) /\ ~ Headless(i) /\ ~ Lose(i) /\ ~ PowerCycle(i)
  BY <1>1 DEF Garble, Headless, Lose, PowerCycle
<1>3. CASE UNCHANGED vars
  BY <1>3 DEF vars, Pack!packVars, PackCells, PackReplies, NoLoad, Lines
<1>4. ASSUME NEW r \in Commands, Transmit(r)
      PROVE  Pack!Next
  BY <1>4, ExecuteAny DEF Pack!Next
<1>5. CASE ReadLine
  BY <1>5, ReadLineMaps DEF Pack!Next
<1>6. CASE ReadTimeout
  BY <1>6, ReadTimeoutMaps DEF Pack!Next
<1>7. ASSUME NEW i \in Cells, Update(i)
      PROVE  UNCHANGED Pack!packVars
  <2>1. UNCHANGED master
    BY <1>7 DEF Update
  <2>. QED
    BY <1>7, <2>1, UpdateMaps DEF Pack!packVars
<1>8. ASSUME NEW i \in Cells, UpdateIdle(i)
      PROVE  UNCHANGED Pack!packVars
  <2>1. UNCHANGED master
    BY <1>8 DEF UpdateIdle
  <2>. QED
    BY <1>8, <2>1, UpdateIdleMaps DEF Pack!packVars
<1>. QED
  BY <1>2, <1>3, <1>4, <1>5, <1>6, <1>7, <1>8 DEF Next

\* A chain in which nothing fails is a pack that executes every command at once on
\* all of its cells and replies in the order of the commands: the pipelining of the
\* handlers in scbs.cc, packets consumed by a cell or replaced by a response
\* included, does not show to scbs_utils.py.  For every number of cells, of commands
\* and of sentences in flight, as long as a sentence has room for what is read
\* (Roomy, RoomForAll) and no reading of the current, which is sampled when a cell
\* gets to it, is asked for (ReadingHidden).  The links hand over whole sentences:
\* what the user types has to fit the receive buffer of a cell.
THEOREM ChainImplementsPack ==
  ASSUME FaultKinds = {}, ReadingHidden, Roomy, RoomForAll
  PROVE  Spec => ImplementsPack
<1>1. Init => Pack!Init /\ Hidden
  BY InitMaps
<1>2. TypeOK /\ Hidden /\ [Next]_vars => Hidden'
  BY HiddenKept
<1>3. TypeOK /\ Hidden /\ [Next]_vars => [Pack!Next]_(Pack!packVars)
  BY StepMaps
<1>4. Spec => []TypeOK
  BY TypeCorrect
<1>. QED
  BY <1>1, <1>2, <1>3, <1>4, PTL DEF Spec, ImplementsPack, Pack!Spec

\* With the buffer sizes of the code that is every pack of up to eleven cells, and
\* every pack that is not asked for its versions.
THEOREM ChainImplementsPackInCode ==
  ASSUME FaultKinds = {}, ReadingHidden, CodeSizes, RoomInCode
  PROVE  Spec => ImplementsPack
<1>1. Roomy
  BY SMT DEF CodeSizes, Roomy
<1>2. RoomForAll
  BY RoomHolds
<1>. QED
  BY <1>1, <1>2, ChainImplementsPack

=============================================================================
