------------------------- MODULE ProviderTurnProofs -------------------------
(***************************************************************************)
(* Proofs that an answer has the text of what the process printed, however *)
(* its output is cut into chunks, and that its last verdict is heeded, for *)
(* any output, any lines, any limit and any order of chunks, timers and    *)
(* cancellations.                                                          *)
(*                                                                         *)
(* While the output is read, what was consumed, what is buffered and what  *)
(* is unread make up the whole.                                            *)
(***************************************************************************)
EXTENDS ProviderTurn, SequenceTheorems, WellFoundedInduction, TLAPS

\* The bytes of an output, and where the n-th line ends in it, newline included.
Byte == [line : Lines, at : Nat, good : BOOLEAN] \cup {Newline}
Offset(out, n) == Len(UpTo(out)[n])

\* A byte that was read is the one that was written, but for the rest of a character.
Same(x, y) == x.line = y.line /\ x.at = y.at /\ (x = Newline <=> y = Newline)

\* What is left of an output of which d lines and b bytes of the next have been consumed.
Left(s, out, ended, d, b) ==
    LET all == Bytes(out, ended)
    IN  /\ Len(s) + Offset(out, d) + b = Len(all)
        /\ \A i \in DOMAIN s : Same(s[i], all[Offset(out, d) + b + i])

\* Bytes of a line are consumed before the line only when they are above the limit.
Place(out, d, b) ==
    /\ d \in 0 .. Len(out) /\ b \in Nat
    /\ b > 0 => d < Len(out) /\ b <= Size[out[d + 1]] /\ ~Small(out[d + 1])

Out(e) == e.type = "stdout"
Fails(l) == Kind[l] \in {"error", "result_error"}
Succeeds(l) == Kind[l] \in {"task_complete", "result"}

\* What has been passed on when d lines have been consumed, and the verdict.
Heard(es, v, out, d) ==
    /\ \A c \in DOMAIN es : Out(es[c]) =>
          \E j \in 1 .. d : es[c].line = out[j] /\ Speaks(out[j])
    /\ \A j \in 1 .. d : Speaks(out[j]) /\ Small(out[j]) =>
          \E c \in DOMAIN es : Out(es[c]) /\ es[c].line = out[j]
    /\ \A a, c \in DOMAIN es, i, j \in 1 .. d :
          /\ Out(es[a]) /\ es[a].line = out[i]
          /\ Out(es[c]) /\ es[c].line = out[j]
          /\ a < c
          => i < j
    /\ \A i \in 1 .. d :
          /\ Fails(out[i]) /\ Small(out[i])
          /\ \A j \in i + 1 .. d : ~Succeeds(out[j]) /\ Small(out[j])
          => v = "failed"

\* What the consumer has kept of the first n events.
Told(said, es, n) ==
    /\ \A i \in DOMAIN said : \E c \in 1 .. n : Out(es[c]) /\ es[c].line = said[i].line
    /\ \A c \in 1 .. n : Out(es[c]) => \E i \in DOMAIN said : es[c].line = said[i].line
    /\ \A h, i \in DOMAIN said, a, c \in 1 .. n :
          /\ Out(es[a]) /\ es[a].line = said[h].line
          /\ Out(es[c]) /\ es[c].line = said[i].line
          /\ h < i
          => a < c

\* An output has a line once.
Distinct(out) == \A i, j \in DOMAIN out : out[i] = out[j] => i = j

Verdicts == {"none", "failed", "succeeded"}
\* The reader of a record, and how far it has come in an output.
ReaderType == [buffer : Seq(Byte), verdict : Verdicts, events : Seq(EventType)]
Midway(r, rest, out, ended, d, b) ==
    /\ Place(out, d, b)
    /\ Left(r.buffer \o rest, out, ended, d, b)
    /\ Heard(r.events, r.verdict, out, d)
Progress(r, rest, out, ended) == \E d \in 0 .. Len(out), b \in Nat : Midway(r, rest, out, ended, d, b)

\* No line is left in the buffer, and what is read are bytes of lines.
Reading ==
    /\ buffer \in Seq(Byte) /\ ~HasLine(buffer)
    /\ unread \in Seq(Byte)
    /\ cursor \in [Turns -> Nat]

\* Before a process has started there is nothing, and a fresh turn comes once.
Fresh ==
    /\ run = "starting" =>
          printed = <<>> /\ unread = <<>> /\ buffer = <<>> /\ verdict = "none" /\ events[turn] = <<>>
    /\ turn = 1 => events[2] = <<>> /\ cursor[2] = 0 /\ text[2] = <<>>
    /\ run = "stale" => turn = 1

\* While its output is read, every byte of it is consumed, buffered or unread.
Reads ==
    run \in {"streaming", "errored"} =>
        \E ended \in BOOLEAN : Progress(Reader(buffer), unread, printed, ended)

\* What a run that is ok has passed on is the whole output, otherwise a part of it.
Completed == run = "ok" => Heard(events[turn], verdict, printed, Len(printed)) /\ verdict # "failed"

\* A turn passes on what a part of its output says.
Passes == \E d \in 0 .. Len(printed) : Heard(events[turn], verdict, printed, d)

\* An event with text is of a line of the output.
Voiced == \A k \in Turns : \A c \in DOMAIN events[k] : Out(events[k][c]) => events[k][c].line \in Lines

\* The consumer has kept what it has read of it.
Keeps == Told(text[turn], events[turn], cursor[turn])

\* Each text begins where the one before it ends.
Adjoins(said) ==
    \A i \in DOMAIN said :
        said[i].at = IF i = 1 THEN 0 ELSE said[i - 1].at + Size[said[i - 1].line]
Placed == \A k \in Turns : Adjoins(text[k])

\* The answer of a turn is what the consumer has kept when it has drained the
\* buffer, and that is stored as far as the limit allows.
Settled ==
    /\ job # "running" => over[turn]
    /\ row = "SUCCEEDED" => job = "recorded" /\ answer = Sliced(text[turn])
    /\ Answered => run = "ok" /\ cursor[turn] = Len(events[turn])

Heeds == Reading /\ Fresh /\ Reads /\ Completed /\ Passes /\ Voiced /\ Keeps /\ Placed
Inv == TypeOK /\ Heeds /\ Settled

-----------------------------------------------------------------------------
(***************************************************************************)
(* Numbers and iterations.                                                 *)
(***************************************************************************)

\* A set of numbers that is not empty has a least element.
LEMMA LeastExists ==
  ASSUME NEW T, T \subseteq Nat, T # {}
  PROVE  \E x \in T : \A y \in T : x <= y
<1>1. PICK x \in T : \A y \in T : ~ (<<y, x>> \in OpToRel(<, Nat))
  BY WFMin, NatLessThanWellFounded
<1>2. ASSUME NEW y \in T, y < x
      PROVE  FALSE
  <2>1. <<y, x>> \in OpToRel(<, Nat)
    BY <1>2 DEF OpToRel
  <2>2. QED
    BY <1>1, <2>1
<1>3. QED
  BY <1>2

\* Induction over an initial segment of the numbers.
LEMMA InductionTo ==
  ASSUME NEW N \in Nat, NEW T, 0 \in T, \A n \in 0 .. N : n \in T /\ n < N => n + 1 \in T
  PROVE  0 .. N \subseteq T
<1>1. SUFFICES ASSUME (0 .. N) \ T # {}
               PROVE  FALSE
  OBVIOUS
<1>2. (0 .. N) \ T \subseteq Nat
  OBVIOUS
<1>3. PICK x \in (0 .. N) \ T : \A y \in (0 .. N) \ T : x <= y
  BY <1>1, <1>2, LeastExists
<1>4. x - 1 \in 0 .. N /\ x - 1 < N /\ (x - 1) + 1 = x /\ ~ (x <= x - 1)
  BY <1>3
<1>5. x - 1 \in T
  BY <1>3, <1>4
<1>6. QED
  BY <1>3, <1>4, <1>5

\* The functions f[1], f[2], ... f[N] can be applied to x one after the other.
Iteration(g, f, x, N, S) ==
    /\ g \in [0 .. N -> S] /\ g[0] = x
    /\ \A n \in 1 .. N : g[n] = f[n][g[n - 1]]

\* A chain of operations applied one after the other has all its results.
LEMMA Iterates ==
  ASSUME NEW S, NEW x \in S, NEW N \in Nat, NEW f \in [1 .. N -> [S -> S]]
  PROVE  \E g : Iteration(g, f, x, N, S)
<1> DEFINE Solves(g, m) == Iteration(g, f, x, m, S)
           T == {m \in 0 .. N : \E g : Solves(g, m)}
<1> USE DEF Iteration
<1>1. 0 \in T
  <2> DEFINE g == [i \in 0 .. 0 |-> x]
  <2>1. Solves(g, 0)
    OBVIOUS
  <2>2. 0 \in 0 .. N
    OBVIOUS
  <2> HIDE DEF Solves, Iteration, g
  <2>3. QED
    BY <2>1, <2>2
<1>2. ASSUME NEW m \in 0 .. N, m \in T, m < N
      PROVE  m + 1 \in T
  <2>1. PICK g : Solves(g, m)
    BY <1>2
  <2> DEFINE h == [i \in 0 .. m + 1 |-> IF i = m + 1 THEN f[m + 1][g[m]] ELSE g[i]]
  <2>2. m \in Nat /\ m + 1 \in 1 .. N /\ m \in 0 .. m
    BY <1>2
  <2>3. f[m + 1][g[m]] \in S
    BY <2>1, <2>2
  <2>4. h \in [0 .. m + 1 -> S]
    <3>1. ASSUME NEW i \in 0 .. m + 1, i # m + 1
          PROVE  g[i] \in S
      BY <2>1, <2>2, <3>1
    <3>2. QED
      BY <2>3, <3>1
  <2>5. h[0] = x
    BY <2>1, <2>2
  <2>6. ASSUME NEW n \in 1 .. m + 1
        PROVE  h[n] = f[n][h[n - 1]]
    <3>1. n - 1 \in 0 .. m /\ n - 1 # m + 1 /\ n - 1 \in 0 .. m + 1
      BY <2>2
    <3>2. h[n - 1] = g[n - 1]
      BY <3>1
    <3>3. CASE n = m + 1
      BY <3>2, <3>3, <2>2
    <3>4. CASE n # m + 1
      <4>1. n \in 1 .. m
        BY <2>2, <3>4
      <4>2. QED
        BY <2>1, <3>2, <3>4, <4>1
    <3>5. QED
      BY <3>3, <3>4
  <2>7. Solves(h, m + 1)
    <3> HIDE DEF h
    <3>1. QED
      BY <2>4, <2>5, <2>6
  <2>8. m + 1 \in 0 .. N
    BY <1>2
  <2> HIDE DEF Solves, Iteration, h
  <2>9. QED
    BY <2>7, <2>8
<1>3. 0 .. N \subseteq T
  <2> HIDE DEF T
  <2>1. QED
    BY <1>1, <1>2, InductionTo
<1>4. N \in T
  BY <1>3
<1>5. QED
  BY <1>4

-----------------------------------------------------------------------------
(***************************************************************************)
(* The bytes of an output.                                                 *)
(***************************************************************************)

\* The sizes of lines, and their bytes.
LEMMA LineBytesFacts ==
  ASSUME NEW l \in Lines
  PROVE  /\ Size[l] \in Nat \ {0}
         /\ LineBytes(l) \in Seq(Byte) /\ Len(LineBytes(l)) = Size[l]
         /\ \A i \in 1 .. Size[l] : LineBytes(l)[i] = [line |-> l, at |-> i, good |-> TRUE]
<1>1. Size[l] \in Nat \ {0}
  BY TurnAssumption
<1>2. \A i \in 1 .. Size[l] : [line |-> l, at |-> i, good |-> TRUE] \in Byte
  BY <1>1 DEF Byte
<1>3. QED
  BY <1>1, <1>2 DEF LineBytes

\* One line more.
More(s, l) == s \o LineBytes(l) \o <<Newline>>

\* A line and its newline behind what was printed before it.
LEMMA MoreFacts ==
  ASSUME NEW l \in Lines, NEW s \in Seq(Byte)
  PROVE  /\ More(s, l) \in Seq(Byte)
         /\ Len(More(s, l)) = Len(s) + Size[l] + 1
         /\ \A i \in 1 .. Len(s) : More(s, l)[i] = s[i]
         /\ \A i \in 1 .. Size[l] : More(s, l)[Len(s) + i] = [line |-> l, at |-> i, good |-> TRUE]
         /\ More(s, l)[Len(s) + Size[l] + 1] = Newline
<1>1. Newline \in Byte
  BY DEF Byte
<1> DEFINE t == LineBytes(l)
<1>2. t \in Seq(Byte) /\ Len(t) = Size[l] /\ Size[l] \in Nat
  BY LineBytesFacts
<1>3. \A i \in 1 .. Size[l] : t[i] = [line |-> l, at |-> i, good |-> TRUE]
  BY LineBytesFacts
<1>4. More(s, l) = s \o t \o <<Newline>>
  BY DEF More
<1> HIDE DEF t
<1> DEFINE u == s \o t
<1>5. u \in Seq(Byte) /\ Len(u) = Len(s) + Size[l]
  BY <1>2
<1>6. \A i \in 1 .. Len(s) : u[i] = s[i]
  BY <1>2
<1>7. \A i \in 1 .. Size[l] : u[Len(s) + i] = t[i]
  BY <1>2
<1>8. More(s, l) = Append(u, Newline)
  BY <1>1, <1>4, <1>5
<1> HIDE DEF u
<1>9. Len(s) \in Nat
  OBVIOUS
<1>10. More(s, l) \in Seq(Byte) /\ Len(More(s, l)) = Len(u) + 1 /\ More(s, l)[Len(u) + 1] = Newline
  BY <1>1, <1>5, <1>8
<1>11. \A i \in 1 .. Len(u) : More(s, l)[i] = u[i]
  BY <1>1, <1>5, <1>8
<1>12. ASSUME NEW i \in 1 .. Len(s)
       PROVE  More(s, l)[i] = s[i]
  BY <1>2, <1>5, <1>6, <1>9, <1>11
<1>13. ASSUME NEW i \in 1 .. Size[l]
       PROVE  More(s, l)[Len(s) + i] = [line |-> l, at |-> i, good |-> TRUE]
  <2>1. Len(s) + i \in 1 .. Len(u)
    BY <1>2, <1>5, <1>9
  <2>2. QED
    BY <2>1, <1>3, <1>7, <1>11
<1>14. QED
  BY <1>5, <1>10, <1>12, <1>13

\* The recursive definition of UpTo has a solution.
LEMMA UpToDefined ==
  ASSUME NEW out \in Seq(Lines)
  PROVE  /\ UpTo(out) \in [0 .. Len(out) -> Seq(Byte)]
         /\ UpTo(out)[0] = <<>>
         /\ \A n \in 1 .. Len(out) : UpTo(out)[n] = More(UpTo(out)[n - 1], out[n])
<1> DEFINE N == Len(out)
           f == [n \in 1 .. N |-> [s \in Seq(Byte) |-> More(s, out[n])]]
<1>1. N \in Nat /\ <<>> \in Seq(Byte)
  OBVIOUS
<1>2. \A n \in 1 .. N : out[n] \in Lines
  OBVIOUS
<1>3. f \in [1 .. N -> [Seq(Byte) -> Seq(Byte)]]
  BY <1>2, MoreFacts
<1>4. PICK g \in [0 .. N -> Seq(Byte)] : g[0] = <<>> /\ \A n \in 1 .. N : g[n] = f[n][g[n - 1]]
  <2> DEFINE SB == Seq(Byte)
             none == <<>>
  <2>1. N \in Nat /\ f \in [1 .. N -> [SB -> SB]] /\ none \in SB
    BY <1>1, <1>3
  <2> HIDE DEF f, N, SB, none
  <2>2. \E g : Iteration(g, f, none, N, SB)
    BY <2>1, Iterates
  <2>3. QED
    BY <2>2 DEF SB, none, Iteration
<1>5. ASSUME NEW n \in 1 .. N
      PROVE  g[n] = g[n - 1] \o LineBytes(out[n]) \o <<Newline>>
  <2>1. n - 1 \in 0 .. N
    BY <1>1
  <2>2. g[n - 1] \in Seq(Byte)
    BY <2>1
  <2>3. g[n] = f[n][g[n - 1]]
    BY <1>4
  <2>4. f[n][g[n - 1]] = More(g[n - 1], out[n])
    BY <2>2
  <2>5. QED
    BY <2>3, <2>4 DEF More
<1>6. g = [n \in 0 .. N |->
              IF n = 0 THEN <<>> ELSE g[n - 1] \o LineBytes(out[n]) \o <<Newline>>]
  <2> DEFINE step(n) == g[n - 1] \o LineBytes(out[n]) \o <<Newline>>
  <2>1. \A n \in 1 .. N : g[n] = step(n)
    BY <1>5
  <2> HIDE DEF step, N
  <2>2. \A n \in 0 .. N : g[n] = IF n = 0 THEN <<>> ELSE step(n)
    <3>1. \A n \in 0 .. N : n # 0 => n \in 1 .. N
      BY <1>1
    <3>2. QED
      BY <2>1, <3>1, <1>4
  <2>3. g = [n \in 0 .. N |-> IF n = 0 THEN <<>> ELSE step(n)]
    BY <2>2, <1>4
  <2>4. QED
    BY <2>3 DEF step, N
<1> DEFINE P(h) == h = [n \in 0 .. Len(out) |->
              IF n = 0 THEN <<>> ELSE h[n - 1] \o LineBytes(out[n]) \o <<Newline>>]
<1>7. UpTo(out) = CHOOSE h : P(h)
  BY DEF UpTo
<1>8. P(UpTo(out))
  BY <1>6, <1>7
<1> DEFINE U == UpTo(out)
<1>9. U = [n \in 0 .. N |-> IF n = 0 THEN <<>> ELSE U[n - 1] \o LineBytes(out[n]) \o <<Newline>>]
  BY <1>8
<1> HIDE DEF U, P
<1>10. U[0] = <<>>
  BY <1>1, <1>9
<1>11. ASSUME NEW n \in 1 .. N
       PROVE  U[n] = More(U[n - 1], out[n])
  <2>1. n \in 0 .. N /\ n # 0
    BY <1>1
  <2>2. QED
    BY <1>9, <2>1 DEF More
<1>12. U \in [0 .. N -> Seq(Byte)]
  <2> DEFINE T == {n \in 0 .. N : U[n] \in Seq(Byte)}
  <2>1. 0 \in T
    <3>1. 0 \in 0 .. N
      BY <1>1
    <3>2. U[0] \in Seq(Byte)
      BY <1>10
    <3>3. QED
      BY <3>1, <3>2
  <2>2. ASSUME NEW n \in 0 .. N, n \in T, n < N
        PROVE  n + 1 \in T
    <3>1. n + 1 \in 1 .. N /\ n + 1 \in 0 .. N /\ (n + 1) - 1 = n
      BY <1>1, <2>2
    <3>2. U[n + 1] = More(U[n], out[n + 1]) /\ out[n + 1] \in Lines
      BY <1>2, <1>11, <3>1
    <3>3. U[n] \in Seq(Byte)
      BY <2>2
    <3>4. QED
      BY <3>1, <3>2, <3>3, MoreFacts
  <2>3. 0 .. N \subseteq T
    <3> HIDE DEF T, N
    <3>1. QED
      BY <1>1, <2>1, <2>2, InductionTo
  <2>4. \A n \in 0 .. N : U[n] \in Seq(Byte)
    BY <2>3
  <2>5. DOMAIN U = 0 .. N /\ U = [n \in 0 .. N |-> U[n]]
    <3> DEFINE e(n) == IF n = 0 THEN <<>> ELSE U[n - 1] \o LineBytes(out[n]) \o <<Newline>>
    <3>1. U = [n \in 0 .. N |-> e(n)]
      BY <1>9
    <3> HIDE DEF e
    <3>2. QED
      BY <3>1
  <2>6. QED
    BY <2>4, <2>5
<1>13. QED
  BY <1>10, <1>11, <1>12 DEF U

\* The first m lines of an output: where each begins and ends, and its bytes.
Laid(out, m) ==
    LET all == UpTo(out)[m]
    IN  \A n \in 1 .. m :
          /\ \A i \in 1 .. Size[out[n]] :
                /\ Offset(out, n - 1) + i \in 1 .. Len(all)
                /\ all[Offset(out, n - 1) + i] = [line |-> out[n], at |-> i, good |-> TRUE]
          /\ Offset(out, n) \in 1 .. Len(all)
          /\ all[Offset(out, n)] = Newline
          /\ n < m => Offset(out, n) + 2 <= Offset(out, m)

\* Each line of an output begins behind the newline of the line before it.
LEMMA Offsets ==
  ASSUME NEW out \in Seq(Lines)
  PROVE  /\ Offset(out, 0) = 0
         /\ \A n \in 0 .. Len(out) : Offset(out, n) \in Nat
         /\ \A n \in 1 .. Len(out) : Offset(out, n) = Offset(out, n - 1) + Size[out[n]] + 1
<1>1. Offset(out, 0) = 0
  BY UpToDefined DEF Offset
<1>2. ASSUME NEW n \in 0 .. Len(out)
      PROVE  Offset(out, n) \in Nat
  <2>1. UpTo(out)[n] \in Seq(Byte)
    BY UpToDefined
  <2>2. QED
    BY <2>1 DEF Offset
<1>3. ASSUME NEW n \in 1 .. Len(out)
      PROVE  Offset(out, n) = Offset(out, n - 1) + Size[out[n]] + 1
  <2>1. n - 1 \in 0 .. Len(out) /\ out[n] \in Lines
    OBVIOUS
  <2>2. UpTo(out)[n - 1] \in Seq(Byte) /\ UpTo(out)[n] = More(UpTo(out)[n - 1], out[n])
    BY <2>1, UpToDefined
  <2>3. QED
    BY <2>1, <2>2, MoreFacts DEF Offset
<1>4. QED
  BY <1>1, <1>2, <1>3

\* The first m lines of an output lie where Offset says.
LEMMA LinesLaid ==
  ASSUME NEW out \in Seq(Lines)
  PROVE  \A m \in 0 .. Len(out) : Laid(out, m)
<1> DEFINE N == Len(out)
           T == {m \in 0 .. N : Laid(out, m)}
<1>1. 0 \in T
  BY DEF Laid
<1>2. ASSUME NEW m \in 0 .. N, m \in T, m < N
      PROVE  m + 1 \in T
  <2> DEFINE s == UpTo(out)[m]
             l == out[m + 1]
             t == UpTo(out)[m + 1]
  <2>1. m + 1 \in 1 .. N /\ m + 1 \in 0 .. N /\ (m + 1) - 1 = m /\ l \in Lines
    BY <1>2
  <2>2. s \in Seq(Byte) /\ t = More(s, l)
    BY <2>1, UpToDefined
  <2>3. /\ Len(t) = Len(s) + Size[l] + 1
        /\ \A i \in 1 .. Len(s) : t[i] = s[i]
        /\ \A i \in 1 .. Size[l] : t[Len(s) + i] = [line |-> l, at |-> i, good |-> TRUE]
        /\ t[Len(s) + Size[l] + 1] = Newline
    <3> HIDE DEF s, t, l
    <3>1. QED
      BY <2>1, <2>2, MoreFacts
  <2>4. Size[l] \in Nat \ {0} /\ Len(s) \in Nat
    BY <2>1, <2>2, LineBytesFacts
  <2>5. Offset(out, m) = Len(s) /\ Offset(out, m + 1) = Len(t)
    BY DEF Offset
  <2>6. Laid(out, m)
    BY <1>2
  <2>7. ASSUME NEW n \in 1 .. m + 1
        PROVE  /\ \A i \in 1 .. Size[out[n]] :
                     /\ Offset(out, n - 1) + i \in 1 .. Len(t)
                     /\ t[Offset(out, n - 1) + i] = [line |-> out[n], at |-> i, good |-> TRUE]
               /\ Offset(out, n) \in 1 .. Len(t)
               /\ t[Offset(out, n)] = Newline
               /\ n < m + 1 => Offset(out, n) + 2 <= Offset(out, m + 1)
    <3>1. CASE n = m + 1
      <4> HIDE DEF s, t, l
      <4>1. out[n] = l /\ n - 1 = m
        BY <3>1 DEF l
      <4>2. QED
        BY SMTT(30), <3>1, <4>1, <2>3, <2>4, <2>5
    <3>2. CASE n # m + 1
      <4>1. n \in 1 .. m
        BY <3>2
      <4>2. /\ \A i \in 1 .. Size[out[n]] :
                  /\ Offset(out, n - 1) + i \in 1 .. Len(s)
                  /\ s[Offset(out, n - 1) + i] = [line |-> out[n], at |-> i, good |-> TRUE]
            /\ Offset(out, n) \in 1 .. Len(s)
            /\ s[Offset(out, n)] = Newline
        BY <2>6, <4>1 DEF Laid
      <4> HIDE DEF s, t, l
      <4>3. \A i \in 1 .. Len(s) : i \in 1 .. Len(t) /\ t[i] = s[i]
        BY <2>3, <2>4
      <4>4. Offset(out, n) + 2 <= Offset(out, m + 1)
        BY <4>2, <2>3, <2>4, <2>5
      <4>5. QED
        BY <4>2, <4>3, <4>4
    <3>3. QED
      BY <3>1, <3>2
  <2>8. Laid(out, m + 1)
    BY <2>7 DEF Laid
  <2>9. QED
    BY <2>1, <2>8
<1>3. 0 .. N \subseteq T
  <2> HIDE DEF T
  <2>1. QED
    BY <1>1, <1>2, InductionTo
<1>4. QED
  BY <1>3

\* The bytes of an output are those of its lines, each with its newline but
\* perhaps the last.
LEMMA BytesLaid ==
  ASSUME NEW out \in Seq(Lines), NEW ended \in BOOLEAN
  PROVE  LET all == Bytes(out, ended)
         IN  /\ all \in Seq(Byte)
             /\ Len(all) <= Offset(out, Len(out))
             /\ \A n \in 1 .. Len(out) :
                  /\ \A i \in 1 .. Size[out[n]] :
                        /\ Offset(out, n - 1) + i \in 1 .. Len(all)
                        /\ all[Offset(out, n - 1) + i] = [line |-> out[n], at |-> i, good |-> TRUE]
                  /\ Offset(out, n) \in 1 .. Len(all) => all[Offset(out, n)] = Newline
                  /\ n < Len(out) => Offset(out, n) \in 1 .. Len(all)
                  /\ Offset(out, n) <= Len(all) + 1
<1> DEFINE N == Len(out)
           all == UpTo(out)[N]
           bs == Bytes(out, ended)
<1>1. N \in 0 .. N /\ N \in Nat
  OBVIOUS
<1>2. all \in Seq(Byte) /\ Offset(out, N) = Len(all) /\ Laid(out, N)
  BY <1>1, UpToDefined, LinesLaid DEF Offset
<1>3. /\ bs \in Seq(Byte)
      /\ Len(bs) <= Len(all) /\ Len(all) <= Len(bs) + 1
      /\ \A i \in 1 .. Len(bs) : bs[i] = all[i]
  <2>1. CASE ended \/ all = <<>>
    <3>1. bs = all
      BY <2>1 DEF Bytes
    <3> HIDE DEF bs, all
    <3>2. QED
      BY <3>1, <1>2
  <2>2. CASE ~ (ended \/ all = <<>>)
    <3>1. bs = SubSeq(all, 1, Len(all) - 1)
      BY <2>2 DEF Bytes
    <3> HIDE DEF bs, all
    <3>2. Len(all) \in Nat \ {0}
      BY <1>2, <2>2
    <3>3. QED
      BY <3>1, <3>2, <1>2
  <2>3. QED
    BY <2>1, <2>2
<1>4. Len(bs) \in Nat /\ Len(all) \in Nat
  BY <1>2, <1>3
<1>5. ASSUME NEW n \in 1 .. N
      PROVE  /\ \A i \in 1 .. Size[out[n]] :
                   /\ Offset(out, n - 1) + i \in 1 .. Len(bs)
                   /\ bs[Offset(out, n - 1) + i] = [line |-> out[n], at |-> i, good |-> TRUE]
             /\ Offset(out, n) \in 1 .. Len(bs) => bs[Offset(out, n)] = Newline
             /\ n < N => Offset(out, n) \in 1 .. Len(bs)
             /\ Offset(out, n) <= Len(bs) + 1
  <2>1. /\ \A i \in 1 .. Size[out[n]] :
              /\ Offset(out, n - 1) + i \in 1 .. Len(all)
              /\ all[Offset(out, n - 1) + i] = [line |-> out[n], at |-> i, good |-> TRUE]
        /\ Offset(out, n) \in 1 .. Len(all)
        /\ all[Offset(out, n)] = Newline
        /\ n < N => Offset(out, n) + 2 <= Offset(out, N)
    BY <1>2 DEF Laid
  <2>2. n - 1 \in 0 .. N /\ n \in 0 .. N /\ out[n] \in Lines
    OBVIOUS
  <2>3. /\ Offset(out, n - 1) \in Nat /\ Offset(out, n) \in Nat /\ Size[out[n]] \in Nat
        /\ Offset(out, n) = Offset(out, n - 1) + Size[out[n]] + 1
    BY <2>2, Offsets, LineBytesFacts
  <2> HIDE DEF bs, all
  <2>4. Offset(out, n) <= Len(all)
    BY <2>1, <1>4
  <2>5. ASSUME NEW i \in 1 .. Size[out[n]]
        PROVE  Offset(out, n - 1) + i \in 1 .. Len(bs)
    BY SMTT(30), <1>3, <1>4, <2>3, <2>4
  <2>6. ASSUME NEW i \in 1 .. Size[out[n]]
        PROVE  bs[Offset(out, n - 1) + i] = [line |-> out[n], at |-> i, good |-> TRUE]
    BY <2>1, <2>5, <1>3
  <2>7. n < N => Offset(out, n) \in 1 .. Len(bs)
    BY <2>1, <2>3, <1>2, <1>3, <1>4
  <2>8. Offset(out, n) <= Len(bs) + 1
    BY <2>3, <2>4, <1>3, <1>4
  <2>9. QED
    BY <2>1, <2>5, <2>6, <2>7, <2>8, <1>3
<1>6. QED
  BY <1>2, <1>3, <1>5

-----------------------------------------------------------------------------
(***************************************************************************)
(* What is heard of a text.                                                *)
(***************************************************************************)

EventKinds == {"stdout", "stderr", "usage"}

\* A record that speaks passes its text on once, any other record never does.
LEMMA PassedFacts ==
  ASSUME NEW k \in DOMAIN Passed
  PROVE  /\ Passed[k] \in Seq(EventKinds)
         /\ \A i, j \in DOMAIN Passed[k] :
               Passed[k][i] = "stdout" /\ Passed[k][j] = "stdout" => i = j
         /\ k \in {"agent_message", "result"} <=> \E i \in DOMAIN Passed[k] : Passed[k][i] = "stdout"
<1>1. k \in {"session_configured", "agent_message", "token_count", "error", "task_complete",
             "init", "progress", "result", "result_error", "other"}
  BY DEF Passed
<1>2. CASE k \in {"session_configured", "error", "task_complete", "init"}
  <2>1. Passed[k] = <<>>
    BY <1>2 DEF Passed
  <2>2. QED
    BY <1>2, <2>1
<1>3. CASE k \in {"token_count", "result_error"}
  <2>1. Passed[k] = <<"usage">>
    BY <1>3 DEF Passed
  <2>2. QED
    BY <1>3, <2>1 DEF EventKinds
<1>4. CASE k \in {"progress", "other"}
  <2>1. Passed[k] = <<"stderr">>
    BY <1>4 DEF Passed
  <2>2. QED
    BY <1>4, <2>1 DEF EventKinds
<1>5. CASE k = "agent_message"
  <2>1. Passed[k] = <<"stdout">>
    BY <1>5 DEF Passed
  <2>2. QED
    BY <1>5, <2>1 DEF EventKinds
<1>6. CASE k = "result"
  <2>1. Passed[k] = <<"usage", "stdout">>
    BY <1>6 DEF Passed
  <2>2. QED
    BY <1>6, <2>1 DEF EventKinds
<1>7. QED
  BY <1>1, <1>2, <1>3, <1>4, <1>5, <1>6

\* Only a failure is a verdict of failure, only a success one of success.
LEMMA VerdictFacts ==
  ASSUME NEW k \in DOMAIN Passed
  PROVE  /\ k \in DOMAIN Verdict => Verdict[k] \in Verdicts \ {"none"}
         /\ k \in {"error", "result_error"} => k \in DOMAIN Verdict /\ Verdict[k] = "failed"
         /\ k \in DOMAIN Verdict /\ k \notin {"error", "result_error"} =>
               k \in {"task_complete", "result"}
  BY DEF Verdict, Verdicts

\* A text has no newline.
IsText(t) == t \in Seq(Byte) /\ \A i \in DOMAIN t : t[i] # Newline

\* What is made of a text has its type.
LEMMA TextTypes ==
  ASSUME NEW t, IsText(t), NEW v \in Verdicts
  PROVE  /\ Events(t) \in Seq(EventType) /\ Apply(v, t) \in Verdicts
         /\ t # <<>> => Event("stderr", t) \in EventType
<1>1. CASE t = <<>>
  BY <1>1 DEF Events, Apply, IsRecord
<1>2. CASE t # <<>>
  <2>1. 1 \in DOMAIN t /\ t[1] \in Byte /\ t[1] # Newline
    BY <1>2 DEF IsText
  <2>2. t[1].line \in Lines
    BY <2>1 DEF Byte
  <2>3. KindOf(t) \in DOMAIN Passed
    BY <2>2, TurnAssumption DEF KindOf
  <2>4. ASSUME NEW type \in EventKinds
        PROVE  Event(type, t) \in EventType
    BY <2>2 DEF Event, EventType, EventKinds
  <2>5. Apply(v, t) \in Verdicts
    BY <2>3, VerdictFacts DEF Apply
  <2>6. CASE IsRecord(t)
    <3> DEFINE p == Passed[KindOf(t)]
    <3>1. p \in Seq(EventKinds)
      BY <2>3, PassedFacts
    <3>2. Events(t) = [i \in DOMAIN p |-> Event(p[i], t)]
      BY <1>2, <2>6 DEF Events
    <3> HIDE DEF p
    <3>3. DOMAIN p = 1 .. Len(p) /\ Len(p) \in Nat
      BY <3>1
    <3>4. \A i \in 1 .. Len(p) : Event(p[i], t) \in EventType
      BY <2>4, <3>1
    <3>5. Events(t) \in Seq(EventType)
      BY <3>2, <3>3, <3>4
    <3>6. QED
      BY <2>4, <2>5, <3>5 DEF EventKinds
  <2>7. CASE ~ IsRecord(t)
    <3>1. Events(t) = <<Event("stderr", t)>>
      BY <1>2, <2>7 DEF Events
    <3>2. Event("stderr", t) \in EventType
      BY <2>4 DEF EventKinds
    <3>3. QED
      BY <2>5, <3>1, <3>2
  <2>8. QED
    BY <2>6, <2>7
<1>3. QED
  BY <1>1, <1>2

\* Events that pass no text on change nothing.
LEMMA HeardQuiet ==
  ASSUME NEW out \in Seq(Lines), NEW d \in 0 .. Len(out), NEW v,
         NEW es \in Seq(EventType), Heard(es, v, out, d),
         NEW q \in Seq(EventType), \A c \in DOMAIN q : ~Out(q[c])
  PROVE  Heard(es \o q, v, out, d)
<1> DEFINE fs == es \o q
<1>1. \A c \in DOMAIN es : c \in DOMAIN fs /\ fs[c] = es[c]
  OBVIOUS
<1>2. ASSUME NEW c \in DOMAIN fs, Out(fs[c])
      PROVE  c \in DOMAIN es
  <2>1. SUFFICES ASSUME c \notin DOMAIN es
                 PROVE  FALSE
    OBVIOUS
  <2>2. c - Len(es) \in DOMAIN q /\ fs[c] = q[c - Len(es)]
    BY <2>1
  <2>3. QED
    BY <1>2, <2>2
<1> HIDE DEF fs
<1>3. /\ \A c \in DOMAIN fs : Out(fs[c]) =>
            \E j \in 1 .. d : fs[c].line = out[j] /\ Speaks(out[j])
      /\ \A j \in 1 .. d : Speaks(out[j]) /\ Small(out[j]) =>
            \E c \in DOMAIN fs : Out(fs[c]) /\ fs[c].line = out[j]
  <2>1. /\ \A c \in DOMAIN es : Out(es[c]) =>
              \E j \in 1 .. d : es[c].line = out[j] /\ Speaks(out[j])
        /\ \A j \in 1 .. d : Speaks(out[j]) /\ Small(out[j]) =>
              \E c \in DOMAIN es : Out(es[c]) /\ es[c].line = out[j]
    BY DEF Heard
  <2>2. ASSUME NEW c \in DOMAIN fs, Out(fs[c])
        PROVE  \E j \in 1 .. d : fs[c].line = out[j] /\ Speaks(out[j])
    <3>1. c \in DOMAIN es /\ fs[c] = es[c]
      BY <1>1, <1>2, <2>2
    <3>2. QED
      BY <2>1, <2>2, <3>1
  <2>3. ASSUME NEW j \in 1 .. d, Speaks(out[j]), Small(out[j])
        PROVE  \E c \in DOMAIN fs : Out(fs[c]) /\ fs[c].line = out[j]
    <3>1. PICK c \in DOMAIN es : Out(es[c]) /\ es[c].line = out[j]
      BY <2>1, <2>3
    <3>2. c \in DOMAIN fs /\ fs[c] = es[c]
      BY <1>1
    <3>3. QED
      BY <3>1, <3>2
  <2>4. QED
    BY <2>2, <2>3
<1>4. ASSUME NEW a \in DOMAIN fs, NEW c \in DOMAIN fs, NEW i \in 1 .. d, NEW j \in 1 .. d,
             Out(fs[a]), fs[a].line = out[i], Out(fs[c]), fs[c].line = out[j], a < c
      PROVE  i < j
  <2>1. a \in DOMAIN es /\ c \in DOMAIN es /\ fs[a] = es[a] /\ fs[c] = es[c]
    BY <1>1, <1>2, <1>4
  <2>2. QED
    BY <1>4, <2>1 DEF Heard
<1>5. \A i \in 1 .. d :
          /\ Fails(out[i]) /\ Small(out[i])
          /\ \A j \in i + 1 .. d : ~Succeeds(out[j]) /\ Small(out[j])
          => v = "failed"
  BY DEF Heard
<1>6. Heard(fs, v, out, d)
  BY <1>3, <1>4, <1>5 DEF Heard
<1>7. QED
  BY <1>6 DEF fs

\* One line more has been consumed.
LEMMA HeardMore ==
  ASSUME NEW out \in Seq(Lines), Distinct(out), NEW d \in 0 .. Len(out), d < Len(out), NEW v, NEW w,
         NEW es \in Seq(EventType), Heard(es, v, out, d),
         NEW q \in Seq(EventType),
         \A c \in DOMAIN q : Out(q[c]) => q[c].line = out[d + 1] /\ Speaks(out[d + 1]),
         Speaks(out[d + 1]) /\ Small(out[d + 1]) => \E c \in DOMAIN q : Out(q[c]),
         \A a, c \in DOMAIN q : Out(q[a]) /\ Out(q[c]) => a = c,
         Fails(out[d + 1]) /\ Small(out[d + 1]) => w = "failed",
         w = v \/ w = "failed" \/ Succeeds(out[d + 1])
  PROVE  Heard(es \o q, w, out, d + 1)
<1> DEFINE fs == es \o q
           l == out[d + 1]
<1>1. \A c \in DOMAIN es : c \in DOMAIN fs /\ fs[c] = es[c]
  OBVIOUS
<1>2. \A c \in DOMAIN q : Len(es) + c \in DOMAIN fs /\ fs[Len(es) + c] = q[c]
  OBVIOUS
<1>3. ASSUME NEW c \in DOMAIN fs, c \notin DOMAIN es
      PROVE  c - Len(es) \in DOMAIN q /\ fs[c] = q[c - Len(es)] /\ \A a \in DOMAIN es : a < c
  BY <1>3
<1>4. DOMAIN es = 1 .. Len(es) /\ DOMAIN fs = 1 .. Len(fs) /\ Len(es) \in Nat /\ Len(fs) \in Nat
  OBVIOUS
<1>5. 1 .. d + 1 = 1 .. d \cup {d + 1} /\ d + 1 \in 1 .. Len(out) /\ 1 .. d \subseteq DOMAIN out
  OBVIOUS
<1>6. \A i \in 1 .. d : out[i] # l
  BY <1>5 DEF Distinct
<1> HIDE DEF fs, l
<1>7. ASSUME NEW c \in DOMAIN fs, Out(fs[c])
      PROVE  \E j \in 1 .. d + 1 : fs[c].line = out[j] /\ Speaks(out[j])
  <2>1. CASE c \in DOMAIN es
    BY <2>1, <1>1, <1>5, <1>7 DEF Heard
  <2>2. CASE c \notin DOMAIN es
    BY <2>2, <1>3, <1>5, <1>7 DEF l
  <2>3. QED
    BY <2>1, <2>2
<1>8. ASSUME NEW j \in 1 .. d + 1, Speaks(out[j]), Small(out[j])
      PROVE  \E c \in DOMAIN fs : Out(fs[c]) /\ fs[c].line = out[j]
  <2>1. CASE j \in 1 .. d
    BY <2>1, <1>1, <1>8 DEF Heard
  <2>2. CASE j = d + 1
    <3>1. PICK c \in DOMAIN q : Out(q[c])
      BY <1>8, <2>2
    <3>2. QED
      BY <2>2, <3>1, <1>2
  <2>3. QED
    BY <2>1, <2>2, <1>5
<1>9. ASSUME NEW a \in DOMAIN fs, NEW c \in DOMAIN fs, NEW i \in 1 .. d + 1, NEW j \in 1 .. d + 1,
             Out(fs[a]), fs[a].line = out[i], Out(fs[c]), fs[c].line = out[j], a < c
      PROVE  i < j
  <2>1. ASSUME NEW x \in DOMAIN fs, NEW k \in 1 .. d + 1, Out(fs[x]), fs[x].line = out[k]
        PROVE  /\ x \in DOMAIN es <=> k \in 1 .. d
               /\ x \in DOMAIN es => fs[x] = es[x]
               /\ x \notin DOMAIN es => k = d + 1
    <3>1. CASE x \in DOMAIN es
      <4>1. PICK m \in 1 .. d : es[x].line = out[m]
        BY <1>1, <2>1, <3>1 DEF Heard
      <4>2. k # d + 1
        BY <1>1, <1>6, <2>1, <3>1, <4>1 DEF l
      <4>3. QED
        BY <1>1, <1>5, <3>1, <4>2
    <3>2. CASE x \notin DOMAIN es
      <4>1. out[k] = l
        BY <1>3, <2>1, <3>2 DEF l
      <4>2. k \notin 1 .. d
        BY <1>6, <4>1
      <4>3. QED
        BY <1>5, <3>2, <4>2
    <3>3. QED
      BY <3>1, <3>2
  <2>2. CASE c \in DOMAIN es
    <3>1. a \in DOMAIN es
      BY <1>4, <1>9, <2>2
    <3>2. es[a] = fs[a] /\ es[c] = fs[c] /\ i \in 1 .. d /\ j \in 1 .. d
      BY <2>1, <2>2, <3>1, <1>9
    <3>3. QED
      BY <1>9, <2>2, <3>1, <3>2 DEF Heard
  <2>3. CASE c \notin DOMAIN es
    <3>1. j = d + 1
      BY <2>1, <2>3, <1>9
    <3>2. CASE a \in DOMAIN es
      <4>1. i \in 1 .. d
        BY <2>1, <3>2, <1>9
      <4>2. QED
        BY <3>1, <4>1
    <3>3. CASE a \notin DOMAIN es
      <4>1. a - Len(es) = c - Len(es)
        BY <1>3, <1>9, <2>3, <3>3
      <4>2. QED
        BY <1>4, <1>9, <4>1
    <3>4. QED
      BY <3>2, <3>3
  <2>4. QED
    BY <2>2, <2>3
<1>10. ASSUME NEW i \in 1 .. d + 1, Fails(out[i]), Small(out[i]),
              \A j \in i + 1 .. d + 1 : ~Succeeds(out[j]) /\ Small(out[j])
       PROVE  w = "failed"
  <2>1. CASE i = d + 1
    BY <1>10, <2>1
  <2>2. CASE i \in 1 .. d
    <3>1. d + 1 \in i + 1 .. d + 1 /\ \A j \in i + 1 .. d : j \in i + 1 .. d + 1
      BY <2>2
    <3>2. ~Succeeds(out[d + 1])
      BY <1>10, <3>1
    <3>3. v = "failed"
      BY <1>10, <2>2, <3>1 DEF Heard
    <3>4. QED
      BY <3>2, <3>3
  <2>3. QED
    BY <2>1, <2>2, <1>5
<1>11. Heard(fs, w, out, d + 1)
  BY <1>7, <1>8, <1>9, <1>10 DEF Heard
<1>12. QED
  BY <1>11 DEF fs

\* The bytes of a line that are left after b of them.
IsRest(t, l, b) ==
    /\ IsText(t)
    /\ b \in Nat /\ b <= Size[l] /\ Len(t) = Size[l] - b
    /\ \A i \in DOMAIN t : t[i].line = l /\ t[i].at = b + i

\* A whole line is a record, the rest of a line that was cut is not.
LEMMA HeardLine ==
  ASSUME NEW out \in Seq(Lines), Distinct(out), NEW d \in 0 .. Len(out), d < Len(out),
         NEW v \in Verdicts, NEW es \in Seq(EventType), Heard(es, v, out, d),
         NEW t, NEW b, IsRest(t, out[d + 1], b), b > 0 => ~Small(out[d + 1])
  PROVE  Heard(es \o Events(t), Apply(v, t), out, d + 1)
<1> DEFINE l == out[d + 1]
           q == Events(t)
           w == Apply(v, t)
<1>1. l \in Lines
  OBVIOUS
<1>2. Size[l] \in Nat \ {0} /\ Kind[l] \in DOMAIN Passed
  BY <1>1, TurnAssumption
<1>3. q \in Seq(EventType) /\ w \in Verdicts
  BY TextTypes DEF IsRest
<1>4. CASE b = 0
  <2>1. t \in Seq(Byte) /\ Len(t) = Size[l] /\ \A i \in DOMAIN t : t[i].line = l /\ t[i].at = i
    <3>1. t \in Seq(Byte) /\ Len(t) = Size[l] - 0 /\ \A i \in DOMAIN t : t[i].line = l /\ t[i].at = 0 + i
      BY <1>4 DEF IsRest, IsText
    <3>2. QED
      BY <3>1, <1>2
  <2>2. t # <<>> /\ 1 \in DOMAIN t /\ t[1].line = l
    BY <2>1, <1>2
  <2>3. IsRecord(t) /\ KindOf(t) = Kind[l]
    BY <2>1, <2>2 DEF IsRecord, KindOf
  <2> DEFINE p == Passed[Kind[l]]
  <2>4. q = [i \in DOMAIN p |-> Event(p[i], t)]
    BY <2>2, <2>3 DEF Events
  <2>5. \A c \in DOMAIN q : c \in DOMAIN p /\ q[c].line = l /\ (Out(q[c]) <=> p[c] = "stdout")
    BY <2>2, <2>4 DEF Event, Out
  <2>6. DOMAIN q = DOMAIN p
    BY <2>4
  <2>7. /\ \A i, j \in DOMAIN p : p[i] = "stdout" /\ p[j] = "stdout" => i = j
        /\ Speaks(l) <=> \E i \in DOMAIN p : p[i] = "stdout"
    BY <1>2, PassedFacts DEF Speaks
  <2> HIDE DEF p, q
  <2>8. /\ \A c \in DOMAIN q : Out(q[c]) => q[c].line = l /\ Speaks(l)
        /\ Speaks(l) => \E c \in DOMAIN q : Out(q[c])
        /\ \A a, c \in DOMAIN q : Out(q[a]) /\ Out(q[c]) => a = c
    BY <2>5, <2>6, <2>7
  <2>9. /\ Fails(l) => w = "failed"
        /\ w = v \/ w = "failed" \/ Succeeds(l)
    BY <1>2, <2>3, VerdictFacts DEF Apply, Fails, Succeeds
  <2> HIDE DEF w, l
  <2>10. Heard(es \o q, w, out, d + 1)
    BY <1>3, <2>8, <2>9, HeardMore DEF l
  <2>11. QED
    BY <2>10 DEF q, w
<1>5. CASE b > 0
  <2>1. ~Small(l)
    BY <1>5
  <2>2. ~IsRecord(t)
    <3>1. SUFFICES ASSUME t # <<>>, IsRecord(t)
                   PROVE  FALSE
      BY DEF IsRecord
    <3>2. 1 \in DOMAIN t
      BY <3>1 DEF IsRest, IsText
    <3>3. t[1].at = b + 1 /\ t[1].at = 1 /\ b \in Nat
      BY <3>1, <3>2 DEF IsRest, IsRecord
    <3>4. QED
      BY <3>3, <1>5
  <2>3. w = v /\ (q = <<>> \/ q = <<Event("stderr", t)>>)
    BY <2>2 DEF Apply, Events
  <2>4. \A c \in DOMAIN q : ~Out(q[c])
    BY <2>3 DEF Out, Event
  <2> HIDE DEF w, l, q
  <2>5. Heard(es \o q, w, out, d + 1)
    BY <1>3, <2>1, <2>3, <2>4, HeardMore DEF l
  <2>6. QED
    BY <2>5 DEF q, w
<1>6. QED
  BY <1>4, <1>5 DEF IsRest

\* A part of a line is heard as nothing.
LEMMA HeardPart ==
  ASSUME NEW out \in Seq(Lines), NEW d \in 0 .. Len(out), NEW v \in Verdicts,
         NEW es \in Seq(EventType), Heard(es, v, out, d),
         NEW t, IsText(t), ~IsRecord(t)
  PROVE  Heard(es \o Events(t), Apply(v, t), out, d)
<1> DEFINE q == Events(t)
<1>1. q \in Seq(EventType)
  BY TextTypes
<1>2. Apply(v, t) = v /\ (q = <<>> \/ q = <<Event("stderr", t)>>)
  BY DEF Apply, Events
<1>3. \A c \in DOMAIN q : ~Out(q[c])
  BY <1>2 DEF Out, Event
<1> HIDE DEF q
<1>4. Heard(es \o q, v, out, d)
  BY <1>1, <1>3, HeardQuiet
<1>5. QED
  BY <1>2, <1>4 DEF q

-----------------------------------------------------------------------------
(***************************************************************************)
(* The reader.                                                             *)
(***************************************************************************)

\* The first bytes of a text, and what is left after them.
LEMMA PrefixFacts ==
  ASSUME NEW S, NEW s \in Seq(S), NEW e \in 0 .. Len(s)
  PROVE  LET u == SubSeq(s, 1, e)
         IN  u \in Seq(S) /\ Len(u) = e /\ DOMAIN u = 1 .. e /\ \A i \in 1 .. e : u[i] = s[i]
<1> DEFINE u == SubSeq(s, 1, e)
<1>1. e \in Nat /\ Len(s) \in Nat /\ e <= Len(s)
  OBVIOUS
<1>2. u \in Seq(S) /\ Len(u) = e
  BY <1>1
<1>3. DOMAIN u = 1 .. e
  BY <1>2
<1>4. \A i \in 1 .. e : u[i] = s[i]
  BY <1>1
<1>5. QED
  BY <1>2, <1>3, <1>4

\* What is left of a sequence behind its first e elements.
LEMMA SuffixFacts ==
  ASSUME NEW S, NEW s \in Seq(S), NEW e \in 0 .. Len(s)
  PROVE  LET u == SubSeq(s, e + 1, Len(s))
         IN  /\ u \in Seq(S) /\ Len(u) = Len(s) - e /\ DOMAIN u = 1 .. Len(s) - e
             /\ \A i \in 1 .. Len(s) - e : u[i] = s[e + i]
<1> DEFINE u == SubSeq(s, e + 1, Len(s))
<1>1. e \in Nat /\ Len(s) \in Nat /\ e <= Len(s)
  OBVIOUS
<1>2. u \in Seq(S) /\ Len(u) = Len(s) - e
  BY <1>1
<1>3. DOMAIN u = 1 .. Len(s) - e
  BY <1>2
<1>4. ASSUME NEW i \in 1 .. Len(s) - e
      PROVE  u[i] = s[e + i]
  BY <1>1
<1>5. QED
  BY <1>2, <1>3, <1>4

\* What lies ahead of the reader: the rest of a line, then its newline, which
\* only the last line may miss.
LEMMA Ahead ==
  ASSUME NEW out \in Seq(Lines), NEW ended \in BOOLEAN, NEW d, NEW b, Place(out, d, b),
         NEW s \in Seq(Byte), Left(s, out, ended, d, b)
  PROVE  /\ d = Len(out) => b = 0 /\ s = <<>>
         /\ d < Len(out) =>
              LET l == out[d + 1]
                  e == (Size[l] - b) + 1
              IN  /\ e \in Nat \ {0} /\ e - 1 <= Len(s)
                  /\ \A i \in 1 .. e - 1 : s[i].line = l /\ s[i].at = b + i /\ s[i] # Newline
                  /\ e <= Len(s) => s[e] = Newline /\ Left(SubSeq(s, e + 1, Len(s)), out, ended, d + 1, 0)
                  /\ d + 1 < Len(out) => e <= Len(s)
<1> DEFINE all == Bytes(out, ended)
           N == Len(out)
           o == Offset(out, d)
<1>1. d \in 0 .. N /\ b \in Nat /\ N \in Nat /\ Len(s) \in Nat
  BY DEF Place
<1>2. o \in Nat /\ Len(s) + o + b = Len(all) /\ \A i \in DOMAIN s : Same(s[i], all[o + b + i])
  BY <1>1, Offsets DEF Left
<1>3. all \in Seq(Byte) /\ Len(all) <= Offset(out, N) /\ Len(all) \in Nat
  BY BytesLaid
<1>4. ASSUME d = N
      PROVE  b = 0 /\ s = <<>>
  <2>1. b = 0
    BY <1>1, <1>4 DEF Place
  <2>2. Len(s) = 0
    BY <2>1, <1>1, <1>2, <1>3, <1>4
  <2>3. QED
    BY <2>1, <2>2
<1>5. ASSUME d < N
      PROVE  LET l == out[d + 1]
                 e == (Size[l] - b) + 1
             IN  /\ e \in Nat \ {0} /\ e - 1 <= Len(s)
                 /\ \A i \in 1 .. e - 1 : s[i].line = l /\ s[i].at = b + i /\ s[i] # Newline
                 /\ e <= Len(s) => s[e] = Newline /\ Left(SubSeq(s, e + 1, Len(s)), out, ended, d + 1, 0)
                 /\ d + 1 < Len(out) => e <= Len(s)
  <2> DEFINE l == out[d + 1]
             e == (Size[l] - b) + 1
             p == Offset(out, d + 1)
  <2>1. d + 1 \in 1 .. N /\ d + 1 \in 0 .. N /\ (d + 1) - 1 = d /\ l \in Lines
    BY <1>1, <1>5
  <2>2. Size[l] \in Nat \ {0} /\ b <= Size[l]
    BY <1>1, <2>1, LineBytesFacts DEF Place
  <2>3. p \in Nat /\ p = o + Size[l] + 1
    BY <2>1, Offsets
  <2>4. /\ \A i \in 1 .. Size[l] :
              /\ o + i \in 1 .. Len(all)
              /\ all[o + i] = [line |-> l, at |-> i, good |-> TRUE]
        /\ p \in 1 .. Len(all) => all[p] = Newline
        /\ d + 1 < N => p \in 1 .. Len(all)
        /\ p <= Len(all) + 1
    BY <2>1, BytesLaid
  <2>5. \A i \in 1 .. Len(s) : Same(s[i], all[o + b + i])
    BY <1>2
  <2>6. "\n" \notin Lines
    BY TurnAssumption
  <2>7. DOMAIN s = 1 .. Len(s) /\ s \in Seq(Byte)
    OBVIOUS
  <2> HIDE DEF l, p, all, N, o
  <2>8. e \in Nat \ {0} /\ e = (Size[l] - b) + 1 /\ p = o + b + e
    BY <1>1, <1>2, <2>2, <2>3
  <2> HIDE DEF e
  <2>9. e - 1 <= Len(s) /\ (d + 1 < N => e <= Len(s))
    <3>1. p <= Len(all) + 1 /\ (d + 1 < N => p <= Len(all))
      BY <1>3, <2>4
    <3>2. Len(all) = Len(s) + o + b
      BY <1>2
    <3>3. QED
      BY SMTT(30), <1>1, <1>2, <1>3, <2>3, <2>8, <3>1, <3>2
  <2>10. ASSUME NEW i \in 1 .. e - 1
         PROVE  s[i].line = l /\ s[i].at = b + i /\ s[i] # Newline
    <3>1. b + i \in 1 .. Size[l] /\ i \in 1 .. Len(s) /\ o + b + i = o + (b + i)
      BY SMTT(30), <1>1, <1>2, <2>2, <2>8, <2>9
    <3>2. Same(s[i], [line |-> l, at |-> b + i, good |-> TRUE])
      BY <2>4, <2>5, <3>1
    <3>3. [line |-> l, at |-> b + i, good |-> TRUE] # Newline
      BY <2>1, <2>6 DEF Newline
    <3>4. QED
      BY <3>2, <3>3 DEF Same
  <2>11. ASSUME e <= Len(s)
         PROVE  s[e] = Newline /\ Left(SubSeq(s, e + 1, Len(s)), out, ended, d + 1, 0)
    <3>1. e \in 1 .. Len(s) /\ p \in 1 .. Len(all)
      BY SMTT(30), <1>1, <1>2, <1>3, <2>8, <2>11
    <3>2. Same(s[e], Newline)
      BY <2>4, <2>5, <2>8, <3>1
    <3> DEFINE u == SubSeq(s, e + 1, Len(s))
    <3>3. Len(u) = Len(s) - e /\ (\A i \in 1 .. Len(s) - e : u[i] = s[e + i]) /\ DOMAIN u = 1 .. Len(s) - e
      BY <1>1, <3>1, SuffixFacts
    <3> HIDE DEF u
    <3>4. /\ o \in Nat /\ b \in Nat /\ Len(s) \in Nat /\ e \in 1 .. Len(s)
          /\ Len(s) + o + b = Len(all) /\ p = o + b + e /\ Len(u) = Len(s) - e
      BY <1>1, <1>2, <2>8, <3>1, <3>3
    <3>5. Len(u) + p + 0 = Len(all)
      BY <3>4
    <3>6. ASSUME NEW i \in DOMAIN u
          PROVE  Same(u[i], all[p + 0 + i])
      <4>1. e + i \in 1 .. Len(s) /\ p + 0 + i = o + b + (e + i) /\ u[i] = s[e + i]
        BY SMTT(30), <3>3, <3>4
      <4>2. QED
        BY <2>5, <4>1
    <3>7. Left(u, out, ended, d + 1, 0)
      BY <3>5, <3>6 DEF Left, p, all
    <3>8. QED
      BY <3>2, <3>7 DEF Same, u
  <2>12. QED
    BY <2>8, <2>9, <2>10, <2>11 DEF l, e, N
<1>6. QED
  BY <1>4, <1>5

\* LineEnd is the first newline of a buffer that has one.
LEMMA EndFacts ==
  ASSUME NEW s \in Seq(Byte), HasLine(s)
  PROVE  LineEnd(s) \in 1 .. Len(s) /\ s[LineEnd(s)] = Newline /\ \A j \in 1 .. LineEnd(s) - 1 : s[j] # Newline
<1> DEFINE T == {i \in 1 .. Len(s) : s[i] = Newline}
<1>1. T \subseteq Nat /\ T # {} /\ DOMAIN s = 1 .. Len(s) /\ Len(s) \in Nat
  BY DEF HasLine
<1>2. PICK e \in T : \A i \in T : e <= i
  <2> HIDE DEF T
  <2>1. QED
    BY <1>1, LeastExists
<1>3. \A j \in 1 .. e - 1 : s[j] # Newline
  <2>1. ASSUME NEW j \in 1 .. e - 1, s[j] = Newline
        PROVE  FALSE
    <3>1. j \in T
      BY <1>1, <1>2, <2>1
    <3>2. QED
      BY <1>1, <1>2, <3>1
  <2>2. QED
    BY <2>1
<1>4. e \in DOMAIN s /\ s[e] = Newline
  BY <1>1, <1>2
<1>5. LineEnd(s) \in DOMAIN s /\ s[LineEnd(s)] = Newline /\ \A j \in 1 .. LineEnd(s) - 1 : s[j] # Newline
  BY <1>3, <1>4 DEF LineEnd
<1>6. QED
  BY <1>1, <1>5

\* A consumed text leaves the buffer alone and adds its events.
LEMMA ConsumedFacts ==
  ASSUME NEW r \in ReaderType, NEW t, IsText(t)
  PROVE  /\ Consumed(r, t) \in ReaderType
         /\ Consumed(r, t).buffer = r.buffer
         /\ Consumed(r, t).verdict = Apply(r.verdict, t)
         /\ Consumed(r, t).events = r.events \o Events(t)
<1> DEFINE v == Apply(r.verdict, t)
           es == r.events \o Events(t)
           c == Consumed(r, t)
<1>1. r.verdict \in Verdicts /\ r.events \in Seq(EventType) /\ r.buffer \in Seq(Byte)
  BY DEF ReaderType
<1>2. v \in Verdicts /\ es \in Seq(EventType)
  BY <1>1, TextTypes
<1>3. c = [r EXCEPT !.verdict = v, !.events = es]
  BY DEF Consumed
<1> HIDE DEF v, es, c
<1>4. c \in ReaderType /\ c.buffer = r.buffer /\ c.verdict = v /\ c.events = es
  BY <1>1, <1>2, <1>3 DEF ReaderType
<1>5. QED
  BY <1>4 DEF v, es, c

\* The line that leaves the reader, and what stays.
LEMMA NextLineFacts ==
  ASSUME NEW r \in ReaderType, HasLine(r.buffer)
  PROVE  LET s == r.buffer
             t == SubSeq(s, 1, LineEnd(s) - 1)
             u == SubSeq(s, LineEnd(s) + 1, Len(s))
         IN  /\ NextLine(r) \in ReaderType
             /\ NextLine(r).buffer = u /\ Len(u) < Len(s)
             /\ IsText(t)
             /\ NextLine(r).verdict = Apply(r.verdict, t)
             /\ NextLine(r).events = r.events \o Events(t)
<1> DEFINE s == r.buffer
           e == LineEnd(s)
           t == SubSeq(s, 1, e - 1)
           u == SubSeq(s, e + 1, Len(s))
           q == [r EXCEPT !.buffer = u]
<1>1. s \in Seq(Byte)
  BY DEF ReaderType
<1>2. e \in 1 .. Len(s) /\ \A j \in 1 .. e - 1 : s[j] # Newline
  BY <1>1, EndFacts
<1>3. e - 1 \in 0 .. Len(s) /\ e \in 0 .. Len(s) /\ Len(s) \in Nat
  BY <1>1, <1>2
<1>4. NextLine(r) = Consumed(q, t)
  BY DEF NextLine
<1> HIDE DEF s, e
<1>5. t \in Seq(Byte) /\ DOMAIN t = 1 .. e - 1 /\ \A i \in 1 .. e - 1 : t[i] = s[i]
  BY <1>1, <1>3, PrefixFacts
<1>6. u \in Seq(Byte) /\ Len(u) = Len(s) - e
  BY <1>1, <1>3, SuffixFacts
<1> HIDE DEF u, t
<1>7. IsText(t)
  BY <1>2, <1>5 DEF IsText
<1>8. Len(u) < Len(s)
  BY <1>2, <1>3, <1>6
<1>9. q \in ReaderType /\ q.buffer = u /\ q.verdict = r.verdict /\ q.events = r.events
  BY <1>6 DEF ReaderType
<1> HIDE DEF q
<1>10. /\ NextLine(r) \in ReaderType /\ NextLine(r).buffer = u
       /\ NextLine(r).verdict = Apply(r.verdict, t)
       /\ NextLine(r).events = r.events \o Events(t)
  BY ZenonT(60), <1>4, <1>7, <1>9, ConsumedFacts
<1>11. QED
  BY <1>7, <1>8, <1>10 DEF s, e, t, u

\* What leaves the front of a sequence does not depend on what follows it.
LEMMA SuffixConcat ==
  ASSUME NEW S, NEW x \in Seq(S), NEW y \in Seq(S), NEW e \in 0 .. Len(x)
  PROVE  SubSeq(x \o y, e + 1, Len(x \o y)) = SubSeq(x, e + 1, Len(x)) \o y
<1> DEFINE z == x \o y
           u == SubSeq(z, e + 1, Len(z))
           w == SubSeq(x, e + 1, Len(x))
           a == w \o y
<1>1. z \in Seq(S) /\ Len(z) = Len(x) + Len(y) /\ Len(x) \in Nat /\ Len(y) \in Nat /\ e \in Nat /\ e <= Len(x)
  OBVIOUS
<1>2. \A i \in 1 .. Len(x) : z[i] = x[i]
  OBVIOUS
<1>3. \A i \in 1 .. Len(y) : z[Len(x) + i] = y[i]
  OBVIOUS
<1>4. w \in Seq(S) /\ Len(w) = Len(x) - e /\ \A i \in 1 .. Len(x) - e : w[i] = x[e + i]
  BY SuffixFacts
<1> HIDE DEF z
<1>5. e \in 0 .. Len(z)
  BY <1>1
<1>6. u \in Seq(S) /\ Len(u) = Len(z) - e /\ \A i \in 1 .. Len(z) - e : u[i] = z[e + i]
  BY <1>1, <1>5, SuffixFacts
<1> HIDE DEF u, w
<1>7. a \in Seq(S) /\ Len(a) = Len(w) + Len(y) /\ (\A i \in 1 .. Len(w) : a[i] = w[i])
  <2>1. w \in Seq(S) /\ y \in Seq(S)
    BY <1>4
  <2>2. QED
    BY <2>1
<1>8. \A i \in 1 .. Len(y) : a[Len(w) + i] = y[i]
  <2>1. w \in Seq(S) /\ y \in Seq(S)
    BY <1>4
  <2>2. QED
    BY <2>1
<1> HIDE DEF a
<1>9. Len(a) = Len(u)
  BY <1>1, <1>4, <1>6, <1>7
<1>10. ASSUME NEW i \in 1 .. Len(u)
       PROVE  u[i] = a[i]
  <2>1. i \in 1 .. Len(z) - e /\ i \in Nat
    BY <1>1, <1>6
  <2>2. CASE i <= Len(x) - e
    <3>1. i \in 1 .. Len(x) - e /\ e + i \in 1 .. Len(x)
      BY <1>1, <2>1, <2>2
    <3>2. QED
      BY <1>2, <1>4, <1>6, <1>7, <2>1, <3>1
  <2>3. CASE ~ (i <= Len(x) - e)
    <3> DEFINE j == i - (Len(x) - e)
    <3>1. j \in 1 .. Len(y) /\ e + i = Len(x) + j /\ i = Len(w) + j
      BY <1>1, <1>4, <1>6, <2>1, <2>3
    <3> HIDE DEF j
    <3>2. u[i] = y[j]
      BY <1>3, <1>6, <2>1, <3>1
    <3>3. a[i] = y[j]
      BY <1>8, <3>1
    <3>4. QED
      BY <3>2, <3>3
  <2>4. QED
    BY <2>2, <2>3
<1>11. u = a
  BY <1>6, <1>7, <1>9, <1>10, SeqEqual
<1>12. QED
  BY <1>11 DEF u, a, w, z

\* A line that leaves the reader is the next line of the output.
LEMMA NextLineHeard ==
  ASSUME NEW out \in Seq(Lines), Distinct(out), NEW ended \in BOOLEAN, NEW d, NEW b,
         NEW r \in ReaderType, HasLine(r.buffer), NEW rest \in Seq(Byte),
         Midway(r, rest, out, ended, d, b)
  PROVE  Midway(NextLine(r), rest, out, ended, d + 1, 0)
<1> DEFINE x == r.buffer
           s == x \o rest
           e == LineEnd(x)
           t == SubSeq(x, 1, e - 1)
           u == SubSeq(x, e + 1, Len(x))
           l == out[d + 1]
           f == (Size[l] - b) + 1
           N == Len(out)
<1>1. x \in Seq(Byte) /\ r.verdict \in Verdicts /\ r.events \in Seq(EventType)
  BY DEF ReaderType
<1>2. s \in Seq(Byte) /\ Len(s) = Len(x) + Len(rest) /\ Len(x) \in Nat /\ Len(rest) \in Nat
  BY <1>1
<1>3. \A i \in 1 .. Len(x) : s[i] = x[i]
  BY <1>1
<1>4. e \in 1 .. Len(x) /\ x[e] = Newline /\ \A j \in 1 .. e - 1 : x[j] # Newline
  BY <1>1, EndFacts
<1>5. /\ Place(out, d, b) /\ Left(s, out, ended, d, b) /\ Heard(r.events, r.verdict, out, d)
  BY DEF Midway
<1>6. d \in 0 .. N /\ b \in Nat /\ N \in Nat
  BY <1>5 DEF Place
<1>7. /\ NextLine(r) \in ReaderType
      /\ NextLine(r).buffer = u
      /\ IsText(t)
      /\ NextLine(r).verdict = Apply(r.verdict, t)
      /\ NextLine(r).events = r.events \o Events(t)
  BY NextLineFacts
<1>8. SubSeq(s, e + 1, Len(s)) = u \o rest
  <2> HIDE DEF e
  <2>1. e \in 0 .. Len(x)
    BY <1>2, <1>4
  <2>2. QED
    BY <1>1, <2>1, SuffixConcat
<1>9. t \in Seq(Byte) /\ Len(t) = e - 1 /\ DOMAIN t = 1 .. e - 1 /\ \A i \in 1 .. e - 1 : t[i] = x[i]
  <2> HIDE DEF e, x
  <2>1. e - 1 \in 0 .. Len(x)
    BY <1>2, <1>4
  <2>2. QED
    BY <1>1, <2>1, PrefixFacts
<1> HIDE DEF s, e, t, u, x, f
<1>10. d < N
  <2>1. SUFFICES ASSUME d = N
                 PROVE  FALSE
    BY <1>6
  <2>2. s = <<>>
    BY <1>2, <1>5, <2>1, Ahead
  <2>3. Len(s) = 0
    BY <2>2
  <2>4. Len(x) = 0
    <3>1. Len(s) = Len(x) + Len(rest) /\ Len(x) \in Nat /\ Len(rest) \in Nat
      BY <1>2
    <3>2. \A m, n \in Nat : m + n = 0 => m = 0
      OBVIOUS
    <3>3. QED
      BY <2>3, <3>1, <3>2, Zenon
  <2>5. QED
    BY <1>4, <2>4
<1>11. /\ f \in Nat \ {0} /\ f - 1 <= Len(s)
       /\ \A i \in 1 .. f - 1 : s[i].line = l /\ s[i].at = b + i /\ s[i] # Newline
       /\ f <= Len(s) => s[f] = Newline /\ Left(SubSeq(s, f + 1, Len(s)), out, ended, d + 1, 0)
  <2>1. Place(out, d, b) /\ s \in Seq(Byte) /\ Left(s, out, ended, d, b) /\ d < Len(out)
    BY <1>2, <1>5, <1>10
  <2> HIDE DEF N, l
  <2>2. QED
    BY <2>1, Ahead DEF f, l
<1>12. e = f
  <2>1. e \in Nat /\ e <= Len(x) /\ s[e] = Newline /\ e >= 1
    BY <1>2, <1>3, <1>4
  <2>2. ~ (e < f)
    <3>1. SUFFICES ASSUME e < f
                   PROVE  FALSE
      OBVIOUS
    <3>2. e \in 1 .. f - 1
      BY <1>11, <2>1, <3>1
    <3>3. QED
      BY <1>11, <2>1, <3>2
  <2>3. ~ (f < e)
    <3>1. SUFFICES ASSUME f < e
                   PROVE  FALSE
      OBVIOUS
    <3>2. f \in 1 .. e - 1 /\ f \in 1 .. Len(x) /\ f <= Len(s)
      BY <1>2, <1>11, <2>1, <3>1
    <3>3. QED
      BY <1>3, <1>4, <1>11, <3>2
  <2>4. QED
    BY <1>11, <2>1, <2>2, <2>3
<1>13. Left(u \o rest, out, ended, d + 1, 0)
  <2>1. f <= Len(s)
    BY <1>2, <1>4, <1>12
  <2>2. QED
    BY <1>8, <1>11, <1>12, <2>1
<1>14. l \in Lines /\ Size[l] \in Nat \ {0}
  <2>1. d + 1 \in 1 .. N
    BY <1>6, <1>10
  <2>2. QED
    BY <2>1, LineBytesFacts
<1>15. IsRest(t, l, b)
  <2>1. b <= Size[l]
    BY <1>5, <1>6, <1>14 DEF Place
  <2>2. Len(t) = Size[l] - b
    BY <1>6, <1>9, <1>12, <1>14 DEF f
  <2>3. ASSUME NEW i \in DOMAIN t
        PROVE  t[i].line = l /\ t[i].at = b + i
    <3>1. i \in 1 .. e - 1 /\ i \in 1 .. f - 1 /\ i \in 1 .. Len(x)
      BY <1>2, <1>4, <1>9, <1>12, <2>3
    <3>2. QED
      BY <1>3, <1>9, <1>11, <3>1
  <2>4. QED
    BY <1>6, <1>7, <2>1, <2>2, <2>3 DEF IsRest
<1>16. b > 0 => ~Small(l)
  BY <1>5 DEF Place
<1>17. Heard(r.events \o Events(t), Apply(r.verdict, t), out, d + 1)
  BY <1>1, <1>5, <1>6, <1>10, <1>15, <1>16, HeardLine
<1>18. Place(out, d + 1, 0)
  BY <1>6, <1>10 DEF Place
<1>19. QED
  BY <1>7, <1>13, <1>17, <1>18 DEF Midway

OneMore(r) == IF HasLine(r.buffer) THEN NextLine(r) ELSE r

\* One more turn of the loop gives a reader.
LEMMA OneMoreType ==
  ASSUME NEW r \in ReaderType
  PROVE  OneMore(r) \in ReaderType
  BY NextLineFacts DEF OneMore

\* The recursive definition of Loop has a solution.
LEMMA LoopDefined ==
  ASSUME NEW r \in ReaderType
  PROVE  /\ Loop(r) \in [0 .. Len(r.buffer) -> ReaderType]
         /\ Loop(r)[0] = r
         /\ \A n \in 1 .. Len(r.buffer) : Loop(r)[n] = OneMore(Loop(r)[n - 1])
<1> DEFINE N == Len(r.buffer)
           f == [n \in 1 .. N |-> [q \in ReaderType |-> OneMore(q)]]
<1>1. N \in Nat
  BY DEF ReaderType
<1> HIDE DEF N
<1>2. f \in [1 .. N -> [ReaderType -> ReaderType]]
  BY OneMoreType
<1>3. PICK g : Iteration(g, f, r, N, ReaderType)
  <2> HIDE DEF f
  <2>1. QED
    BY <1>1, <1>2, Iterates
<1>4. g \in [0 .. N -> ReaderType] /\ g[0] = r /\ \A n \in 1 .. N : g[n] = f[n][g[n - 1]]
  BY <1>3 DEF Iteration
<1>5. ASSUME NEW n \in 1 .. N
      PROVE  g[n] = OneMore(g[n - 1])
  <2>1. n - 1 \in 0 .. N
    BY <1>1
  <2>2. g[n - 1] \in ReaderType
    BY <1>4, <2>1
  <2>3. QED
    BY <1>4, <2>2
<1> DEFINE Solves(h) == h = [n \in 0 .. N |-> IF n = 0 THEN r ELSE OneMore(h[n - 1])]
           L == Loop(r)
<1>6. Solves(g)
  <2>1. \A n \in 0 .. N : g[n] = IF n = 0 THEN r ELSE OneMore(g[n - 1])
    <3>1. \A n \in 0 .. N : n # 0 => n \in 1 .. N
      BY <1>1
    <3>2. QED
      BY <1>4, <1>5, <3>1
  <2> DEFINE e(n) == IF n = 0 THEN r ELSE OneMore(g[n - 1])
  <2>2. \A n \in 0 .. N : g[n] = e(n)
    BY <2>1
  <2> HIDE DEF e
  <2>3. g = [n \in 0 .. N |-> e(n)]
    BY <1>4, <2>2
  <2>4. QED
    BY <2>3 DEF e
<1>7. L = CHOOSE h : Solves(h)
  BY DEF Loop, OneMore, N
<1>8. Solves(L)
  <2> HIDE DEF Solves, L
  <2>1. QED
    BY <1>6, <1>7
<1> HIDE DEF L
<1>9. L = [n \in 0 .. N |-> IF n = 0 THEN r ELSE OneMore(L[n - 1])]
  BY <1>8
<1>10. L[0] = r
  <2>1. 0 \in 0 .. N
    BY <1>1
  <2>2. QED
    BY <1>9, <2>1
<1>11. ASSUME NEW n \in 1 .. N
       PROVE  L[n] = OneMore(L[n - 1])
  <2>1. n \in 0 .. N /\ n # 0
    BY <1>1
  <2>2. QED
    BY <1>9, <2>1
<1>12. L \in [0 .. N -> ReaderType]
  <2> DEFINE T == {n \in 0 .. N : L[n] \in ReaderType}
  <2>1. 0 \in T
    BY <1>1, <1>10
  <2>2. ASSUME NEW n \in 0 .. N, n \in T, n < N
        PROVE  n + 1 \in T
    <3>1. n + 1 \in 1 .. N /\ n + 1 \in 0 .. N /\ (n + 1) - 1 = n
      BY <1>1, <2>2
    <3>2. L[n + 1] = OneMore(L[n]) /\ L[n] \in ReaderType
      BY <1>11, <2>2, <3>1
    <3>3. QED
      BY <3>1, <3>2, OneMoreType
  <2>3. 0 .. N \subseteq T
    <3> HIDE DEF T
    <3>1. QED
      BY <1>1, <2>1, <2>2, InductionTo
  <2>4. \A n \in 0 .. N : L[n] \in ReaderType
    BY <2>3
  <2>5. L = [n \in 0 .. N |-> L[n]]
    <3> DEFINE e(n) == IF n = 0 THEN r ELSE OneMore(L[n - 1])
    <3>1. L = [n \in 0 .. N |-> e(n)]
      BY <1>9
    <3> HIDE DEF e
    <3>2. QED
      BY <3>1
  <2>6. QED
    BY <2>4, <2>5
<1>13. QED
  BY <1>10, <1>11, <1>12 DEF L, N

\* One more turn of the loop keeps the place in the output.
LEMMA OneMoreProgress ==
  ASSUME NEW out \in Seq(Lines), Distinct(out), NEW ended \in BOOLEAN,
         NEW r \in ReaderType, NEW rest \in Seq(Byte), Progress(r, rest, out, ended)
  PROVE  Progress(OneMore(r), rest, out, ended)
<1>1. PICK d \in 0 .. Len(out), b \in Nat : Midway(r, rest, out, ended, d, b)
  BY DEF Progress
<1>2. CASE HasLine(r.buffer)
  <2>1. Midway(NextLine(r), rest, out, ended, d + 1, 0)
    BY <1>1, <1>2, NextLineHeard
  <2>2. d + 1 \in 0 .. Len(out) /\ 0 \in Nat
    BY <2>1 DEF Midway, Place
  <2>3. QED
    BY <1>2, <2>1, <2>2 DEF Progress, OneMore
<1>3. CASE ~ HasLine(r.buffer)
  BY <1>3 DEF OneMore
<1>4. QED
  BY <1>2, <1>3

\* The loop ends when no line is left: each takes a byte with it at least.
LEMMA LoopEnds ==
  ASSUME NEW r \in ReaderType
  PROVE  /\ Loop(r)[Len(r.buffer)] \in ReaderType
         /\ ~ HasLine(Loop(r)[Len(r.buffer)].buffer)
<1> DEFINE N == Len(r.buffer)
           L == Loop(r)
           T == {n \in 0 .. N : HasLine(L[n].buffer) => Len(L[n].buffer) + n <= N}
<1>1. N \in Nat
  BY DEF ReaderType
<1>2. /\ L \in [0 .. N -> ReaderType] /\ L[0] = r
      /\ \A n \in 1 .. N : L[n] = OneMore(L[n - 1])
  BY LoopDefined
<1>3. 0 \in T
  <2>1. Len(L[0].buffer) + 0 <= N
    BY <1>1, <1>2
  <2> HIDE DEF L, N
  <2>2. QED
    BY <1>1, <2>1
<1> HIDE DEF L, N
<1>4. ASSUME NEW n \in 0 .. N, n \in T, n < N
      PROVE  n + 1 \in T
  <2>1. n + 1 \in 1 .. N /\ n + 1 \in 0 .. N /\ (n + 1) - 1 = n /\ n \in Nat
    BY <1>1, <1>4
  <2>2. L[n + 1] = OneMore(L[n]) /\ L[n] \in ReaderType /\ L[n + 1] \in ReaderType
    BY <1>2, <2>1
  <2>3. Len(L[n].buffer) \in Nat /\ Len(L[n + 1].buffer) \in Nat
    BY <2>2 DEF ReaderType
  <2>4. ASSUME HasLine(L[n + 1].buffer)
        PROVE  Len(L[n + 1].buffer) + (n + 1) <= N
    <3>1. HasLine(L[n].buffer)
      BY <2>2, <2>4 DEF OneMore
    <3>2. Len(L[n].buffer) + n <= N
      BY <1>4, <3>1
    <3>3. L[n + 1] = NextLine(L[n])
      BY <2>2, <3>1 DEF OneMore
    <3>4. Len(L[n + 1].buffer) < Len(L[n].buffer)
      BY <2>2, <3>1, <3>3, NextLineFacts
    <3>5. \A x, y, k, m \in Nat : x < y /\ y + k <= m => x + (k + 1) <= m
      OBVIOUS
    <3>6. QED
      BY <1>1, <2>1, <2>3, <3>2, <3>4, <3>5, Zenon
  <2>5. QED
    BY <2>1, <2>4
<1>5. 0 .. N \subseteq T
  <2> HIDE DEF T
  <2>1. QED
    BY <1>1, <1>3, <1>4, InductionTo
<1>6. N \in T /\ L[N] \in ReaderType
  BY <1>1, <1>2, <1>5
<1>7. ~ HasLine(L[N].buffer)
  <2>1. SUFFICES ASSUME HasLine(L[N].buffer)
                 PROVE  FALSE
    OBVIOUS
  <2>2. L[N].buffer \in Seq(Byte)
    BY <1>6 DEF ReaderType
  <2>3. Len(L[N].buffer) + N <= N
    BY <1>6, <2>1
  <2>4. Len(L[N].buffer) \in Nat /\ Len(L[N].buffer) # 0
    BY <2>1, <2>2 DEF HasLine
  <2>5. QED
    BY <1>1, <2>3, <2>4
<1>8. QED
  BY <1>6, <1>7 DEF L, N

\* The whole loop keeps the place in the output.
LEMMA LoopProgress ==
  ASSUME NEW out \in Seq(Lines), Distinct(out), NEW ended \in BOOLEAN,
         NEW r \in ReaderType, NEW rest \in Seq(Byte), Progress(r, rest, out, ended)
  PROVE  Progress(Loop(r)[Len(r.buffer)], rest, out, ended)
<1> DEFINE N == Len(r.buffer)
           L == Loop(r)
           T == {n \in 0 .. N : Progress(L[n], rest, out, ended)}
<1>1. N \in Nat
  BY DEF ReaderType
<1>2. /\ L \in [0 .. N -> ReaderType] /\ L[0] = r
      /\ \A n \in 1 .. N : L[n] = OneMore(L[n - 1])
  BY LoopDefined
<1> HIDE DEF L, N
<1>3. 0 \in T
  BY <1>1, <1>2
<1>4. ASSUME NEW n \in 0 .. N, n \in T, n < N
      PROVE  n + 1 \in T
  <2>1. n + 1 \in 1 .. N /\ n + 1 \in 0 .. N /\ (n + 1) - 1 = n
    BY <1>1, <1>4
  <2>2. L[n + 1] = OneMore(L[n]) /\ L[n] \in ReaderType /\ Progress(L[n], rest, out, ended)
    BY <1>2, <1>4, <2>1
  <2>3. QED
    BY <2>1, <2>2, OneMoreProgress
<1>5. 0 .. N \subseteq T
  <2> HIDE DEF T
  <2>1. QED
    BY <1>1, <1>3, <1>4, InductionTo
<1>6. QED
  BY <1>1, <1>5 DEF L, N

\* What is left above the limit is the beginning of a line above the limit.
LEMMA CutFacts ==
  ASSUME NEW r \in ReaderType, ~ HasLine(r.buffer)
  PROVE  /\ Cut(r) \in ReaderType /\ ~ HasLine(Cut(r).buffer)
         /\ \A out \in Seq(Lines), ended \in BOOLEAN, rest \in Seq(Byte) :
               Progress(r, rest, out, ended) => Progress(Cut(r), rest, out, ended)
<1> DEFINE x == r.buffer
           ev == Event("stderr", x)
           es == Append(r.events, ev)
<1>1. x \in Seq(Byte) /\ r.verdict \in Verdicts /\ r.events \in Seq(EventType)
  BY DEF ReaderType
<1>2. CASE ~ (Len(x) > Limit)
  <2>1. Cut(r) = r
    BY <1>2 DEF Cut
  <2>2. QED
    BY <2>1
<1>3. CASE Len(x) > Limit
  <2> DEFINE c == [r EXCEPT !.buffer = <<>>, !.events = es]
  <2>1. Cut(r) = c
    BY <1>3 DEF Cut
  <2>2. IsText(x)
    BY <1>1 DEF HasLine, IsText
  <2>3. Limit \in Nat /\ Len(x) \in Nat
    BY <1>1, TurnAssumption
  <2>4. x # <<>>
    BY <1>3, <2>3
  <2>5. ev \in EventType
    BY <1>1, <2>2, <2>4, TextTypes
  <2>6. es \in Seq(EventType)
    BY <1>1, <2>5
  <2>7. <<>> \in Seq(Byte) /\ ~ HasLine(<<>>)
    BY DEF HasLine
  <2> HIDE DEF es
  <2>8. c \in ReaderType /\ c.buffer = <<>> /\ c.verdict = r.verdict /\ c.events = es
    BY <1>1, <2>6, <2>7 DEF ReaderType
  <2> HIDE DEF c
  <2>9. ASSUME NEW out \in Seq(Lines), NEW ended \in BOOLEAN, NEW rest \in Seq(Byte),
               Progress(r, rest, out, ended)
        PROVE  Progress(c, rest, out, ended)
    <3>1. PICK d \in 0 .. Len(out), b \in Nat : Midway(r, rest, out, ended, d, b)
      BY <2>9 DEF Progress
    <3> DEFINE s == x \o rest
               N == Len(out)
               all == Bytes(out, ended)
               o == Offset(out, d)
    <3>2. s \in Seq(Byte) /\ Len(s) = Len(x) + Len(rest) /\ Len(rest) \in Nat
      BY <1>1
    <3>3. \A i \in 1 .. Len(x) : s[i] = x[i] /\ x[i] # Newline
      BY <1>1, <2>2 DEF IsText
    <3>4. \A i \in 1 .. Len(rest) : s[Len(x) + i] = rest[i]
      BY <1>1
    <3>5. Place(out, d, b) /\ Left(s, out, ended, d, b) /\ Heard(r.events, r.verdict, out, d)
      BY <3>1 DEF Midway
    <3> HIDE DEF s, x
    <3>6. d < N
      <4>1. SUFFICES ASSUME d = N
                     PROVE  FALSE
        BY <3>5 DEF Place
      <4>2. s = <<>>
        BY <3>2, <3>5, <4>1, Ahead
      <4>3. Len(s) = 0
        BY <4>2
      <4>4. \A m, n \in Nat : m + n = 0 => m = 0
        OBVIOUS
      <4>5. Len(x) = 0
        BY <2>3, <3>2, <4>3, <4>4, Zenon
      <4>6. QED
        BY <1>3, <2>3, <4>5
    <3> DEFINE l == out[d + 1]
               f == (Size[l] - b) + 1
    <3>7. /\ f \in Nat \ {0} /\ f - 1 <= Len(s)
          /\ f <= Len(s) => s[f] = Newline
      <4>1. Place(out, d, b) /\ s \in Seq(Byte) /\ Left(s, out, ended, d, b) /\ d < Len(out)
        BY <3>2, <3>5, <3>6
      <4> HIDE DEF N, l
      <4>2. QED
        BY <4>1, Ahead DEF f, l
    <3>8. l \in Lines /\ Size[l] \in Nat \ {0}
      <4>1. d + 1 \in 1 .. N
        BY <3>6
      <4>2. QED
        BY <4>1, LineBytesFacts
    <3>9. b \in Nat /\ d \in 0 .. N
      OBVIOUS
    <3>10. f = (Size[l] - b) + 1
      OBVIOUS
    <3> HIDE DEF l, f
    <3>11. Len(x) < f
      <4>1. SUFFICES ASSUME f <= Len(x)
                     PROVE  FALSE
        BY <2>3, <3>7
      <4>2. f \in 1 .. Len(x)
        BY <2>3, <3>7, <4>1
      <4>3. f <= Len(s)
        BY <2>3, <3>2, <3>7, <4>1
      <4>4. QED
        BY <3>3, <3>7, <4>2, <4>3
    <3>12. b + Len(x) <= Size[l] /\ b + Len(x) \in Nat
      BY <2>3, <3>8, <3>9, <3>10, <3>11
    <3>13. ~ Small(l)
      BY <1>3, <2>3, <3>8, <3>9, <3>12 DEF Small
    <3>14. Place(out, d, b + Len(x))
      BY <3>6, <3>9, <3>12, <3>13 DEF Place, l
    <3> DEFINE u == <<>> \o rest
    <3>15. Left(u, out, ended, d, b + Len(x))
      <4>1. u = rest
        OBVIOUS
      <4>2. DOMAIN rest = 1 .. Len(rest) /\ DOMAIN s = 1 .. Len(s)
        BY <3>2
      <4>3. o \in Nat /\ Len(s) + o + b = Len(all) /\ \A i \in DOMAIN s : Same(s[i], all[o + b + i])
        BY <3>5, Offsets DEF Left
      <4> HIDE DEF o, all, u
      <4>4. Len(rest) + o + (b + Len(x)) = Len(all)
        <5>1. Len(s) + o + b = Len(all) /\ o \in Nat
          BY <4>3
        <5>2. \A k, m, n, p \in Nat : k + p + (n + m) = (m + k) + p + n
          OBVIOUS
        <5>3. Len(rest) + o + (b + Len(x)) = (Len(x) + Len(rest)) + o + b
          BY <2>3, <3>2, <3>9, <5>1
        <5>4. QED
          BY <3>2, <5>1, <5>3, Zenon
      <4>5. ASSUME NEW i \in 1 .. Len(rest)
            PROVE  Same(rest[i], all[o + (b + Len(x)) + i])
        <5>1. Len(x) + i \in 1 .. Len(s) /\ o + (b + Len(x)) + i = o + b + (Len(x) + i)
          BY <2>3, <3>2, <3>9, <4>3
        <5>2. QED
          BY <3>4, <4>2, <4>3, <5>1
      <4>6. QED
        BY <4>1, <4>2, <4>4, <4>5 DEF Left, o, all
    <3>16. Heard(es, r.verdict, out, d)
      <4>1. <<ev>> \in Seq(EventType) /\ \A c1 \in DOMAIN <<ev>> : ~Out(<<ev>>[c1])
        BY <2>5 DEF Out, Event
      <4>2. es = r.events \o <<ev>>
        <5> HIDE DEF ev
        <5>1. QED
          BY <1>1, <2>5, AppendIsConcat DEF es
      <4> DEFINE q == <<ev>>
      <4> HIDE DEF q
      <4>3. Heard(r.events \o q, r.verdict, out, d)
        BY <1>1, <3>5, <4>1, HeardQuiet DEF q
      <4>4. QED
        BY <4>2, <4>3 DEF q
    <3>17. Midway(c, rest, out, ended, d, b + Len(x))
      BY <2>8, <3>14, <3>15, <3>16 DEF Midway
    <3>18. QED
      BY <3>12, <3>17 DEF Progress
  <2>10. QED
    BY <2>1, <2>7, <2>8, <2>9
<1>4. QED
  BY <1>2, <1>3

\* push leaves no line in the buffer, and loses its place never.
LEMMA PushFacts ==
  ASSUME NEW r \in ReaderType
  PROVE  /\ Push(r) \in ReaderType /\ ~ HasLine(Push(r).buffer)
         /\ \A out \in Seq(Lines), ended \in BOOLEAN, rest \in Seq(Byte) :
               Distinct(out) /\ Progress(r, rest, out, ended) => Progress(Push(r), rest, out, ended)
<1> DEFINE q == Loop(r)[Len(r.buffer)]
<1>1. q \in ReaderType /\ ~ HasLine(q.buffer)
  BY LoopEnds
<1>2. Push(r) = Cut(q)
  BY DEF Push
<1>3. ASSUME NEW out \in Seq(Lines), NEW ended \in BOOLEAN, NEW rest \in Seq(Byte),
             Distinct(out), Progress(r, rest, out, ended)
      PROVE  Progress(q, rest, out, ended)
  BY <1>3, LoopProgress
<1> HIDE DEF q
<1>4. QED
  BY <1>1, <1>2, <1>3, CutFacts

\* A chunk is decoded byte by byte.
LEMMA DecodeFacts ==
  ASSUME NEW s \in Seq(Byte)
  PROVE  /\ Decode(s) \in Seq(Byte) /\ Len(Decode(s)) = Len(s)
         /\ \A i \in 1 .. Len(s) : Same(Decode(s)[i], s[i])
<1>1. DOMAIN s = 1 .. Len(s) /\ Len(s) \in Nat /\ \A i \in 1 .. Len(s) : s[i] \in Byte
  OBVIOUS
<1> DEFINE good(i) ==
             LET b == s[i]
                 w == IF b = Newline THEN 0 ELSE Wide[b.line]
             IN  ~ \/ w # 0 /\ b.at = w /\ i = Len(s)
                   \/ w # 0 /\ b.at = w + 1 /\ i = 1
           t == [i \in 1 .. Len(s) |-> [s[i] EXCEPT !.good = good(i)]]
<1>2. Decode(s) = t
  BY <1>1 DEF Decode
<1>3. ASSUME NEW i \in 1 .. Len(s)
      PROVE  t[i] \in Byte /\ Same(t[i], s[i])
  <2>1. good(i) \in BOOLEAN /\ s[i] \in Byte /\ t[i] = [s[i] EXCEPT !.good = good(i)]
    BY <1>1
  <2>2. CASE s[i] = Newline
    <3>1. good(i) = TRUE
      BY <2>2
    <3>2. t[i] = Newline
      <4>1. t[i] = [Newline EXCEPT !.good = TRUE]
        BY <2>1, <2>2, <3>1
      <4> HIDE DEF good, t
      <4>2. QED
        BY <4>1 DEF Newline
    <3>3. QED
      BY <2>2, <3>2 DEF Same, Byte
  <2>3. CASE s[i] # Newline
    <3>1. s[i] \in [line : Lines, at : Nat, good : BOOLEAN]
      BY <2>1, <2>3 DEF Byte
    <3> HIDE DEF good, t
    <3>2. t[i] \in [line : Lines, at : Nat, good : BOOLEAN] /\ t[i].line = s[i].line /\ t[i].at = s[i].at
      BY <2>1, <3>1
    <3>3. t[i] # Newline
      BY <3>2, TurnAssumption DEF Newline
    <3>4. QED
      BY <2>3, <3>2, <3>3 DEF Same, Byte
  <2>4. QED
    BY <2>2, <2>3
<1>4. t \in Seq(Byte) /\ Len(t) = Len(s)
  <2> HIDE DEF t
  <2>1. t = [i \in 1 .. Len(s) |-> t[i]]
    BY DEF t
  <2>2. QED
    BY <1>1, <1>3, <2>1
<1>5. QED
  BY <1>2, <1>3, <1>4

\* Two sequences behind each other.
LEMMA ConcatFacts ==
  ASSUME NEW S, NEW x \in Seq(S), NEW y \in Seq(S)
  PROVE  /\ x \o y \in Seq(S) /\ Len(x \o y) = Len(x) + Len(y)
         /\ \A i \in 1 .. Len(x) : (x \o y)[i] = x[i]
         /\ \A i \in 1 .. Len(y) : (x \o y)[Len(x) + i] = y[i]
  OBVIOUS

\* The place in an output does not depend on how its characters were decoded.
LEMMA LeftSame ==
  ASSUME NEW out \in Seq(Lines), NEW ended \in BOOLEAN, NEW d, NEW b,
         NEW s \in Seq(Byte), Left(s, out, ended, d, b),
         NEW u \in Seq(Byte), Len(u) = Len(s), \A i \in 1 .. Len(s) : Same(u[i], s[i])
  PROVE  Left(u, out, ended, d, b)
<1>1. DOMAIN s = 1 .. Len(s) /\ DOMAIN u = 1 .. Len(s)
  OBVIOUS
<1>2. QED
  BY <1>1 DEF Left, Same

\* A chunk moves from what is unread to the buffer.
LEMMA ReadOn ==
  ASSUME NEW out \in Seq(Lines), NEW ended \in BOOLEAN, NEW r \in ReaderType,
         NEW y \in Seq(Byte), NEW n \in 0 .. Len(y), Progress(r, y, out, ended),
         NEW q, q = [r EXCEPT !.buffer = @ \o Decode(SubSeq(y, 1, n))]
  PROVE  q \in ReaderType /\ Progress(q, SubSeq(y, n + 1, Len(y)), out, ended)
<1> DEFINE x == r.buffer
           h == SubSeq(y, 1, n)
           c == Decode(h)
           t == SubSeq(y, n + 1, Len(y))
           s == x \o y
           xc == x \o c
           u == xc \o t
<1>1. x \in Seq(Byte) /\ r.verdict \in Verdicts /\ r.events \in Seq(EventType)
  BY DEF ReaderType
<1>2. h \in Seq(Byte) /\ Len(h) = n /\ \A i \in 1 .. n : h[i] = y[i]
  BY PrefixFacts
<1>3. t \in Seq(Byte) /\ Len(t) = Len(y) - n /\ \A i \in 1 .. Len(y) - n : t[i] = y[n + i]
  BY SuffixFacts
<1> HIDE DEF h, t
<1>4. c \in Seq(Byte) /\ Len(c) = n /\ \A i \in 1 .. n : Same(c[i], y[i])
  <2>1. c \in Seq(Byte) /\ Len(c) = Len(h) /\ \A i \in 1 .. Len(h) : Same(c[i], h[i])
    BY <1>2, DecodeFacts
  <2> HIDE DEF c
  <2>2. QED
    BY <1>2, <2>1
<1>5. n \in Nat /\ n <= Len(y) /\ Len(y) \in Nat /\ Len(x) \in Nat
  BY <1>1
<1>6. q = [r EXCEPT !.buffer = xc]
  BY DEF c, h
<1> HIDE DEF c, x
<1>7. xc \in Seq(Byte) /\ Len(xc) = Len(x) + n
  BY <1>1, <1>4, ConcatFacts
<1>8. \A i \in 1 .. Len(x) : xc[i] = x[i]
  BY <1>1, <1>4, ConcatFacts
<1>9. \A i \in 1 .. n : xc[Len(x) + i] = c[i]
  BY <1>1, <1>4, ConcatFacts
<1>10. s \in Seq(Byte) /\ Len(s) = Len(x) + Len(y)
  BY <1>1
<1>11. \A i \in 1 .. Len(x) : s[i] = x[i]
  BY <1>1
<1>12. \A i \in 1 .. Len(y) : s[Len(x) + i] = y[i]
  BY <1>1
<1> HIDE DEF xc, s
<1>13. u \in Seq(Byte) /\ Len(u) = Len(xc) + Len(t)
  BY <1>3, <1>7, ConcatFacts
<1>14. \A i \in 1 .. Len(xc) : u[i] = xc[i]
  BY <1>3, <1>7, ConcatFacts
<1>15. \A i \in 1 .. Len(t) : u[Len(xc) + i] = t[i]
  BY SMTT(30), <1>3, <1>7, ConcatFacts
<1> HIDE DEF u
<1>16. Len(u) = Len(s)
  BY <1>3, <1>5, <1>7, <1>10, <1>13
<1>17. ASSUME NEW i \in 1 .. Len(s)
       PROVE  Same(u[i], s[i])
  <2>0. i \in Nat /\ i >= 1 /\ i <= Len(x) + Len(y)
    BY <1>5, <1>10
  <2>1. CASE i <= Len(x)
    <3>1. i \in 1 .. Len(x) /\ i \in 1 .. Len(xc)
      BY <1>5, <1>7, <2>0, <2>1
    <3>2. u[i] = s[i]
      BY <1>8, <1>11, <1>14, <3>1
    <3>3. QED
      BY <3>2 DEF Same
  <2>2. CASE Len(x) < i /\ i <= Len(x) + n
    <3> DEFINE j == i - Len(x)
    <3>1. j \in 1 .. n /\ j \in 1 .. Len(y) /\ i = Len(x) + j /\ i \in 1 .. Len(xc)
      BY <1>5, <1>7, <2>0, <2>2
    <3> HIDE DEF j
    <3>2. u[i] = c[j] /\ s[i] = y[j]
      BY <1>9, <1>12, <1>14, <3>1
    <3>3. QED
      BY <1>4, <3>1, <3>2
  <2>3. CASE Len(x) + n < i
    <3> DEFINE j == i - (Len(x) + n)
    <3>1. j \in 1 .. Len(y) - n /\ i = Len(x) + n + j /\ n + j \in 1 .. Len(y) /\ i = Len(x) + (n + j)
      BY <1>5, <2>0, <2>3
    <3> HIDE DEF j
    <3>2. j \in 1 .. Len(t) /\ i = Len(xc) + j
      BY <1>3, <1>7, <3>1
    <3>3. u[i] = t[j] /\ t[j] = y[n + j] /\ s[i] = y[n + j]
      BY <1>3, <1>12, <1>15, <3>1, <3>2
    <3>4. QED
      BY <3>3 DEF Same
  <2>4. QED
    BY <1>5, <2>0, <2>1, <2>2, <2>3
<1>18. q \in ReaderType /\ q.buffer = xc /\ q.verdict = r.verdict /\ q.events = r.events
  BY <1>6, <1>7 DEF ReaderType
<1>19. PICK d \in 0 .. Len(out), b \in Nat : Midway(r, y, out, ended, d, b)
  BY DEF Progress
<1>20. Place(out, d, b) /\ Left(s, out, ended, d, b) /\ Heard(r.events, r.verdict, out, d)
  BY <1>19 DEF Midway, s, x
<1>21. Left(u, out, ended, d, b)
  BY <1>10, <1>13, <1>16, <1>17, <1>20, LeftSame
<1>22. Midway(q, t, out, ended, d, b)
  BY <1>18, <1>20, <1>21 DEF Midway, u
<1>23. Progress(q, t, out, ended)
  BY <1>22 DEF Progress
<1>24. QED
  BY <1>18, <1>23 DEF t

\* The rest of the buffer is the rest of a line or a part of it; when nothing is
\* unread, the output has been heard to its end.
LEMMA CloseHeard ==
  ASSUME NEW out \in Seq(Lines), Distinct(out), NEW ended \in BOOLEAN, NEW r \in ReaderType,
         ~ HasLine(r.buffer), NEW y \in Seq(Byte), Progress(r, y, out, ended)
  PROVE  LET es == r.events \o Events(r.buffer)
             v == Apply(r.verdict, r.buffer)
         IN  /\ \E d \in 0 .. Len(out) : Heard(es, v, out, d)
             /\ y = <<>> => Heard(es, v, out, Len(out))
<1> DEFINE x == r.buffer
           s == x \o y
           es == r.events \o Events(x)
           v == Apply(r.verdict, x)
           N == Len(out)
<1>1. x \in Seq(Byte) /\ r.verdict \in Verdicts /\ r.events \in Seq(EventType)
  BY DEF ReaderType
<1>2. IsText(x)
  BY <1>1 DEF IsText, HasLine
<1>3. PICK d \in 0 .. N, b \in Nat : Midway(r, y, out, ended, d, b)
  BY DEF Progress
<1>4. Place(out, d, b) /\ Left(s, out, ended, d, b) /\ Heard(r.events, r.verdict, out, d)
  BY <1>3 DEF Midway
<1>5. s \in Seq(Byte) /\ Len(s) = Len(x) + Len(y) /\ Len(x) \in Nat /\ Len(y) \in Nat
  BY <1>1
<1>6. \A i \in 1 .. Len(x) : s[i] = x[i]
  BY <1>1
<1>7. y = <<>> => Len(y) = 0
  OBVIOUS
<1> HIDE DEF s
<1>8. CASE d = N
  <2>1. s = <<>>
    BY <1>4, <1>5, <1>8, Ahead
  <2>2. Len(s) = 0
    BY <2>1
  <2>3. \A m, n \in Nat : m + n = 0 => m = 0
    OBVIOUS
  <2>4. Len(x) = 0
    BY <1>5, <2>2, <2>3, Zenon
  <2>5. x = <<>>
    BY <1>1, <2>4
  <2>6. ~ IsRecord(x)
    BY <2>5 DEF IsRecord
  <2> HIDE DEF x
  <2>7. Heard(r.events \o Events(x), Apply(r.verdict, x), out, d)
    BY <1>1, <1>2, <1>4, <2>6, HeardPart
  <2>8. QED
    BY <1>8, <2>7 DEF x
<1>9. CASE d < N
  <2> DEFINE l == out[d + 1]
             f == (Size[l] - b) + 1
  <2>1. /\ f \in Nat \ {0} /\ f - 1 <= Len(s)
        /\ \A i \in 1 .. f - 1 : s[i].line = l /\ s[i].at = b + i /\ s[i] # Newline
        /\ f <= Len(s) => s[f] = Newline
        /\ d + 1 < N => f <= Len(s)
    <3>1. Place(out, d, b) /\ s \in Seq(Byte) /\ Left(s, out, ended, d, b) /\ d < Len(out)
      BY <1>4, <1>5, <1>9
    <3> HIDE DEF l, x
    <3>2. QED
      BY <3>1, Ahead DEF f, l
  <2>2. d + 1 \in 1 .. N /\ d + 1 \in 0 .. N
    BY <1>9
  <2>3. l \in Lines /\ Size[l] \in Nat \ {0}
    BY <2>2, LineBytesFacts
  <2>4. b <= Size[l] /\ (b > 0 => ~Small(l))
    BY <1>4, <2>3 DEF Place
  <2> HIDE DEF l, x
  <2>5. Len(x) <= f - 1
    <3>1. SUFFICES ASSUME f <= Len(x)
                   PROVE  FALSE
      BY <1>5, <2>1
    <3>2. f \in 1 .. Len(x) /\ f <= Len(s)
      BY <1>5, <2>1, <3>1
    <3>3. x[f] = Newline
      BY <1>6, <2>1, <3>2
    <3>4. f \in DOMAIN x
      BY <1>1, <3>2
    <3>5. QED
      BY <1>2, <3>3, <3>4 DEF IsText
  <2>6. \A i \in DOMAIN x : x[i].line = l /\ x[i].at = b + i
    <3>1. ASSUME NEW i \in DOMAIN x
          PROVE  i \in 1 .. f - 1 /\ i \in 1 .. Len(x)
      BY <1>1, <1>5, <2>1, <2>5
    <3>2. QED
      BY <1>6, <2>1, <3>1
  <2>7. CASE Len(x) = f - 1
    <3>1. Len(x) = Size[l] - b
      BY <2>3, <2>7
    <3>2. IsRest(x, l, b)
      BY <1>2, <2>4, <2>6, <3>1 DEF IsRest
    <3>3. Heard(r.events \o Events(x), Apply(r.verdict, x), out, d + 1)
      BY <1>1, <1>4, <1>9, <2>4, <3>2, HeardLine DEF l
    <3>4. ASSUME y = <<>>
          PROVE  d + 1 = N
      <4>1. Len(s) = f - 1
        BY <1>5, <1>7, <2>7, <3>4
      <4>2. ~ (f <= Len(s))
        BY <2>1, <4>1
      <4>3. QED
        BY <2>1, <2>2, <4>2
    <3>5. QED
      BY <2>2, <3>3, <3>4 DEF x
  <2>8. CASE Len(x) < f - 1
    <3>1. ~ IsRecord(x)
      <4>1. SUFFICES ASSUME x # <<>>, IsRecord(x)
                     PROVE  FALSE
        BY DEF IsRecord
      <4>2. 1 \in DOMAIN x
        BY <1>1, <4>1
      <4>3. x[1].line = l /\ x[1].at = b + 1 /\ x[1].at = 1 /\ Len(x) = Size[l]
        BY <2>6, <4>1, <4>2 DEF IsRecord
      <4>4. QED
        BY <1>5, <2>3, <2>8, <4>3
    <3>2. Heard(r.events \o Events(x), Apply(r.verdict, x), out, d)
      BY <1>1, <1>2, <1>4, <3>1, HeardPart
    <3>3. y # <<>>
      <4>1. SUFFICES ASSUME y = <<>>
                     PROVE  FALSE
        OBVIOUS
      <4>2. Len(s) = Len(x)
        BY <1>5, <1>7, <4>1
      <4>3. QED
        BY <1>5, <2>1, <2>8, <4>2
    <3>4. QED
      BY <3>2, <3>3 DEF x
  <2>9. QED
    BY <1>5, <2>1, <2>5, <2>7, <2>8
<1>10. QED
  BY <1>3, <1>8, <1>9

\* Events are only ever added to a record.
Longer(es, fs) == Len(es) <= Len(fs) /\ \A i \in 1 .. Len(es) : fs[i] = es[i]

\* A record that events are added to is longer.
LEMMA LongerConcat ==
  ASSUME NEW es \in Seq(EventType), NEW q \in Seq(EventType)
  PROVE  Longer(es, es \o q)
<1>1. Len(es) \in Nat /\ Len(q) \in Nat
  OBVIOUS
<1>2. Len(es \o q) = Len(es) + Len(q) /\ \A i \in 1 .. Len(es) : (es \o q)[i] = es[i]
  BY ConcatFacts
<1>3. QED
  BY <1>1, <1>2 DEF Longer

\* Longer is transitive.
LEMMA LongerTwice ==
  ASSUME NEW es \in Seq(EventType), NEW fs \in Seq(EventType), NEW gs \in Seq(EventType),
         Longer(es, fs), Longer(fs, gs)
  PROVE  Longer(es, gs)
<1>1. Len(es) \in Nat /\ Len(fs) \in Nat /\ Len(gs) \in Nat /\ Len(es) <= Len(fs) /\ Len(fs) <= Len(gs)
  BY DEF Longer
<1>2. \A i \in 1 .. Len(es) : i \in 1 .. Len(fs)
  BY <1>1
<1>3. QED
  BY <1>1, <1>2 DEF Longer

\* push only adds events to the record.
LEMMA PushLonger ==
  ASSUME NEW r \in ReaderType
  PROVE  Longer(r.events, Push(r).events)
<1> DEFINE N == Len(r.buffer)
           L == Loop(r)
           T == {n \in 0 .. N : Longer(r.events, L[n].events)}
<1>1. N \in Nat /\ r.events \in Seq(EventType)
  BY DEF ReaderType
<1>2. /\ L \in [0 .. N -> ReaderType] /\ L[0] = r
      /\ \A n \in 1 .. N : L[n] = OneMore(L[n - 1])
  BY LoopDefined
<1> HIDE DEF L, N
<1>3. 0 \in T
  <2>1. Len(r.events) \in Nat
    BY <1>1
  <2>2. QED
    BY <1>1, <1>2, <2>1 DEF Longer
<1>4. ASSUME NEW n \in 0 .. N, n \in T, n < N
      PROVE  n + 1 \in T
  <2>1. n + 1 \in 1 .. N /\ n + 1 \in 0 .. N /\ (n + 1) - 1 = n
    BY <1>1, <1>4
  <2>2. L[n + 1] = OneMore(L[n]) /\ L[n] \in ReaderType /\ L[n + 1] \in ReaderType
    BY <1>2, <2>1
  <2>3. L[n].events \in Seq(EventType) /\ L[n + 1].events \in Seq(EventType) /\ L[n].verdict \in Verdicts
    BY <2>2 DEF ReaderType
  <2>4. Longer(r.events, L[n].events)
    BY <1>4
  <2>5. CASE HasLine(L[n].buffer)
    <3> DEFINE t == SubSeq(L[n].buffer, 1, LineEnd(L[n].buffer) - 1)
    <3>1. IsText(t) /\ L[n + 1].events = L[n].events \o Events(t)
      BY <2>2, <2>5, NextLineFacts DEF OneMore
    <3> HIDE DEF t
    <3>2. Events(t) \in Seq(EventType)
      BY <2>3, <3>1, TextTypes
    <3>3. Longer(L[n].events, L[n + 1].events)
      BY <2>3, <3>1, <3>2, LongerConcat
    <3>4. QED
      BY <1>1, <2>1, <2>3, <2>4, <3>3, LongerTwice
  <2>6. CASE ~ HasLine(L[n].buffer)
    BY <2>1, <2>2, <2>4, <2>6 DEF OneMore
  <2>7. QED
    BY <2>5, <2>6
<1>5. 0 .. N \subseteq T
  <2> HIDE DEF T
  <2>1. QED
    BY <1>1, <1>3, <1>4, InductionTo
<1>6. Longer(r.events, L[N].events) /\ L[N] \in ReaderType /\ ~ HasLine(L[N].buffer)
  <2>1. N \in T
    BY <1>1, <1>5
  <2>2. QED
    BY <2>1, LoopEnds DEF L, N
<1>7. Push(r) = Cut(L[N])
  BY DEF Push, L, N
<1> DEFINE q == L[N]
           ev == Event("stderr", q.buffer)
<1>8. q.events \in Seq(EventType) /\ q.buffer \in Seq(Byte) /\ q.verdict \in Verdicts
  BY <1>6 DEF ReaderType
<1>9. CASE Len(q.buffer) > Limit
  <2>1. Limit \in Nat /\ Len(q.buffer) \in Nat
    BY <1>8, TurnAssumption
  <2>2. IsText(q.buffer) /\ q.buffer # <<>>
    BY <1>6, <1>8, <1>9, <2>1 DEF IsText, HasLine
  <2>3. ev \in EventType
    BY <1>8, <2>2, TextTypes
  <2>4. Cut(q) = [q EXCEPT !.buffer = <<>>, !.events = Append(q.events, ev)]
    BY <1>9 DEF Cut
  <2> HIDE DEF ev, q
  <2>5. Append(q.events, ev) = q.events \o <<ev>> /\ <<ev>> \in Seq(EventType)
    BY <1>8, <2>3, AppendIsConcat
  <2>6. Longer(q.events, q.events \o <<ev>>) /\ q.events \o <<ev>> \in Seq(EventType)
    <3> DEFINE w == <<ev>>
    <3>1. w \in Seq(EventType)
      BY <2>5
    <3> HIDE DEF w
    <3>2. Longer(q.events, q.events \o w) /\ q.events \o w \in Seq(EventType)
      BY <1>8, <3>1, LongerConcat
    <3>3. QED
      BY <3>2 DEF w
  <2>7. Cut(q).events = q.events \o <<ev>>
    <3> DEFINE es == Append(q.events, ev)
    <3>1. Cut(q) = [q EXCEPT !.buffer = <<>>, !.events = es]
      BY <2>4
    <3>2. q \in ReaderType
      BY <1>6 DEF q
    <3> HIDE DEF es
    <3>3. Cut(q).events = es
      BY <3>1, <3>2 DEF ReaderType
    <3>4. QED
      BY <2>5, <3>3 DEF es
  <2>8. Longer(r.events, Cut(q).events)
    BY <1>1, <1>6, <1>8, <2>6, <2>7, LongerTwice DEF q
  <2>9. QED
    BY <1>7, <2>8 DEF q
<1>10. CASE ~ (Len(q.buffer) > Limit)
  <2>1. Cut(q) = q
    BY <1>10 DEF Cut
  <2>2. QED
    BY <1>6, <1>7, <2>1
<1>11. QED
  BY <1>9, <1>10

-----------------------------------------------------------------------------
(***************************************************************************)
(* The consumer.                                                           *)
(***************************************************************************)

\* What the consumer has kept stays true of a longer record.
LEMMA ToldLonger ==
  ASSUME NEW said, NEW es \in Seq(EventType), NEW fs \in Seq(EventType), Longer(es, fs),
         NEW n \in 0 .. Len(es), Told(said, es, n)
  PROVE  Told(said, fs, n) /\ n \in 0 .. Len(fs)
<1>1. Len(es) \in Nat /\ Len(fs) \in Nat /\ n \in Nat /\ n <= Len(es) /\ Len(es) <= Len(fs)
  BY DEF Longer
<1>2. \A c \in 1 .. n : fs[c] = es[c]
  BY <1>1 DEF Longer
<1>3. \A i \in DOMAIN said : \E c \in 1 .. n : Out(fs[c]) /\ fs[c].line = said[i].line
  BY <1>2 DEF Told
<1>4. \A c \in 1 .. n : Out(fs[c]) => \E i \in DOMAIN said : fs[c].line = said[i].line
  BY <1>2 DEF Told
<1>5. \A h, i \in DOMAIN said, a, c \in 1 .. n :
         /\ Out(fs[a]) /\ fs[a].line = said[h].line
         /\ Out(fs[c]) /\ fs[c].line = said[i].line
         /\ h < i
         => a < c
  BY <1>2 DEF Told
<1>6. QED
  BY <1>1, <1>3, <1>4, <1>5 DEF Told

\* Each event with text is heard of one line.
LEMMA HeardOnce ==
  ASSUME NEW es \in Seq(EventType), NEW v, NEW out \in Seq(Lines), NEW d \in 0 .. Len(out), Heard(es, v, out, d),
         NEW a \in DOMAIN es, NEW c \in DOMAIN es, Out(es[a]), Out(es[c]), es[a].line = es[c].line
  PROVE  a = c
<1>1. PICK i \in 1 .. d : es[a].line = out[i]
  BY DEF Heard
<1>2. es[c].line = out[i] /\ ~ (i < i)
  BY <1>1
<1>3. ~ (a < c) /\ ~ (c < a)
  BY <1>1, <1>2 DEF Heard
<1>4. a \in Nat /\ c \in Nat
  OBVIOUS
<1>5. QED
  BY <1>3, <1>4

Note == [line : Lines, good : BOOLEAN, at : Nat]

\* Sizes are numbers, and so are lengths.
LEMMA LengthType ==
  ASSUME NEW said \in Seq(Note)
  PROVE  Length(said) \in Nat
<1>1. CASE said = <<>>
  BY <1>1 DEF Length
<1>2. CASE said # <<>>
  <2>1. said[Len(said)] \in Note
    BY <1>2
  <2>2. QED
    BY <1>2, <2>1, TurnAssumption DEF Length, Note
<1>3. QED
  BY <1>1, <1>2

\* A text that is added begins where the last one ends.
LEMMA AdjoinsNext ==
  ASSUME NEW said \in Seq(Note), Adjoins(said), NEW m \in Note, m.at = Length(said)
  PROVE  Adjoins(Append(said, m))
<1> DEFINE t == Append(said, m)
           n == Len(said)
<1>1. n \in Nat /\ DOMAIN said = 1 .. n /\ DOMAIN t = 1 .. n + 1 /\ t[n + 1] = m
  OBVIOUS
<1>2. \A i \in 1 .. n : t[i] = said[i]
  OBVIOUS
<1>3. n = 0 <=> said = <<>>
  OBVIOUS
<1>4. m.at = IF n = 0 THEN 0 ELSE said[n].at + Size[said[n].line]
  BY <1>3 DEF Length
<1> HIDE DEF t, n
<1>5. SUFFICES ASSUME NEW i \in DOMAIN t
               PROVE  t[i].at = IF i = 1 THEN 0 ELSE t[i - 1].at + Size[t[i - 1].line]
  BY DEF Adjoins, t
<1>6. CASE i = n + 1
  <2>1. n # 0 => n \in 1 .. n
    BY <1>1
  <2>2. i - 1 = n /\ (i = 1 <=> n = 0)
    BY <1>1, <1>6
  <2>3. QED
    BY <1>1, <1>2, <1>4, <1>6, <2>1, <2>2
<1>7. CASE i # n + 1
  <2>1. i \in 1 .. n /\ (i # 1 => i - 1 \in 1 .. n)
    BY <1>1, <1>7
  <2>2. QED
    BY <1>1, <1>2, <2>1 DEF Adjoins
<1>8. QED
  BY <1>6, <1>7

\* What is stored of a text is a beginning of it, which reaches the limit unless
\* it is all of it.
LEMMA SlicedFacts ==
  ASSUME NEW said \in Seq(Note), Adjoins(said)
  PROVE  /\ Sliced(said) \in Seq(Note)
         /\ \E n \in 0 .. Len(said) :
               /\ Len(Sliced(said)) = n /\ \A i \in 1 .. n : Sliced(said)[i] = said[i]
               /\ n < Len(said) =>
                     n # 0 /\ said[n].at + Size[said[n].line] >= AnswerLimit
<1> DEFINE Late == {i \in 1 .. Len(said) : said[i].at >= AnswerLimit}
           Fits(n) == /\ \A i \in 1 .. n : said[i].at < AnswerLimit
                      /\ n < Len(said) => said[n + 1].at >= AnswerLimit
           m == CHOOSE n \in 0 .. Len(said) : Fits(n)
<1>1. Len(said) \in Nat /\ AnswerLimit \in Nat \ {0} /\ \A i \in 1 .. Len(said) : said[i].at \in Nat
  <2>1. \A i \in 1 .. Len(said) : said[i] \in Note
    OBVIOUS
  <2>2. QED
    BY <2>1, TurnAssumption DEF Note
<1>2. \E n \in 0 .. Len(said) : Fits(n)
  <2>1. CASE Late = {}
    <3>1. Fits(Len(said)) /\ Len(said) \in 0 .. Len(said)
      BY <1>1, <2>1
    <3>2. QED
      BY <3>1
  <2>2. CASE Late # {}
    <3>1. Late \subseteq Nat
      OBVIOUS
    <3>2. PICK x \in Late : \A y \in Late : x <= y
      BY <2>2, <3>1, LeastExists
    <3>3. x - 1 \in 0 .. Len(said) /\ (x - 1) + 1 = x
      BY <1>1, <3>2
    <3>4. Fits(x - 1)
      <4>1. \A i \in 1 .. x - 1 : i \in 1 .. Len(said) /\ ~ (x <= i)
        BY <1>1, <3>2, <3>3
      <4>2. QED
        BY <1>1, <3>2, <3>3, <4>1
    <3>5. QED
      BY <3>3, <3>4
  <2>3. QED
    BY <2>1, <2>2
<1>3. m \in 0 .. Len(said) /\ Fits(m)
  BY <1>2
<1>4. Sliced(said) = SubSeq(said, 1, m)
  BY DEF Sliced
<1> HIDE DEF m
<1>5. m < Len(said) => m # 0 /\ said[m].at + Size[said[m].line] >= AnswerLimit
  <2>1. SUFFICES ASSUME m < Len(said)
                 PROVE  m # 0 /\ said[m].at + Size[said[m].line] >= AnswerLimit
    OBVIOUS
  <2>2. m + 1 \in DOMAIN said /\ (m + 1) - 1 = m /\ (m + 1 = 1 <=> m = 0)
    BY <1>1, <1>3, <2>1
  <2>3. said[m + 1].at = IF m = 0 THEN 0 ELSE said[m].at + Size[said[m].line]
    BY <2>2 DEF Adjoins
  <2>4. said[m + 1].at >= AnswerLimit
    BY <1>3, <2>1
  <2>5. QED
    BY <1>1, <2>3, <2>4
<1> HIDE DEF Fits
<1>6. SubSeq(said, 1, m) \in Seq(Note) /\ Len(SubSeq(said, 1, m)) = m
      /\ \A i \in 1 .. m : SubSeq(said, 1, m)[i] = said[i]
  BY <1>1, <1>3
<1>7. QED
  BY <1>3, <1>4, <1>5, <1>6

\* The consumer reads one event more: with a text it keeps it.
LEMMA ToldNext ==
  ASSUME NEW said \in Seq(Note), NEW es \in Seq(EventType), NEW n \in Nat, n < Len(es),
         Told(said, es, n),
         \A a, c \in DOMAIN es : Out(es[a]) /\ Out(es[c]) /\ es[a].line = es[c].line => a = c
  PROVE  /\ ~Out(es[n + 1]) => Told(said, es, n + 1)
         /\ \A m \in Note : Out(es[n + 1]) /\ m.line = es[n + 1].line => Told(Append(said, m), es, n + 1)
<1>1. 1 .. n + 1 = 1 .. n \cup {n + 1} /\ n + 1 \in DOMAIN es /\ 1 .. n \subseteq DOMAIN es
  OBVIOUS
<1>2. ASSUME ~Out(es[n + 1])
      PROVE  Told(said, es, n + 1)
  <2>1. \A c \in 1 .. n + 1 : Out(es[c]) => c \in 1 .. n
    BY <1>1, <1>2
  <2>2. QED
    BY <1>1, <2>1 DEF Told
<1>3. ASSUME NEW m \in Note, Out(es[n + 1]), m.line = es[n + 1].line
      PROVE  Told(Append(said, m), es, n + 1)
  <2> DEFINE t == Append(said, m)
             k == Len(said) + 1
  <2>1. Len(said) \in Nat /\ k \in Nat /\ DOMAIN said = 1 .. Len(said)
    OBVIOUS
  <2>2. DOMAIN t = DOMAIN said \cup {k} /\ k \in DOMAIN t /\ k \notin DOMAIN said
    OBVIOUS
  <2>3. t[k] = m /\ \A i \in DOMAIN said : t[i] = said[i]
    OBVIOUS
  <2>4. \A i \in DOMAIN said : i < k
    BY <2>1
  <2> HIDE DEF t
  <2>5. ASSUME NEW i \in DOMAIN said, NEW c \in 1 .. n + 1, Out(es[c]), es[c].line = said[i].line
        PROVE  c \in 1 .. n
    <3>1. PICK a \in 1 .. n : Out(es[a]) /\ es[a].line = said[i].line
      BY DEF Told
    <3>2. a = c
      BY <1>1, <2>5, <3>1
    <3>3. QED
      BY <3>1, <3>2
  <2>6. ASSUME NEW c \in 1 .. n + 1, Out(es[c]), es[c].line = m.line
        PROVE  c = n + 1
    BY <1>1, <1>3, <2>6
  <2>7. ASSUME NEW i \in DOMAIN t
        PROVE  \E c \in 1 .. n + 1 : Out(es[c]) /\ es[c].line = t[i].line
    <3>1. CASE i \in DOMAIN said
      BY <1>1, <2>3, <3>1 DEF Told
    <3>2. CASE i = k
      BY <1>1, <1>3, <2>3, <3>2
    <3>3. QED
      BY <2>2, <3>1, <3>2
  <2>8. ASSUME NEW c \in 1 .. n + 1, Out(es[c])
        PROVE  \E i \in DOMAIN t : es[c].line = t[i].line
    <3>1. CASE c \in 1 .. n
      BY <2>2, <2>3, <2>8, <3>1 DEF Told
    <3>2. CASE c = n + 1
      BY <1>3, <2>2, <2>3, <3>2
    <3>3. QED
      BY <1>1, <3>1, <3>2
  <2>9. ASSUME NEW h \in DOMAIN t, NEW i \in DOMAIN t, NEW a \in 1 .. n + 1, NEW c \in 1 .. n + 1,
               Out(es[a]), es[a].line = t[h].line, Out(es[c]), es[c].line = t[i].line, h < i
        PROVE  a < c
    <3>1. h \in DOMAIN said
      <4>1. SUFFICES ASSUME h = k
                     PROVE  FALSE
        BY <2>2
      <4>2. i = k \/ i < k
        BY <2>2, <2>4
      <4>3. i \in Nat
        BY <2>1, <2>2
      <4>4. QED
        BY <2>1, <2>9, <4>1, <4>2, <4>3
    <3>2. a \in 1 .. n /\ es[a].line = said[h].line
      BY <2>3, <2>5, <2>9, <3>1
    <3>3. CASE i \in DOMAIN said
      <4>1. c \in 1 .. n /\ es[c].line = said[i].line
        BY <2>3, <2>5, <2>9, <3>3
      <4>2. QED
        BY <2>9, <3>1, <3>2, <3>3, <4>1 DEF Told
    <3>4. CASE i = k
      <4>1. c = n + 1
        BY <2>3, <2>6, <2>9, <3>4
      <4>2. QED
        BY <3>2, <4>1
    <3>5. QED
      BY <2>2, <3>3, <3>4
  <2>10. Told(t, es, n + 1)
    BY <2>7, <2>8, <2>9 DEF Told
  <2>11. QED
    BY <2>10 DEF t
<1>4. QED
  BY <1>2, <1>3

-----------------------------------------------------------------------------
(***************************************************************************)
(* Steps.                                                                  *)
(***************************************************************************)

\* The types of what the current turn prints and passes on.
LEMMA PrintedFacts ==
  ASSUME TypeOK
  PROVE  /\ printed \in Seq(Lines) /\ Distinct(printed)
         /\ turn \in Turns /\ events[turn] \in Seq(EventType) /\ text[turn] \in Seq(Note)
         /\ cursor[turn] \in 0 .. Len(events[turn])
<1>1. printed \in Outputs[turn] \cup {<<>>} /\ turn \in Turns
  BY DEF TypeOK
<1>2. printed \in Seq(Lines) /\ Distinct(printed)
  <2>1. CASE printed = <<>>
    BY <2>1 DEF Distinct
  <2>2. CASE printed \in Outputs[turn]
    BY <1>1, <2>2, TurnAssumption DEF Distinct
  <2>3. QED
    BY <1>1, <2>1, <2>2
<1>3. QED
  BY <1>1, <1>2 DEF TypeOK, Note, Text

\* The reader of the current turn.
LEMMA ReaderFacts ==
  ASSUME TypeOK, NEW s \in Seq(Byte)
  PROVE  /\ Reader(s) \in ReaderType
         /\ Reader(s).buffer = s /\ Reader(s).verdict = verdict /\ Reader(s).events = events[turn]
<1>1. verdict \in Verdicts /\ events[turn] \in Seq(EventType)
  BY PrintedFacts DEF TypeOK, Verdicts
<1>2. QED
  BY <1>1 DEF Reader, ReaderType

\* Before anything is consumed nothing is heard.
LEMMA NothingHeard ==
  /\ \A v, out : Heard(<<>>, v, out, 0)
  /\ \A es : Told(<<>>, es, 0)
  BY DEF Heard, Told

\* What neither reads nor consumes changes nothing that is heard.
LEMMA Unheard ==
  ASSUME Inv, UNCHANGED <<turn, printed, unread, buffer, verdict, run, events, cursor, text>>
  PROVE  Heeds'
<1>1. Reading' /\ Fresh' /\ Voiced'
  BY DEF Inv, Heeds, Reading, Fresh, Voiced, HasLine, Out
<1>2. Reads'
  BY DEF Inv, Heeds, Reads, Reader
<1>3. Completed' /\ Passes'
  BY DEF Inv, Heeds, Completed, Passes
<1>4. Keeps' /\ Placed'
  BY DEF Inv, Heeds, Keeps, Placed
<1>5. QED
  BY <1>1, <1>2, <1>3, <1>4 DEF Heeds

\* The record of the turn grows by what is heard.
LEMMA Grown ==
  ASSUME Inv, NEW es \in Seq(EventType), Longer(events[turn], es),
         events' = [events EXCEPT ![turn] = es],
         UNCHANGED <<turn, printed, cursor, text>>,
         NEW d \in 0 .. Len(printed), Heard(es, verdict', printed, d)
  PROVE  /\ events' \in [Turns -> Seq(EventType)] /\ events'[turn] = es
         /\ \A k \in Turns : cursor'[k] \in 0 .. Len(events'[k])
         /\ Passes' /\ Voiced' /\ Keeps' /\ Placed'
         /\ turn' = 1 => events'[2] = <<>> /\ cursor'[2] = 0 /\ text'[2] = <<>>
<1>1. /\ printed \in Seq(Lines) /\ turn \in Turns /\ events[turn] \in Seq(EventType)
      /\ cursor[turn] \in 0 .. Len(events[turn])
  BY PrintedFacts DEF Inv
<1>2. events \in [Turns -> Seq(EventType)] /\ \A k \in Turns : cursor[k] \in 0 .. Len(events[k])
  BY DEF Inv, TypeOK
<1>3. events' \in [Turns -> Seq(EventType)] /\ events'[turn] = es
  BY <1>1, <1>2
<1>4. \A k \in Turns : k # turn => events'[k] = events[k]
  BY <1>2
<1>5. Told(text[turn], es, cursor[turn]) /\ cursor[turn] \in 0 .. Len(es)
  <2>1. Told(text[turn], events[turn], cursor[turn])
    BY DEF Inv, Heeds, Keeps
  <2>2. QED
    BY <1>1, <2>1, ToldLonger
<1>6. \A k \in Turns : cursor'[k] \in 0 .. Len(events'[k])
  BY <1>2, <1>3, <1>4, <1>5
<1>7. Passes'
  BY <1>3 DEF Passes
<1>8. \A c \in DOMAIN es : Out(es[c]) => es[c].line \in Lines
  <2>1. 1 .. d \subseteq DOMAIN printed
    BY <1>1
  <2>2. QED
    BY <1>1, <2>1 DEF Heard
<1>9. Voiced'
  <2>1. \A k \in Turns : \A c \in DOMAIN events'[k] : Out(events'[k][c]) => events'[k][c].line \in Lines
    BY <1>3, <1>4, <1>8 DEF Inv, Heeds, Voiced
  <2>2. QED
    BY <2>1 DEF Voiced, Out
<1>10. Keeps' /\ Placed'
  BY <1>3, <1>5 DEF Inv, Heeds, Keeps, Placed
<1>11. turn' = 1 => events'[2] = <<>> /\ cursor'[2] = 0 /\ text'[2] = <<>>
  BY <1>4 DEF Inv, Heeds, Fresh, Turns
<1>12. QED
  BY <1>3, <1>6, <1>7, <1>9, <1>10, <1>11

\* In the beginning nothing is printed, heard or kept.
LEMMA InitInv ==
  Init => Inv
<1> SUFFICES ASSUME Init
             PROVE  Inv
  OBVIOUS
<1>1. TypeOK
  <2>1. events \in [Turns -> Seq(EventType)] /\ text \in [Turns -> Seq(Note)] /\ answer \in Seq(Note)
    BY DEF Init, Note
  <2>2. \A k \in Turns : cursor[k] \in 0 .. Len(events[k])
    BY DEF Init
  <2>3. \A i \in DOMAIN buffer : buffer[i].line \in Lines
    BY DEF Init
  <2>4. /\ complete \in [Turns -> BOOLEAN] /\ waiting \in [Turns -> BOOLEAN]
        /\ timer \in [Turns -> BOOLEAN] /\ over \in [Turns -> BOOLEAN]
        /\ cause \in [Turns -> {"none", "timeout", "cancel"}]
    BY DEF Init
  <2>5. turn \in Turns
    BY DEF Init, Turns
  <2>6. /\ resumed \in BOOLEAN /\ job = "running" /\ row = "RUNNING" /\ alive \in BOOLEAN
        /\ printed = <<>> /\ verdict = "none" /\ run = "starting"
    BY DEF Init
  <2>7. QED
    BY <2>1, <2>2, <2>3, <2>4, <2>5, <2>6 DEF TypeOK, Note, Text
<1>2. Reading /\ Fresh /\ Reads /\ Completed /\ Voiced /\ Settled /\ Placed
  BY DEF Init, Placed, Adjoins, Reading, Fresh, Reads, Completed, Voiced, Settled, Answered, HasLine, Turns
<1>3. Passes
  <2>1. events[turn] = <<>> /\ 0 \in 0 .. Len(printed)
    BY DEF Init, Turns
  <2>2. QED
    BY <2>1, NothingHeard DEF Passes
<1>4. Keeps
  <2>1. text[turn] = <<>> /\ cursor[turn] = 0
    BY DEF Init, Turns
  <2>2. QED
    BY <2>1, NothingHeard DEF Keeps
<1>5. QED
  BY <1>1, <1>2, <1>3, <1>4 DEF Inv, Heeds

\* No process: what has failed to start passes nothing on.
LEMMA FailedStartInv ==
  ASSUME Inv, StartThrows \/ OwnershipFails
  PROVE  Inv'
<1>1. /\ run = "starting" /\ run' = "error"
      /\ UNCHANGED <<turn, resumed, job, row, answer, over, alive, printed, unread, buffer, verdict>>
      /\ UNCHANGED <<events, cursor, text, timer, cause>>
  BY DEF StartThrows, OwnershipFails, consumer, record, worker
<1>2. TypeOK'
  <2>1. waiting' \in [Turns -> BOOLEAN] /\ complete' \in [Turns -> BOOLEAN]
    BY DEF Inv, TypeOK, StartThrows, OwnershipFails, Wake, consumer, record
  <2>2. QED
    BY <1>1, <2>1 DEF Inv, TypeOK
<1>3. Reading' /\ Fresh' /\ Voiced' /\ Reads' /\ Completed' /\ Keeps' /\ Placed' /\ Passes'
  <2>1. Reading' /\ Fresh' /\ Voiced'
    BY <1>1 DEF Inv, Heeds, Reading, Fresh, Voiced, HasLine, Out
  <2>2. Reads' /\ Completed'
    BY <1>1 DEF Reads, Completed
  <2>3. Keeps' /\ Placed' /\ Passes'
    BY <1>1 DEF Inv, Heeds, Keeps, Placed, Passes
  <2>4. QED
    BY <2>1, <2>2, <2>3
<1>4. Settled'
  BY <1>1 DEF Inv, Settled, Answered
<1>5. QED
  BY <1>2, <1>3, <1>4 DEF Inv, Heeds

\* A process starts: all its output is unread.
LEMMA StartInv ==
  ASSUME Inv, NEW out \in Outputs[turn], NEW ended \in BOOLEAN, Start(out, ended)
  PROVE  Inv'
<1>1. /\ run = "starting" /\ run' = "streaming" /\ alive' = TRUE /\ printed' = out
      /\ unread' = Bytes(out, ended)
      /\ UNCHANGED <<turn, resumed, job, row, answer, over, buffer, verdict, events, complete, cursor, waiting, text>>
      /\ UNCHANGED <<timer, cause>>
  BY DEF Start, consumer, record, worker
<1>2. buffer = <<>> /\ verdict = "none" /\ events[turn] = <<>> /\ turn \in Turns
  BY <1>1 DEF Inv, Heeds, Fresh, TypeOK
<1>3. out \in Seq(Lines)
  BY <1>2, TurnAssumption
<1>4. TypeOK'
  BY <1>1 DEF Inv, TypeOK
<1> DEFINE all == Bytes(out, ended)
           u == <<>> \o all
           r == Reader(<<>>)
<1>5. all \in Seq(Byte)
  BY <1>3, BytesLaid
<1>6. Left(u, out, ended, 0, 0)
  <2>1. Offset(out, 0) = 0 /\ Offset(out, 0) \in Nat
    BY <1>3, Offsets
  <2> HIDE DEF all
  <2>2. u = all /\ Len(all) \in Nat /\ DOMAIN all = 1 .. Len(all)
    BY <1>5
  <2>3. \A i \in DOMAIN u : Same(u[i], all[0 + 0 + i])
    BY <2>2 DEF Same
  <2> HIDE DEF u
  <2>4. QED
    BY <2>1, <2>2, <2>3 DEF Left, all
<1>7. Progress(r, all, out, ended)
  <2>1. Place(out, 0, 0) /\ 0 \in 0 .. Len(out) /\ 0 \in Nat
    BY <1>3 DEF Place
  <2>2. r.buffer = <<>> /\ r.events = <<>>
    BY <1>2 DEF Reader
  <2> HIDE DEF r
  <2>3. Midway(r, all, out, ended, 0, 0)
    BY <1>6, <2>1, <2>2, NothingHeard DEF Midway
  <2>4. QED
    BY <2>1, <2>3 DEF Progress
<1>8. Reads'
  BY <1>1, <1>2, <1>7 DEF Reads, Reader
<1>9. Passes'
  <2>1. 0 \in 0 .. Len(out)
    BY <1>3
  <2>2. QED
    BY <1>1, <1>2, <2>1, NothingHeard DEF Passes
<1>10. Reading' /\ Fresh' /\ Completed' /\ Voiced' /\ Keeps' /\ Placed'
  <2>1. Reading'
    BY <1>1, <1>5 DEF Inv, Heeds, Reading, HasLine
  <2>2. Fresh' /\ Completed' /\ Voiced' /\ Keeps' /\ Placed'
    BY <1>1 DEF Inv, Heeds, Fresh, Completed, Voiced, Keeps, Placed, Out
  <2>3. QED
    BY <2>1, <2>2
<1>11. Settled'
  BY <1>1 DEF Inv, Settled, Answered
<1>12. QED
  BY <1>4, <1>8, <1>9, <1>10, <1>11 DEF Inv, Heeds

\* A chunk: the lines it completes are heard.
LEMMA ChunkInv ==
  ASSUME Inv, NEW n \in 1 .. Len(unread), Chunk(n)
  PROVE  Inv'
<1> DEFINE c == Decode(SubSeq(unread, 1, n))
           q == Reader(buffer \o c)
           r == Push(q)
           rest == SubSeq(unread, n + 1, Len(unread))
<1>1. /\ run = "streaming" /\ unread' = rest
      /\ buffer' = r.buffer /\ verdict' = r.verdict
      /\ events' = [events EXCEPT ![turn] = r.events]
      /\ waiting' = waiting \/ waiting' = [waiting EXCEPT ![turn] = FALSE]
      /\ UNCHANGED <<alive, printed, run, complete, cursor, text>>
      /\ UNCHANGED <<turn, resumed, job, row, answer, over, timer, cause>>
  BY DEF Chunk, worker, Wake
<1>2. TypeOK /\ buffer \in Seq(Byte) /\ unread \in Seq(Byte)
  BY DEF Inv, Heeds, Reading
<1>3. printed \in Seq(Lines) /\ Distinct(printed) /\ turn \in Turns
  BY <1>2, PrintedFacts
<1>4. PICK ended \in BOOLEAN : Progress(Reader(buffer), unread, printed, ended)
  BY <1>1 DEF Inv, Heeds, Reads
<1>5. n \in 0 .. Len(unread)
  BY <1>2
<1>6. q = [Reader(buffer) EXCEPT !.buffer = @ \o c]
  <2> DEFINE u == buffer \o c
  <2>1. Reader(buffer).buffer = buffer
    BY DEF Reader
  <2> HIDE DEF u
  <2>2. Reader(u) = [Reader(buffer) EXCEPT !.buffer = u]
    BY DEF Reader
  <2>3. QED
    BY <2>1, <2>2 DEF u
<1>7. q \in ReaderType /\ Progress(q, rest, printed, ended)
  <2>1. Reader(buffer) \in ReaderType
    BY <1>2, ReaderFacts
  <2> HIDE DEF q
  <2>2. QED
    BY <1>2, <1>3, <1>4, <1>5, <1>6, <2>1, ReadOn DEF c
<1>8. q.events = events[turn]
  BY DEF Reader
<1> HIDE DEF q
<1>9. rest \in Seq(Byte)
  BY <1>2, <1>5, SuffixFacts
<1> HIDE DEF rest
<1>10. r \in ReaderType /\ ~ HasLine(r.buffer) /\ Progress(r, rest, printed, ended)
  BY <1>3, <1>7, <1>9, PushFacts
<1>11. Longer(events[turn], r.events)
  BY <1>7, <1>8, PushLonger
<1> HIDE DEF r
<1>12. r.buffer \in Seq(Byte) /\ r.verdict \in Verdicts /\ r.events \in Seq(EventType)
       /\ r = [buffer |-> r.buffer, verdict |-> r.verdict, events |-> r.events]
  BY <1>10 DEF ReaderType
<1>13. PICK d \in 0 .. Len(printed) : Heard(r.events, r.verdict, printed, d)
  BY <1>10 DEF Progress, Midway
<1>14. /\ events' \in [Turns -> Seq(EventType)] /\ events'[turn] = r.events
       /\ \A k \in Turns : cursor'[k] \in 0 .. Len(events'[k])
       /\ Passes' /\ Voiced' /\ Keeps' /\ Placed'
       /\ turn' = 1 => events'[2] = <<>> /\ cursor'[2] = 0 /\ text'[2] = <<>>
  BY <1>1, <1>11, <1>12, <1>13, Grown
<1>15. Reads'
  <2>1. Reader(buffer)' = r
    BY <1>1, <1>12, <1>14 DEF Reader
  <2>2. QED
    BY <1>1, <1>10, <2>1 DEF Reads
<1>16. Reading'
  BY <1>1, <1>9, <1>10, <1>12 DEF Inv, Heeds, Reading
<1>17. Fresh' /\ Completed'
  BY <1>1, <1>14 DEF Fresh, Completed
<1>18. Settled'
  BY <1>1 DEF Inv, Settled, Answered
<1>19. TypeOK'
  <2>1. \A i \in DOMAIN buffer' : buffer'[i].line \in Lines
    <3>1. \A i \in DOMAIN r.buffer : r.buffer[i] \in Byte /\ r.buffer[i] # Newline
      BY <1>10, <1>12 DEF HasLine
    <3>2. QED
      BY <1>1, <3>1 DEF Byte
  <2>2. waiting' \in [Turns -> BOOLEAN]
    BY <1>1, <1>2 DEF TypeOK
  <2>3. QED
    BY <1>1, <1>2, <1>12, <1>14, <2>1, <2>2 DEF TypeOK, Verdicts
<1>20. QED
  BY <1>14, <1>15, <1>16, <1>17, <1>18, <1>19 DEF Inv, Heeds

\* 'close': the rest of the reader is heard.
LEMMA CloseInv ==
  ASSUME Inv, NEW code \in 0 .. 1, NEW noise \in BOOLEAN, NEW signal \in BOOLEAN, Close(code, noise, signal)
  PROVE  Inv'
<1> DEFINE w == Reader(<<>>)
           r == Consumed(w, buffer)
           q == Events(buffer)
           last == IF noise THEN <<[type |-> "stderr", line |-> "stderr", good |-> TRUE]>> ELSE <<>>
           es == r.events \o last
           v == r.verdict
<1>1. /\ run \in {"streaming", "errored"} /\ (code = 0 => unread = <<>>)
      /\ buffer' = <<>> /\ verdict' = v
      /\ events' = [events EXCEPT ![turn] = es]
      /\ complete' = [complete EXCEPT ![turn] = TRUE]
      /\ waiting' = [waiting EXCEPT ![turn] = FALSE]
      /\ run' = Outcome(code, signal, v)
      /\ UNCHANGED <<alive, printed, unread, cursor, text, turn, resumed, job, row, answer, over, timer, cause>>
  BY DEF Close, worker, Wake
<1>2. TypeOK /\ buffer \in Seq(Byte) /\ ~ HasLine(buffer) /\ unread \in Seq(Byte)
  BY DEF Inv, Heeds, Reading
<1>3. /\ printed \in Seq(Lines) /\ Distinct(printed) /\ turn \in Turns
      /\ events[turn] \in Seq(EventType)
  BY <1>2, PrintedFacts
<1>4. PICK ended \in BOOLEAN : Progress(Reader(buffer), unread, printed, ended)
  BY <1>1 DEF Inv, Heeds, Reads
<1>5. IsText(buffer) /\ verdict \in Verdicts
  BY <1>2 DEF HasLine, IsText, TypeOK, Verdicts
<1>6. w \in ReaderType /\ w.verdict = verdict /\ w.events = events[turn]
  <2>1. <<>> \in Seq(Byte)
    OBVIOUS
  <2>2. QED
    BY <1>2, <2>1, ReaderFacts
<1>7. r \in ReaderType /\ v = Apply(verdict, buffer) /\ r.events = events[turn] \o q
  <2> HIDE DEF w
  <2>1. QED
    BY <1>5, <1>6, ConsumedFacts
<1>8. /\ \E d \in 0 .. Len(printed) : Heard(events[turn] \o q, v, printed, d)
      /\ unread = <<>> => Heard(events[turn] \o q, v, printed, Len(printed))
  <2> DEFINE x == Reader(buffer)
  <2>1. x \in ReaderType /\ x.buffer = buffer /\ x.verdict = verdict /\ x.events = events[turn]
    BY <1>2, ReaderFacts
  <2> HIDE DEF x, v, q
  <2>2. /\ \E d \in 0 .. Len(printed) : Heard(x.events \o Events(x.buffer), Apply(x.verdict, x.buffer), printed, d)
        /\ unread = <<>> => Heard(x.events \o Events(x.buffer), Apply(x.verdict, x.buffer), printed, Len(printed))
    BY <1>2, <1>3, <1>4, <2>1, CloseHeard DEF x
  <2>3. QED
    BY <1>7, <2>1, <2>2 DEF q
<1>9. q \in Seq(EventType) /\ v \in Verdicts /\ r.events \in Seq(EventType)
  BY <1>5, <1>7, TextTypes DEF ReaderType
<1>10. last \in Seq(EventType) /\ \A c \in DOMAIN last : ~Out(last[c])
  <2> DEFINE e == [type |-> "stderr", line |-> "stderr", good |-> TRUE]
  <2>1. e \in EventType /\ ~Out(e)
    BY DEF EventType, Out
  <2> HIDE DEF e
  <2>2. CASE noise
    <3>1. last = <<e>>
      BY <2>2 DEF e
    <3> HIDE DEF last
    <3>2. QED
      BY <2>1, <3>1
  <2>3. CASE ~ noise
    BY <2>3
  <2>4. QED
    BY <2>2, <2>3
<1> HIDE DEF q, v, last, r
<1>11. es \in Seq(EventType) /\ Longer(events[turn], es)
  <2>1. Longer(events[turn], r.events)
    BY <1>3, <1>7, <1>9, LongerConcat
  <2>2. Longer(r.events, es) /\ es \in Seq(EventType)
    BY <1>9, <1>10, LongerConcat
  <2>3. QED
    BY <1>3, <1>9, <2>1, <2>2, LongerTwice
<1>12. \A d \in 0 .. Len(printed) : Heard(events[turn] \o q, v, printed, d) => Heard(es, v, printed, d)
  BY <1>3, <1>7, <1>9, <1>10, HeardQuiet
<1> HIDE DEF es
<1>13. PICK d \in 0 .. Len(printed) : Heard(es, v, printed, d)
  BY <1>8, <1>12
<1>14. /\ events' \in [Turns -> Seq(EventType)] /\ events'[turn] = es
       /\ \A k \in Turns : cursor'[k] \in 0 .. Len(events'[k])
       /\ Passes' /\ Voiced' /\ Keeps' /\ Placed'
       /\ turn' = 1 => events'[2] = <<>> /\ cursor'[2] = 0 /\ text'[2] = <<>>
  BY <1>1, <1>11, <1>13, Grown
<1>15. run' \in {"ok", "error", "stale"} /\ (run' = "stale" => turn = 1) /\ (run' = "ok" => code = 0 /\ v # "failed")
  BY <1>1 DEF Outcome
<1>16. Completed'
  <2>1. Len(printed) \in 0 .. Len(printed)
    BY <1>3
  <2>2. run' = "ok" => Heard(es, v, printed, Len(printed))
    BY <1>1, <1>8, <1>12, <1>15, <2>1
  <2>3. QED
    BY <1>1, <1>14, <1>15, <2>2 DEF Completed
<1>17. Reading' /\ Fresh' /\ Reads'
  <2>1. Reading'
    BY <1>1 DEF Inv, Heeds, Reading, HasLine
  <2>2. Fresh' /\ Reads'
    BY <1>1, <1>14, <1>15 DEF Fresh, Reads
  <2>3. QED
    BY <2>1, <2>2
<1>18. Settled'
  BY <1>1 DEF Inv, Settled, Answered
<1>19. TypeOK'
  <2>1. waiting' \in [Turns -> BOOLEAN] /\ complete' \in [Turns -> BOOLEAN]
    BY <1>1, <1>2 DEF TypeOK
  <2>2. \A i \in DOMAIN buffer' : buffer'[i].line \in Lines
    BY <1>1
  <2>3. QED
    BY ZenonT(60), <1>1, <1>2, <1>9, <1>14, <1>15, <2>1, <2>2 DEF TypeOK, Verdicts
<1>20. QED
  BY <1>14, <1>16, <1>17, <1>18, <1>19 DEF Inv, Heeds

\* The consumer keeps the text of one more event.
LEMMA ConsumeInv ==
  ASSUME Inv, NEW k \in Turns, Consume(k)
  PROVE  Inv'
<1> DEFINE n == cursor[k]
           e == events[k][n + 1]
           m == [line |-> e.line, good |-> e.good, at |-> Length(text[k])]
<1>1. /\ k <= turn /\ n < Len(events[k])
      /\ cursor' = [cursor EXCEPT ![k] = n + 1]
      /\ text' = IF Out(e) THEN [text EXCEPT ![k] = Append(@, m)] ELSE text
      /\ timer' = [timer EXCEPT ![k] = TRUE]
      /\ UNCHANGED <<waiting, alive, printed, unread, buffer, verdict, run, events, complete>>
      /\ UNCHANGED <<turn, resumed, job, row, answer, over, cause>>
  BY DEF Consume, Begun, process, record, worker, Out
<1>2. /\ TypeOK /\ events \in [Turns -> Seq(EventType)] /\ text \in [Turns -> Seq(Note)]
      /\ \A j \in Turns : cursor[j] \in 0 .. Len(events[j])
  BY DEF Inv, TypeOK, Note, Text
<1>3. cursor \in [Turns -> Nat] /\ turn \in Turns
  BY DEF Inv, Heeds, Reading, TypeOK
<1>4. n \in Nat /\ n + 1 \in 1 .. Len(events[k]) /\ n + 1 \in 0 .. Len(events[k]) /\ n + 1 \in Nat
  BY <1>1, <1>2
<1>5. e \in EventType
  BY <1>2, <1>4
<1>6. Out(e) => m \in Note
  <2>1. Out(e) => e.line \in Lines
    <3>1. n + 1 \in DOMAIN events[k]
      BY <1>2, <1>4
    <3>2. QED
      BY <3>1 DEF Inv, Heeds, Voiced
  <2>2. Length(text[k]) \in Nat
    BY <1>2, LengthType
  <2>3. QED
    BY <1>5, <2>1, <2>2 DEF Note, EventType
<1> HIDE DEF n, e, m
<1>7. text' \in [Turns -> Seq(Note)]
  BY <1>1, <1>2, <1>6
<1>8. cursor' \in [Turns -> Nat] /\ \A j \in Turns : cursor'[j] \in 0 .. Len(events[j])
  BY <1>1, <1>2, <1>3, <1>4
<1>9. TypeOK'
  <2>1. timer' \in [Turns -> BOOLEAN]
    BY <1>1, <1>2 DEF TypeOK
  <2>2. QED
    BY ZenonT(60), <1>1, <1>2, <1>7, <1>8, <2>1 DEF TypeOK, Note, Text
<1>10. Reading' /\ Voiced' /\ Reads' /\ Completed' /\ Passes'
  <2>1. Reading' /\ Voiced'
    BY <1>1, <1>8 DEF Inv, Heeds, Reading, Voiced, HasLine, Out
  <2>2. Reads' /\ Completed' /\ Passes'
    BY <1>1 DEF Inv, Heeds, Reads, Reader, Completed, Passes
  <2>3. QED
    BY <2>1, <2>2
<1>11. Fresh'
  <2>1. turn = 1 => k = 1
    BY <1>1 DEF Turns
  <2>2. turn = 1 => cursor'[2] = cursor[2] /\ text'[2] = text[2]
    BY <1>1, <1>2, <1>3, <2>1 DEF Turns
  <2>3. QED
    BY <1>1, <2>2 DEF Inv, Heeds, Fresh
<1>12. Keeps'
  <2>1. CASE k # turn
    <3>1. cursor'[turn] = cursor[turn] /\ text'[turn] = text[turn]
      BY <1>1, <1>2, <1>3, <2>1
    <3>2. QED
      BY <1>1, <3>1 DEF Inv, Heeds, Keeps
  <2>2. CASE k = turn
    <3> DEFINE es == events[k]
               said == text[k]
    <3>1. es \in Seq(EventType) /\ said \in Seq(Note)
      BY <1>2
    <3>2. printed \in Seq(Lines)
      BY <1>2, PrintedFacts
    <3>3. PICK d \in 0 .. Len(printed) : Heard(es, verdict, printed, d)
      BY <2>2 DEF Inv, Heeds, Passes
    <3>4. Told(said, es, n)
      BY <2>2 DEF Inv, Heeds, Keeps, n
    <3>5. cursor'[k] = n + 1 /\ text'[k] = IF Out(e) THEN Append(said, m) ELSE said
      BY <1>1, <1>2, <1>3
    <3>6. e = es[n + 1] /\ m.line = e.line
      BY DEF e, m
    <3> HIDE DEF es, said
    <3>7. \A a, c \in DOMAIN es : Out(es[a]) /\ Out(es[c]) /\ es[a].line = es[c].line => a = c
      BY <3>1, <3>2, <3>3, HeardOnce
    <3>8. n < Len(es)
      BY <1>1 DEF es
    <3>9. Told(text'[k], es, n + 1)
      BY <1>4, <1>6, <3>1, <3>4, <3>5, <3>6, <3>7, <3>8, ToldNext
    <3>10. QED
      BY <1>1, <2>2, <3>5, <3>9 DEF Keeps, es
  <2>3. QED
    BY <2>1, <2>2
<1>13. Settled'
  <2>1. Answered => k # turn
    BY <1>1 DEF Inv, Settled, n
  <2>2. k # turn => cursor'[turn] = cursor[turn] /\ text'[turn] = text[turn]
    BY <1>1, <1>2, <1>3
  <2>3. QED
    BY <1>1, <2>1, <2>2 DEF Inv, Settled, Answered
<1>14. Placed'
  <2>1. Adjoins(text[k]) /\ text[k] \in Seq(Note)
    BY <1>2 DEF Inv, Heeds, Placed
  <2>2. Out(e) => m \in Note /\ m.at = Length(text[k])
    BY <1>6 DEF m
  <2>3. Out(e) => Adjoins(Append(text[k], m))
    BY <2>1, <2>2, AdjoinsNext
  <2>4. \A j \in Turns : text'[j] = IF j = k /\ Out(e) THEN Append(text[k], m) ELSE text[j]
    BY <1>1, <1>2
  <2>5. QED
    BY <2>3, <2>4 DEF Inv, Heeds, Placed
<1>15. QED
  BY <1>9, <1>10, <1>11, <1>12, <1>13, <1>14 DEF Inv, Heeds

\* The process ends, or a consumer waits.
LEMMA QuietInv ==
  ASSUME Inv, Exit \/ ChildError \/ \E k \in Turns : Wait(k)
  PROVE  Inv'
<1>1. CASE Exit
  <2>1. UNCHANGED <<turn, printed, unread, buffer, verdict, run, events, cursor, text>>
    BY <1>1 DEF Exit, consumer, record, worker
  <2>2. TypeOK' /\ Settled'
    BY ZenonT(60), <1>1 DEF Exit, consumer, record, worker, Inv, TypeOK, Settled, Answered
  <2>3. QED
    BY <2>1, <2>2, Unheard DEF Inv
<1>2. CASE ChildError
  <2>1. /\ run = "streaming" /\ run' = "errored" /\ alive' = FALSE
        /\ UNCHANGED <<printed, unread, buffer, verdict, events, complete, cursor, waiting, text>>
        /\ UNCHANGED <<turn, resumed, job, row, answer, over, timer, cause>>
    BY <1>2 DEF ChildError, consumer, record, worker
  <2>2. TypeOK' /\ Settled'
    BY <2>1 DEF Inv, TypeOK, Settled, Answered
  <2>3. Reading' /\ Fresh' /\ Voiced'
    BY <2>1 DEF Inv, Heeds, Reading, Fresh, Voiced, HasLine, Out
  <2>4. Reads' /\ Completed' /\ Passes' /\ Keeps' /\ Placed'
    BY <2>1 DEF Inv, Heeds, Reads, Reader, Completed, Passes, Keeps, Placed
  <2>5. QED
    BY <2>2, <2>3, <2>4 DEF Inv, Heeds
<1>3. ASSUME NEW k \in Turns, Wait(k)
      PROVE  Inv'
  <2>1. UNCHANGED <<turn, printed, unread, buffer, verdict, run, events, cursor, text>>
    BY <1>3 DEF Wait, process, record, worker
  <2>2. TypeOK' /\ Settled'
    BY ZenonT(60), <1>3 DEF Wait, process, record, worker, Inv, TypeOK, Settled, Answered
  <2>3. QED
    BY <2>1, <2>2, Unheard DEF Inv
<1>4. QED
  BY <1>1, <1>2, <1>3

\* A turn is ended from outside: nothing more is passed on for it by that.
LEMMA TerminateInv ==
  ASSUME Inv, NEW k \in Turns, NEW why \in {"timeout", "cancel"}, NEW st \in {"TIMED_OUT", "CANCELLED"},
         Terminate(k, why, st), timer' \in [Turns -> BOOLEAN]
  PROVE  Inv'
<1>1. /\ cause' = [cause EXCEPT ![k] = why]
      /\ row' = (IF row = "RUNNING" THEN st ELSE row)
      /\ alive' = FALSE
      /\ complete' = [complete EXCEPT ![k] = TRUE]
      /\ waiting' = [waiting EXCEPT ![k] = FALSE]
      /\ UNCHANGED <<printed, unread, buffer, verdict, run, events, cursor, text, turn, resumed, job, answer, over>>
  BY DEF Terminate, Wake
<1>2. TypeOK'
  <2>1. /\ waiting' \in [Turns -> BOOLEAN] /\ complete' \in [Turns -> BOOLEAN]
        /\ cause' \in [Turns -> {"none", "timeout", "cancel"}]
    BY <1>1 DEF Inv, TypeOK
  <2>2. QED
    BY ZenonT(60), <1>1, <2>1 DEF Inv, TypeOK
<1>3. Settled'
  BY <1>1 DEF Inv, Settled, Answered
<1>4. QED
  BY <1>1, <1>2, <1>3, Unheard DEF Inv

\* A turn ends, its answer or failure is recorded.
LEMMA EndInv ==
  ASSUME Inv, TurnAnswers \/ TurnFails \/ Record
  PROVE  Inv'
<1>1. CASE TurnAnswers \/ TurnFails
  <2>1. /\ ~over[turn]
        /\ over' = [over EXCEPT ![turn] = TRUE]
        /\ timer' = [timer EXCEPT ![turn] = FALSE]
        /\ UNCHANGED <<turn, resumed, row, answer, alive, printed, unread, buffer, verdict, run>>
        /\ UNCHANGED <<events, complete, cursor, waiting, text, cause>>
    BY <1>1 DEF TurnAnswers, TurnFails, EndTurn, process, consumer, record
  <2>2. job' = "failed" \/ (job' = "answered" /\ run = "ok" /\ cursor[turn] = Len(events[turn]))
    BY <1>1 DEF TurnAnswers, TurnFails, ConsumerDone, Drained
  <2>3. over' \in [Turns -> BOOLEAN] /\ timer' \in [Turns -> BOOLEAN] /\ over'[turn] = TRUE
    BY <2>1 DEF Inv, TypeOK
  <2>4. TypeOK'
    BY <2>1, <2>2, <2>3 DEF Inv, TypeOK
  <2>5. Settled'
    BY <2>1, <2>2, <2>3 DEF Inv, Settled, Answered
  <2>6. QED
    BY <2>1, <2>4, <2>5, Unheard DEF Inv
<1>2. CASE Record
  <2>1. /\ job \in {"answered", "failed"} /\ job' = "recorded"
        /\ row' = (IF row # "RUNNING" THEN row ELSE IF job = "answered" THEN "SUCCEEDED" ELSE "FAILED")
        /\ answer' = (IF row = "RUNNING" /\ job = "answered" THEN Sliced(text[turn]) ELSE answer)
        /\ UNCHANGED <<turn, resumed, over, alive, printed, unread, buffer, verdict, run>>
        /\ UNCHANGED <<events, complete, cursor, waiting, text, timer, cause>>
    BY <1>2 DEF Record, process, consumer, record
  <2>2. TypeOK'
    <3>1. turn \in Turns /\ text[turn] \in Seq(Note) /\ Adjoins(text[turn])
      BY DEF Inv, Heeds, Placed, TypeOK, Note, Text
    <3>2. Sliced(text[turn]) \in Seq(Note)
      BY <3>1, SlicedFacts
    <3>3. answer' \in Seq(Text)
      BY <2>1, <3>2 DEF Inv, TypeOK, Note, Text
    <3>4. QED
      BY <2>1, <3>3 DEF Inv, TypeOK
  <2>3. Settled'
    BY <2>1 DEF Inv, Settled, Answered
  <2>4. QED
    BY <2>1, <2>2, <2>3, Unheard DEF Inv
<1>3. QED
  BY <1>1, <1>2

\* The fresh turn begins with nothing.
LEMMA RestartInv ==
  ASSUME Inv, TurnRestarts
  PROVE  Inv'
<1>1. /\ ~over[turn] /\ run = "stale" /\ turn' = 2
      /\ over' = [over EXCEPT ![1] = TRUE]
      /\ timer' = [[timer EXCEPT ![2] = TRUE] EXCEPT ![1] = FALSE]
      /\ printed' = <<>> /\ unread' = <<>> /\ buffer' = <<>> /\ verdict' = "none" /\ run' = "starting"
      /\ UNCHANGED <<alive, resumed, job, row, answer, cursor, waiting, text, events, complete, cause>>
  BY DEF TurnRestarts, EndTurn, consumer, record
<1>2. events[2] = <<>> /\ cursor[2] = 0 /\ text[2] = <<>>
  BY <1>1 DEF Inv, Heeds, Fresh
<1>3. TypeOK'
  <2>0. 2 \in Turns
    BY DEF Turns
  <2>1. over' \in [Turns -> BOOLEAN] /\ timer' \in [Turns -> BOOLEAN]
    BY <1>1 DEF Inv, TypeOK
  <2>2. \A i \in DOMAIN buffer' : buffer'[i].line \in Lines
    BY <1>1
  <2>3. QED
    BY <1>1, <2>0, <2>1, <2>2 DEF Inv, TypeOK
<1>4. Reading' /\ Fresh' /\ Voiced' /\ Reads' /\ Completed'
  <2>1. Reading'
    BY <1>1 DEF Inv, Heeds, Reading, HasLine
  <2>2. Fresh' /\ Voiced' /\ Reads' /\ Completed'
    BY <1>1, <1>2 DEF Inv, Heeds, Fresh, Voiced, Reads, Completed, Out
  <2>3. QED
    BY <2>1, <2>2
<1>5. Passes' /\ Keeps' /\ Placed'
  <2>1. 0 \in 0 .. Len(<<>>)
    OBVIOUS
  <2>2. QED
    BY <1>1, <1>2, <2>1, NothingHeard DEF Inv, Heeds, Passes, Keeps, Placed
<1>6. Settled'
  BY <1>1 DEF Inv, Settled, Answered
<1>7. QED
  BY <1>3, <1>4, <1>5, <1>6 DEF Inv, Heeds

-----------------------------------------------------------------------------
(***************************************************************************)
(* Theorems.                                                               *)
(***************************************************************************)

\* The strengthened invariant: at every moment the events of the turn are those
\* of the lines that have been read, whatever chunks they came in.
THEOREM InvCorrect == Spec => []Inv
<1>1. Init => Inv
  BY InitInv
<1>2. ASSUME Inv, [Next]_vars
      PROVE  Inv'
  <2>1. CASE StartThrows \/ OwnershipFails
    BY <1>2, <2>1, FailedStartInv
  <2>2. ASSUME NEW out \in Outputs[turn], NEW ended \in BOOLEAN, Start(out, ended)
        PROVE  Inv'
    BY <1>2, <2>2, StartInv
  <2>3. ASSUME NEW n \in 1 .. Len(unread), Chunk(n)
        PROVE  Inv'
    BY <1>2, <2>3, ChunkInv
  <2>4. CASE Exit \/ ChildError
    BY <1>2, <2>4, QuietInv
  <2>5. CASE Closes
    BY <1>2, <2>5, CloseInv DEF Closes
  <2>6. ASSUME NEW k \in Turns, Consumer(k) \/ TimerFires(k)
        PROVE  Inv'
    <3>1. CASE Consume(k)
      BY <1>2, <3>1, ConsumeInv
    <3>2. CASE Wait(k)
      BY <1>2, <3>2, QuietInv
    <3>3. CASE TimerFires(k)
      <4>1. timer' \in [Turns -> BOOLEAN] /\ Terminate(k, "timeout", "TIMED_OUT")
        BY <1>2, <3>3 DEF TimerFires, Inv, TypeOK
      <4>2. QED
        BY <1>2, <4>1, TerminateInv
    <3>4. QED
      BY <2>6, <3>1, <3>2, <3>3 DEF Consumer
  <2>7. CASE AbsoluteTimerFires \/ CancelSeen
    <3>1. timer' \in [Turns -> BOOLEAN] /\ turn \in Turns
      BY <1>2, <2>7 DEF AbsoluteTimerFires, CancelSeen, Inv, TypeOK
    <3>2. Terminate(turn, "timeout", "TIMED_OUT") \/ Terminate(turn, "cancel", "CANCELLED")
      BY <2>7 DEF AbsoluteTimerFires, CancelSeen
    <3>3. QED
      BY <1>2, <3>1, <3>2, TerminateInv
  <2>8. CASE Worker
    BY <1>2, <2>8, EndInv, RestartInv DEF Worker
  <2>9. CASE UNCHANGED vars
    <3>1. UNCHANGED <<turn, printed, unread, buffer, verdict, run, events, cursor, text>>
      BY <2>9 DEF vars, process, consumer, record, worker
    <3>2. TypeOK' /\ Settled'
      BY ZenonT(60), <1>2, <2>9 DEF vars, process, consumer, record, worker, Inv, TypeOK, Settled, Answered
    <3>3. QED
      BY <1>2, <3>1, <3>2, Unheard DEF Inv
  <2>10. QED
    BY <1>2, <2>1, <2>2, <2>3, <2>4, <2>5, <2>6, <2>7, <2>8, <2>9 DEF Next
<1>3. QED
  BY <1>1, <1>2, PTL DEF Spec

\* Every value has its type, and no consumer is ahead of its buffer.
THEOREM TypeCorrect == Spec => []TypeOK
<1>1. Inv => TypeOK
  BY DEF Inv
<1>2. QED
  BY <1>1, InvCorrect, PTL

\* However its output is cut into chunks, a stored answer is made of the lines
\* that speak: every one within the limit, once and in order, as far as the limit
\* of answers allows.
THEOREM AnswerWholeCorrect == Spec => []AnswerWhole
<1>1. ASSUME Inv
      PROVE  AnswerWhole
  <2> DEFINE said == text[turn]
             es == events[turn]
             N == Len(printed)
             Full == \E i \in DOMAIN answer : answer[i].at + Size[answer[i].line] >= AnswerLimit
  <2> SUFFICES ASSUME row = "SUCCEEDED"
               PROVE  AnswerWhole
    BY DEF AnswerWhole
  <2>1. printed \in Seq(Lines) /\ es \in Seq(EventType) /\ said \in Seq(Note)
    BY <1>1, PrintedFacts DEF Inv
  <2>2. DOMAIN printed = 1 .. N /\ DOMAIN es = 1 .. Len(es) /\ DOMAIN said = 1 .. Len(said)
    BY <2>1
  <2>3. Heard(es, verdict, printed, N) /\ Told(said, es, Len(es))
    BY <1>1 DEF Inv, Heeds, Settled, Completed, Keeps, Answered
  <2>4. answer = Sliced(said) /\ Adjoins(said)
    BY <1>1 DEF Inv, Heeds, Settled, Placed, TypeOK
  <2> HIDE DEF said, es, N
  <2>5. PICK n \in 0 .. Len(said) :
           /\ Len(answer) = n /\ \A i \in 1 .. n : answer[i] = said[i]
           /\ n < Len(said) => n # 0 /\ said[n].at + Size[said[n].line] >= AnswerLimit
    BY <2>1, <2>4, SlicedFacts
  <2>6. DOMAIN answer = 1 .. n /\ \A i \in DOMAIN answer : i \in DOMAIN said /\ answer[i] = said[i]
    <3>1. answer \in Seq(Note)
      BY <2>1, <2>4, SlicedFacts
    <3>2. QED
      BY <2>1, <2>2, <2>5, <3>1
  <2>7. n < Len(said) => Full
    BY <2>1, <2>5, <2>6
  <2> HIDE DEF Full
  <2>8. \A i \in DOMAIN said : \E j \in DOMAIN printed : said[i].line = printed[j] /\ Speaks(printed[j])
    <3>1. TAKE i \in DOMAIN said
    <3>2. PICK c \in 1 .. Len(es) : Out(es[c]) /\ es[c].line = said[i].line
      BY <2>3 DEF Told
    <3>3. QED
      BY <2>2, <2>3, <3>2 DEF Heard
  <2>9. ASSUME NEW h \in DOMAIN said, NEW i \in DOMAIN said, NEW j \in DOMAIN printed, NEW k \in DOMAIN printed,
               said[h].line = printed[j], said[i].line = printed[k], h < i
        PROVE  j < k
    <3>1. PICK a \in 1 .. Len(es) : Out(es[a]) /\ es[a].line = said[h].line
      BY <2>3 DEF Told
    <3>2. PICK c \in 1 .. Len(es) : Out(es[c]) /\ es[c].line = said[i].line
      BY <2>3 DEF Told
    <3>3. a < c
      BY <2>3, <2>9, <3>1, <3>2 DEF Told
    <3>4. QED
      BY <2>2, <2>3, <2>9, <3>1, <3>2, <3>3 DEF Heard
  <2>10. ASSUME NEW j \in DOMAIN printed, Speaks(printed[j]), Small(printed[j]),
                \A i \in DOMAIN answer : answer[i].line # printed[j]
         PROVE  Full /\ \A i \in DOMAIN answer, k \in DOMAIN printed : answer[i].line = printed[k] => k < j
    <3>1. PICK c \in 1 .. Len(es) : Out(es[c]) /\ es[c].line = printed[j]
      BY <2>2, <2>3, <2>10 DEF Heard
    <3>2. PICK x \in DOMAIN said : said[x].line = printed[j]
      BY <2>3, <3>1 DEF Told
    <3>3. x \notin DOMAIN answer
      BY <2>6, <2>10, <3>2
    <3>4. n < Len(said) /\ \A i \in DOMAIN answer : i < x
      BY <2>1, <2>2, <2>5, <2>6, <3>3
    <3>5. QED
      BY <2>6, <2>7, <2>9, <3>2, <3>4
  <2>11. \A i \in DOMAIN answer : \E j \in DOMAIN printed : answer[i].line = printed[j] /\ Speaks(printed[j])
    BY <2>6, <2>8
  <2>12. \A h, i \in DOMAIN answer, j, k \in DOMAIN printed :
            answer[h].line = printed[j] /\ answer[i].line = printed[k] /\ h < i => j < k
    BY <2>6, <2>9
  <2>13. QED
    BY <2>10, <2>11, <2>12 DEF AnswerWhole, Full
<1>2. QED
  BY <1>1, InvCorrect, PTL

\* A process whose last verdict within the limit is a failure is not answered.
THEOREM VerdictHeededCorrect == Spec => []VerdictHeeded
<1>1. ASSUME Inv
      PROVE  VerdictHeeded
  <2>1. SUFFICES ASSUME NEW i \in DOMAIN printed, Answered,
                        Kind[printed[i]] \in {"error", "result_error"}, Small(printed[i]),
                        \A j \in i + 1 .. Len(printed) :
                           ~(Kind[printed[j]] \in {"task_complete", "result"} \/ ~Small(printed[j]))
                 PROVE  FALSE
    BY DEF VerdictHeeded
  <2>2. printed \in Seq(Lines)
    BY <1>1, PrintedFacts DEF Inv
  <2>3. Heard(events[turn], verdict, printed, Len(printed)) /\ verdict # "failed"
    BY <1>1, <2>1 DEF Inv, Heeds, Settled, Completed
  <2>4. i \in 1 .. Len(printed) /\ Fails(printed[i])
    BY <2>1, <2>2 DEF Fails
  <2>5. \A j \in i + 1 .. Len(printed) : ~Succeeds(printed[j]) /\ Small(printed[j])
    BY <2>1 DEF Succeeds
  <2>6. QED
    BY <2>1, <2>3, <2>4, <2>5 DEF Heard
<1>2. QED
  BY <1>1, InvCorrect, PTL
=============================================================================
