----------------------------- MODULE OutputProofs -----------------------------
(***************************************************************************)
(* Proofs about write() and perror(), for any number of threads in any     *)
(* number of address spaces, any sizes of pages, buffers and programs, and *)
(* any strings.                                                            *)
(*                                                                         *)
(* OInv holds the two properties of errors together with what they lean    *)
(* on: the errno of a thread's address space is its own last error until   *)
(* another thread has failed.                                              *)
(*                                                                         *)
(* That the screen shows the paper goes by induction over the characters   *)
(* of a string: printc and the paper stay Alike over each of them.         *)
(***************************************************************************)
EXTENDS Output, FiniteSetTheorems, NaturalsInduction, TLAPS

OutputTypes ==
  /\ space \in [Thread -> Thread] /\ heap \in Nat
  /\ errno \in [Thread -> Int] /\ lastError \in [Thread -> Int]
  /\ ret \in [Thread -> Int] /\ message \in [Thread -> Int]
  /\ pc \in [Thread -> {"user", "trapped", "perror"}]
  /\ typed \in Seq(Nat)

(* errno is the error a thread has stored, unless another has disturbed it.*)
ErrnoIsOwn == \A t \in Thread : t \notin disturbed => errno[Own(t)] = lastError[t]

OInv ==
  /\ OutputTypes /\ ErrnoIsOwn /\ StopsOnlySo /\ PerrorTellsOwn

-----------------------------------------------------------------------------
(* Addresses and pages.                                                    *)

LEMMA DivBounds ==
  ASSUME NEW P \in Nat \ {0}, NEW a \in Int
  PROVE  a \div P \in Int /\ P * (a \div P) <= a /\ a < P * (a \div P + 1)
OBVIOUS

LEMMA ProductMonotone ==
  ASSUME NEW P \in Nat \ {0}, NEW x \in Int, NEW y \in Int, x < y
  PROVE  P * (x + 1) <= P * y
<1>1. PICK d \in Nat : y = x + 1 + d
  <2>1. y - x - 1 \in Nat /\ y = x + 1 + (y - x - 1)
    OBVIOUS
  <2> QED BY ONLY <2>1
<1>2. P * y = P * (x + 1) + P * d
  BY <1>1
<1>3. P * d >= 0 /\ P * d \in Int /\ P * (x + 1) \in Int
  OBVIOUS
<1> QED BY ONLY <1>2, <1>3

LEMMA DivisionIs ==
  ASSUME NEW P \in Nat \ {0}, NEW a \in Int
  PROVE  a \div P \in Int /\ a % P \in 0 .. P - 1 /\ a = P * (a \div P) + (a % P)
OBVIOUS

LEMMA RemainderIs ==
  ASSUME NEW P \in Nat \ {0}, NEW a \in Int, NEW q \in Int, NEW r \in 0 .. P - 1, a = P * q + r
  PROVE  a % P = r
<1> DEFINE x == a \div P
           e == a % P
           m == P * x
           k == P * q
<1>1. x \in Int /\ e \in 0 .. P - 1 /\ a = m + e
  BY ONLY DivisionIs, P \in Nat \ {0}, a \in Int
<1> HIDE DEF x, e
<1>2. x < q => P * (x + 1) <= k
  BY <1>1, ProductMonotone
<1>3. q < x => P * (q + 1) <= m
  BY <1>1, ProductMonotone
<1>4. P * (x + 1) = m + P /\ P * (q + 1) = k + P /\ m \in Int /\ k \in Int /\ a = k + r
  BY <1>1
<1>5. x = q => m = k
  OBVIOUS
<1> HIDE DEF m, k
<1>6. ~(x < q) /\ ~(q < x)
  BY <1>1, <1>2, <1>3, <1>4
<1> QED BY <1>1, <1>4, <1>5, <1>6 DEF e

(* A higher address is not on a lower page.                                *)
LEMMA PageMonotone ==
  ASSUME NEW a \in Int, NEW b \in Int, a <= b PROVE Page(a) \in Int /\ Page(b) \in Int /\ Page(a) <= Page(b)
<1> USE OutputAssumption
<1> DEFINE x == a \div PAGE_SIZE
           y == b \div PAGE_SIZE
<1>1. /\ x \in Int /\ PAGE_SIZE * x <= a /\ a < PAGE_SIZE * (x + 1)
      /\ y \in Int /\ PAGE_SIZE * y <= b /\ b < PAGE_SIZE * (y + 1)
  BY DivBounds
<1> HIDE DEF x, y
<1>2. ~(y < x)
  <2>1. SUFFICES ASSUME y < x PROVE FALSE
    OBVIOUS
  <2>2. PAGE_SIZE * (y + 1) <= PAGE_SIZE * x
    BY ONLY <1>1, <2>1, ProductMonotone, PAGE_SIZE \in Nat \ {0}
  <2> DEFINE p == PAGE_SIZE * (y + 1)
             q == PAGE_SIZE * x
  <2>3. p \in Int /\ q \in Int /\ b < p /\ p <= q /\ q <= a
    BY <1>1, <2>2
  <2> HIDE DEF p, q
  <2> QED BY <2>3
<1> QED BY <1>1, <1>2 DEF Page, x, y

(* access_ok does not let a block wrap: a size is an int.                  *)
LEMMA BlockDoesNotWrap ==
  ASSUME NEW b \in 0 .. AddressSpace - 1, NEW n \in Nat, 2 * n < AddressSpace,
         access_ok(b, n)
  PROVE  USER_FIRST_PAGE <= Page(b) /\ Page(b + n) <= EndPage
<1> USE OutputAssumption
<1>1. CASE b + n < AddressSpace
  <2>1. (b + n) % AddressSpace = b + n
    BY <1>1
  <2> QED BY <2>1 DEF access_ok
<1>2. CASE b + n >= AddressSpace
  <2> DEFINE c == b + n - AddressSpace
  <2>1. (b + n) % AddressSpace = c /\ c \in Int /\ b \in Int /\ c + PAGE_SIZE <= b
    BY <1>2
  <2> HIDE DEF c
  <2>2. Page(b) <= Page(c)
    BY <2>1 DEF access_ok
  <2> DEFINE x == b \div PAGE_SIZE
             y == c \div PAGE_SIZE
  <2>3. /\ x \in Int /\ b < PAGE_SIZE * (x + 1)
        /\ y \in Int /\ PAGE_SIZE * y <= c
    BY <2>1, DivBounds
  <2>4. x <= y
    BY <2>2 DEF Page
  <2> HIDE DEF x, y
  <2>5. PAGE_SIZE * (x + 1) <= PAGE_SIZE * (y + 1)
    BY <2>3, <2>4, ProductMonotone
  <2>6. PAGE_SIZE * (y + 1) = PAGE_SIZE * y + PAGE_SIZE
    BY <2>3
  <2> QED BY <2>1, <2>3, <2>5, <2>6
<1> QED BY <1>1, <1>2

(* What access_ok accepts and the kernel cannot read.                      *)
LEMMA FaultOnlySo ==
  ASSUME NEW b \in 0 .. AddressSpace - 1, NEW n \in Nat, 2 * n < AddressSpace,
         heap \in Nat, access_ok(b, n), ~Readable(b, n)
  PROVE  heap = 0 /\ Page(b) >= USER_FIRST_PAGE /\ Page(b + n - 1) = EndPage
<1> USE OutputAssumption
<1>1. PICK a \in b .. b + n - 1 : Page(a) \notin USER_FIRST_PAGE .. EndPage - 1 + heap
  BY DEF Readable
<1>2. /\ a \in Int /\ b \in Int /\ b + n - 1 \in Int /\ b + n \in Int
      /\ b <= a /\ a <= b + n - 1 /\ b + n - 1 <= b + n
  BY <1>1
<1>3. USER_FIRST_PAGE <= Page(b) /\ Page(b + n) <= EndPage
  BY BlockDoesNotWrap
<1>4. /\ Page(b) <= Page(a) /\ Page(a) <= Page(b + n - 1)
      /\ Page(b + n - 1) <= Page(b + n)
      /\ Page(a) \in Int /\ Page(b) \in Int /\ Page(b + n - 1) \in Int
      /\ Page(b + n) \in Int
  BY ONLY <1>2, PageMonotone
<1>5. EndPage \in Nat
  BY DEF EndPage
<1> QED BY <1>1, <1>3, <1>4, <1>5

(* perror's message is among the data, where the kernel can read it.       *)
LEMMA MessageReadable ==
  ASSUME heap \in Nat PROVE Readable((EndPage - 1) * PAGE_SIZE, 1)
<1> USE OutputAssumption
<1> DEFINE k == EndPage - 1
           b == k * PAGE_SIZE
           x == b \div PAGE_SIZE
<1>1. k \in Nat /\ USER_FIRST_PAGE <= k
  BY DEF EndPage
<1> HIDE DEF k
<1>2. b \in Nat /\ b = PAGE_SIZE * k
  BY <1>1
<1> HIDE DEF b
<1>3. x \in Int /\ PAGE_SIZE * x <= b /\ b < PAGE_SIZE * (x + 1)
  <2>1. PAGE_SIZE \in Nat \ {0} /\ b \in Int
    BY <1>2
  <2> QED BY ONLY <2>1, DivBounds
<1> HIDE DEF x
<1>4. ~(k < x) /\ ~(x < k)
  <2>1. k < x => PAGE_SIZE * (k + 1) <= PAGE_SIZE * x
    BY <1>1, <1>3, ProductMonotone
  <2>2. x < k => PAGE_SIZE * (x + 1) <= PAGE_SIZE * k
    BY <1>1, <1>3, ProductMonotone
  <2>3. PAGE_SIZE * (k + 1) = PAGE_SIZE * k + PAGE_SIZE
    BY <1>1
  <2> QED BY <1>1, <1>2, <1>3, <2>1, <2>2, <2>3
<1>5. x = k
  BY <1>1, <1>3, <1>4
<1>6. \A a \in b .. b + 1 - 1 : a = b
  BY <1>2
<1>7. Page(b) \in USER_FIRST_PAGE .. EndPage - 1 + heap
  BY <1>1, <1>5 DEF Page, x, k, EndPage
<1> QED BY <1>6, <1>7 DEF Readable, b, k

-----------------------------------------------------------------------------
(* Strings.                                                                *)

LEMMA PrefixTyped ==
  ASSUME NEW s \in Seq(Nat), NEW r \in Prefixes(s)
  PROVE  r \in Seq(Nat)
<1>1. PICK n \in 0 .. Len(s) : r = SubSeq(s, 1, n)
  BY DEF Prefixes
<1> QED BY <1>1

(* What sys_write has checked before it copies.                            *)
LEMMA CheckPasses ==
  ASSUME NEW fd \in {0, 1}, NEW b \in Int, NEW n \in Int, WriteCheck(fd, b, n) = 0
  PROVE  fd = 1 /\ b # 0 /\ n >= 0 /\ access_ok(b, n)
BY DEF WriteCheck, EBADF, EFAULT, EINVAL

LEMMA CheckIsNumber ==
  ASSUME NEW fd \in {0, 1}, NEW b \in Int, NEW n \in Int
  PROVE  WriteCheck(fd, b, n) \in Int
BY DEF WriteCheck, EBADF, EFAULT, EINVAL

-----------------------------------------------------------------------------
(* Induction over the characters of a string, in the form the provers can  *)
(* use: a set that has 0 and with each number the next has them all.       *)
LEMMA UpTo ==
  ASSUME NEW N \in Nat, NEW S, 0 \in S, \A n \in 0 .. N - 1 : n \in S => n + 1 \in S
  PROVE  \A n \in 0 .. N : n \in S
<1>1. \E R : IsWellFoundedOn(R, Nat) /\ \A x, y \in Nat : x < y => <<x, y>> \in R
  <2>1. \A x, y \in Nat : x < y => <<x, y>> \in OpToRel(<, Nat)
    BY Zenon DEF OpToRel
  <2> QED BY <2>1, NatLessThanWellFounded, Zenon
<1>2. PICK R : IsWellFoundedOn(R, Nat) /\ \A x, y \in Nat : x < y => <<x, y>> \in R
  BY <1>1
<1> DEFINE T == {n \in 0 .. N : n \notin S}
<1>3. SUFFICES ASSUME T # {} PROVE FALSE
  OBVIOUS
<1>4. T \subseteq Nat /\ IsWellFoundedOn(R, Nat)
  BY <1>2
<1>5. \E x \in T : \A y \in T : <<y, x>> \notin R
  BY <1>3, <1>4, WFMin
<1>6. PICK x \in T : \A y \in T : <<y, x>> \notin R
  BY <1>5
<1>7. x # 0 /\ x \in 0 .. N /\ x \notin S
  OBVIOUS
<1>8. x - 1 \in 0 .. N - 1 /\ x - 1 \in Nat /\ x \in Nat /\ x - 1 < x /\ (x - 1) + 1 = x
  BY <1>7
<1>9. <<x - 1, x>> \in R
  BY <1>2, <1>8
<1>10. x - 1 \in T
  BY <1>7, <1>8
<1> QED BY <1>6, <1>9, <1>10

(* The screens between the characters of a string, and the states of the   *)
(* paper.                                                                  *)
Screens(s, str, h) ==
  h[0] = s /\ \A n \in 1 .. Len(str) : h[n] = PrintC(h[n - 1], str[n])

Papers(str, p) ==
  p[0] = NewPaper /\ \A n \in 1 .. Len(str) : p[n] = TypedOn(p[n - 1], str[n])

LEMMA PrintAllIs ==
  ASSUME NEW s, NEW str \in Seq(Nat)
  PROVE  \E h : Screens(s, str, h) /\ PrintAll(s, str) = h[Len(str)]
<1> DEFINE step(h, n) == IF n = 0 THEN s ELSE PrintC(h[n - 1], str[n])
           run(h, m)  == h = [n \in 0 .. m |-> step(h, n)]
           S == {m \in Nat : \E h : run(h, m)}
           N == Len(str)
<1>1. N \in Nat
  OBVIOUS
<1>2. 0 \in S
  <2>1. run([n \in 0 .. 0 |-> s], 0)
    OBVIOUS
  <2> QED BY <2>1
<1>3. ASSUME NEW m \in 0 .. N - 1, m \in S PROVE m + 1 \in S
  <2>1. PICK h : run(h, m)
    BY <1>3
  <2> DEFINE c == PrintC(h[m], str[m + 1])
             k == [n \in 0 .. m + 1 |-> IF n <= m THEN h[n] ELSE c]
  <2>2. m \in Nat /\ m + 1 \in Nat
    OBVIOUS
  <2>3. ASSUME NEW n \in 0 .. m + 1 PROVE k[n] = step(k, n)
    <3>1. CASE n = 0
      BY <2>1, <3>1
    <3>2. CASE n \in 1 .. m
      <4>1. n - 1 \in 0 .. m /\ n \in 0 .. m
        BY <3>2
      <4>2. k[n] = h[n] /\ k[n - 1] = h[n - 1]
        BY <3>2, <4>1
      <4>3. h[n] = PrintC(h[n - 1], str[n])
        BY <2>1, <3>2, <4>1
      <4> HIDE DEF k
      <4> QED BY <3>2, <4>2, <4>3
    <3>3. CASE n = m + 1
      <4>1. k[n] = c /\ k[n - 1] = h[m] /\ n # 0 /\ n - 1 = m
        BY <3>3
      <4> HIDE DEF k
      <4> QED BY <3>3, <4>1
    <3> QED BY <3>1, <3>2, <3>3
  <2>4. k = [n \in 0 .. m + 1 |-> k[n]]
    OBVIOUS
  <2> HIDE DEF k
  <2>5. run(k, m + 1)
    BY <2>3, <2>4
  <2> QED BY <2>2, <2>5
<1>4. N \in S
  <2> HIDE DEF S
  <2>1. \A n \in 0 .. N : n \in S
    BY <1>1, <1>2, <1>3, UpTo
  <2> QED BY <1>1, <2>1
<1> DEFINE g == CHOOSE h : run(h, N)
<1>5. run(g, N)
  BY <1>4
<1>6. PrintAll(s, str) = g[N]
  BY DEF PrintAll
<1> HIDE DEF g
<1>7. Screens(s, str, g)
  BY <1>1, <1>5 DEF Screens
<1> QED BY <1>6, <1>7

LEMMA PaperIs ==
  ASSUME NEW str \in Seq(Nat)
  PROVE  \E h : Papers(str, h) /\ Paper(str) = h[Len(str)]
<1> DEFINE step(h, n) == IF n = 0 THEN NewPaper ELSE TypedOn(h[n - 1], str[n])
           run(h, m)  == h = [n \in 0 .. m |-> step(h, n)]
           S == {m \in Nat : \E h : run(h, m)}
           N == Len(str)
<1>1. N \in Nat
  OBVIOUS
<1>2. 0 \in S
  <2>1. run([n \in 0 .. 0 |-> NewPaper], 0)
    OBVIOUS
  <2> QED BY <2>1
<1>3. ASSUME NEW m \in 0 .. N - 1, m \in S PROVE m + 1 \in S
  <2>1. PICK h : run(h, m)
    BY <1>3
  <2> DEFINE c == TypedOn(h[m], str[m + 1])
             k == [n \in 0 .. m + 1 |-> IF n <= m THEN h[n] ELSE c]
  <2>2. m \in Nat /\ m + 1 \in Nat
    OBVIOUS
  <2>3. ASSUME NEW n \in 0 .. m + 1 PROVE k[n] = step(k, n)
    <3>1. CASE n = 0
      BY <2>1, <3>1
    <3>2. CASE n \in 1 .. m
      <4>1. n - 1 \in 0 .. m /\ n \in 0 .. m
        BY <3>2
      <4>2. k[n] = h[n] /\ k[n - 1] = h[n - 1]
        BY <3>2, <4>1
      <4>3. h[n] = TypedOn(h[n - 1], str[n])
        BY <2>1, <3>2, <4>1
      <4> HIDE DEF k
      <4> QED BY <3>2, <4>2, <4>3
    <3>3. CASE n = m + 1
      <4>1. k[n] = c /\ k[n - 1] = h[m] /\ n # 0 /\ n - 1 = m
        BY <3>3
      <4> HIDE DEF k
      <4> QED BY <3>3, <4>1
    <3> QED BY <3>1, <3>2, <3>3
  <2>4. k = [n \in 0 .. m + 1 |-> k[n]]
    OBVIOUS
  <2> HIDE DEF k
  <2>5. run(k, m + 1)
    BY <2>3, <2>4
  <2> QED BY <2>2, <2>5
<1>4. N \in S
  <2> HIDE DEF S
  <2>1. \A n \in 0 .. N : n \in S
    BY <1>1, <1>2, <1>3, UpTo
  <2> QED BY <1>1, <2>1
<1> DEFINE g == CHOOSE h : run(h, N)
<1>5. run(g, N)
  BY <1>4
<1>6. Paper(str) = g[N]
  BY DEF Paper
<1> HIDE DEF g
<1>7. Papers(str, g)
  BY <1>1, <1>5 DEF Papers
<1> QED BY <1>6, <1>7

(* The paper of a longer text goes on from that of the shorter.            *)
LEMMA PaperGoesOn ==
  ASSUME NEW a \in Seq(Nat), NEW b \in Seq(Nat), NEW p, Papers(a \o b, p)
  PROVE  /\ Paper(a) = p[Len(a)]
         /\ Paper(a \o b) = p[Len(a) + Len(b)]
         /\ \A n \in 1 .. Len(b) : p[Len(a) + n] = TypedOn(p[Len(a) + n - 1], b[n])
<1>1. ASSUME NEW c \in Seq(Nat), Len(c) <= Len(a \o b),
             \A n \in 1 .. Len(c) : c[n] = (a \o b)[n]
      PROVE  Paper(c) = p[Len(c)]
  <2>1. PICK q : Papers(c, q) /\ Paper(c) = q[Len(c)]
    BY PaperIs
  <2> DEFINE S == {n \in 0 .. Len(c) : q[n] = p[n]}
  <2>2. 0 \in S
    BY <2>1 DEF Papers
  <2>3. ASSUME NEW n \in 0 .. Len(c) - 1, n \in S PROVE n + 1 \in S
    <3>1. /\ n + 1 \in 1 .. Len(c) /\ n + 1 \in 1 .. Len(a \o b) /\ n + 1 \in 0 .. Len(c)
          /\ (n + 1) - 1 = n
      BY <1>1
    <3>2. q[n + 1] = TypedOn(q[n], c[n + 1])
      BY <2>1, <3>1 DEF Papers
    <3>3. p[n + 1] = TypedOn(p[n], (a \o b)[n + 1])
      BY <3>1 DEF Papers
    <3> QED BY <1>1, <2>3, <3>1, <3>2, <3>3
  <2>4. \A n \in 0 .. Len(c) : n \in S
    <3>1. Len(c) \in Nat
      OBVIOUS
    <3> HIDE DEF S
    <3> QED BY <2>2, <2>3, <3>1, UpTo
  <2>5. Len(c) \in S
    BY <2>4
  <2> QED BY <2>1, <2>5
<1>2. /\ a \o b \in Seq(Nat) /\ Len(a \o b) = Len(a) + Len(b)
      /\ \A n \in 1 .. Len(a) : a[n] = (a \o b)[n]
  OBVIOUS
<1>3. Paper(a) = p[Len(a)] /\ Paper(a \o b) = p[Len(a) + Len(b)]
  <2>1. Len(a) \in Nat /\ Len(b) \in Nat
    OBVIOUS
  <2>2. Paper(a) = p[Len(a)]
    BY <1>1, <1>2, <2>1
  <2>3. Paper(a \o b) = p[Len(a \o b)]
    <3> DEFINE c == a \o b
    <3>1. /\ c \in Seq(Nat) /\ Len(c) <= Len(a \o b)
          /\ \A n \in 1 .. Len(c) : c[n] = (a \o b)[n]
      BY <1>2, <2>1
    <3> HIDE DEF c
    <3>2. Paper(c) = p[Len(c)]
      BY <1>1, <3>1
    <3> QED BY <3>2 DEF c
  <2> QED BY <1>2, <2>2, <2>3
<1>4. ASSUME NEW n \in 1 .. Len(b) PROVE p[Len(a) + n] = TypedOn(p[Len(a) + n - 1], b[n])
  <2>1. Len(a) + n \in 1 .. Len(a \o b) /\ (a \o b)[Len(a) + n] = b[n]
    OBVIOUS
  <2> QED BY <2>1 DEF Papers
<1> QED BY <1>3, <1>4

-----------------------------------------------------------------------------
(* The screen and the paper after the same characters.                     *)
ScreenTyped(s) == s \in [x : Nat, y : Rows, cell : [Rows \X Columns -> Nat]]

(* Full lines are followed by the next.                                    *)
LinesTyped(lines) ==
  /\ lines \in Seq(Seq(Nat)) /\ lines # << >>
  /\ Len(lines[Len(lines)]) < NUM_COLUMNS

(* The cells that handlers draw on. *)
Overlaid == {<<0, 0>>} \cup ClockCells

CellsShow(s, lines) ==
  \A r \in Rows, c \in Columns :
    <<r, c>> \notin Overlaid => s.cell[<<r, c>>] = Shows(lines, r, c)

Alike(s, lines) ==
  /\ ScreenTyped(s) /\ LinesTyped(lines)
  /\ s.x = Len(lines[Len(lines)]) /\ s.y = RowOf(Len(lines))
  /\ CellsShow(s, lines)

There(lines, r, c) == {i \in 1 .. Len(lines) : RowOf(i) = r /\ Len(lines[i]) > c}

LEMMA MaxIs ==
  ASSUME NEW N \in Nat, NEW S \in SUBSET (1 .. N), S # {}
  PROVE  Max(S) \in S /\ \A i \in S : i <= Max(S)
<1> DEFINE T == {n \in 0 .. N : \A i \in S : i <= N - n}
<1>1. 0 \in T
  OBVIOUS
<1>2. \E n \in 0 .. N - 1 : n \in T /\ n + 1 \notin T
  <2>1. SUFFICES ASSUME \A n \in 0 .. N - 1 : n \in T => n + 1 \in T PROVE FALSE
    OBVIOUS
  <2>2. \A n \in 0 .. N : n \in T
    <3> HIDE DEF T
    <3> QED BY <1>1, <2>1, UpTo
  <2>3. N \in T
    BY <2>2
  <2>4. PICK i \in S : TRUE
    OBVIOUS
  <2> QED BY <2>3, <2>4
<1>3. PICK n \in 0 .. N - 1 : n \in T /\ n + 1 \notin T
  BY <1>2
<1>4. n + 1 \in 0 .. N
  BY <1>3
<1>5. PICK i \in S : ~(i <= N - (n + 1))
  BY <1>3, <1>4
<1>6. \A j \in S : i >= j
  BY <1>3, <1>5
<1> QED BY <1>5, <1>6 DEF Max

(* What a cell shows depends on the lines that reach it only.              *)
LEMMA ShowsSame ==
  ASSUME NEW l1 \in Seq(Seq(Nat)), NEW l2 \in Seq(Seq(Nat)), NEW r \in Rows, NEW c \in Columns,
         There(l1, r, c) = There(l2, r, c),
         \A i \in There(l1, r, c) : l1[i][c + 1] = l2[i][c + 1]
  PROVE  Shows(l1, r, c) = Shows(l2, r, c)
<1>1. CASE There(l1, r, c) = {}
  BY <1>1 DEF Shows, There
<1>2. CASE There(l1, r, c) # {}
  <2>1. There(l1, r, c) \in SUBSET (1 .. Len(l1)) /\ Len(l1) \in Nat
    BY DEF There
  <2>2. Max(There(l1, r, c)) \in There(l1, r, c)
    BY <1>2, <2>1, MaxIs
  <2> QED BY <1>2, <2>2 DEF Shows, There
<1> QED BY <1>1, <1>2

(* A new line shows nothing yet.                                           *)
LEMMA NewLineShowsNothing ==
  ASSUME NEW lines \in Seq(Seq(Nat)), NEW r \in Rows, NEW c \in Columns
  PROVE  Shows(Append(lines, << >>), r, c) = Shows(lines, r, c)
<1> DEFINE more == Append(lines, << >>)
<1>1. /\ more \in Seq(Seq(Nat)) /\ Len(more) = Len(lines) + 1
      /\ \A i \in 1 .. Len(lines) : more[i] = lines[i]
      /\ Len(more[Len(lines) + 1]) = 0 /\ Len(lines) \in Nat
  <2>1. /\ more \in Seq(Seq(Nat)) /\ Len(more) = Len(lines) + 1
        /\ \A i \in 1 .. Len(lines) : more[i] = lines[i]
        /\ more[Len(lines) + 1] = << >> /\ Len(lines) \in Nat
    OBVIOUS
  <2>2. Len(<< >>) = 0
    OBVIOUS
  <2> QED BY <2>1, <2>2
<1>2. c \in Nat
  BY ConsoleAssumption DEF Columns
<1> HIDE DEF more
<1>3. ~(Len(more[Len(lines) + 1]) > c)
  BY <1>1, <1>2
<1>4. There(more, r, c) = There(lines, r, c)
  <2>1. ASSUME NEW i \in 1 .. Len(more), Len(more[i]) > c PROVE i \in 1 .. Len(lines)
    BY <1>1, <1>3, <2>1
  <2>2. \A i \in 1 .. Len(lines) : i \in 1 .. Len(more)
    BY <1>1
  <2>3. ASSUME NEW i PROVE i \in There(more, r, c) <=> i \in There(lines, r, c)
    BY <1>1, <2>1, <2>2 DEF There
  <2> QED BY <2>3
<1>5. ASSUME NEW i \in There(more, r, c) PROVE more[i][c + 1] = lines[i][c + 1]
  <2>1. i \in 1 .. Len(lines)
    BY <1>4 DEF There
  <2> QED BY <1>1, <2>1
<1> QED BY <1>1, <1>4, <1>5, ShowsSame DEF more

(* The last line with one character more.                                  *)
Longer(lines, ch) == [lines EXCEPT ![Len(lines)] = Append(@, ch)]

LEMMA CharacterShows ==
  ASSUME NEW lines \in Seq(Seq(Nat)), lines # << >>, NEW ch \in Nat,
         NEW r \in Rows, NEW c \in Columns
  PROVE  Shows(Longer(lines, ch), r, c) =
           IF r = RowOf(Len(lines)) /\ c = Len(lines[Len(lines)]) THEN ch
                                                                  ELSE Shows(lines, r, c)
<1> DEFINE more == Longer(lines, ch)
           m    == Len(lines)
           last == lines[m]
<1>1. /\ m \in 1 .. m /\ m \in Nat /\ last \in Seq(Nat) /\ Len(last) \in Nat /\ c \in Nat
      /\ \A i \in 1 .. m : lines[i] \in Seq(Nat)
  BY ConsoleAssumption DEF Columns
<1>2. /\ more \in Seq(Seq(Nat)) /\ Len(more) = m
      /\ more[m] = Append(last, ch)
      /\ \A i \in 1 .. m : i # m => more[i] = lines[i]
  BY DEF Longer
<1>3. /\ Len(more[m]) = Len(last) + 1 /\ more[m][Len(last) + 1] = ch
      /\ \A k \in 1 .. Len(last) : more[m][k] = last[k]
  BY <1>1, <1>2
<1> HIDE DEF more, last
<1>4. CASE r = RowOf(m) /\ c = Len(last)
  <2>1. m \in There(more, r, c) /\ There(more, r, c) \in SUBSET (1 .. m)
    BY <1>1, <1>2, <1>3, <1>4 DEF There
  <2>2. /\ Max(There(more, r, c)) \in There(more, r, c)
        /\ \A i \in There(more, r, c) : i <= Max(There(more, r, c))
    BY <1>1, <2>1, MaxIs
  <2>3. Max(There(more, r, c)) = m
    BY <1>1, <2>1, <2>2
  <2>4. There(more, r, c) # {}
    BY <2>1
  <2>5. Shows(more, r, c) = more[m][c + 1]
    BY <2>3, <2>4 DEF Shows, There
  <2> QED BY <1>3, <1>4, <2>5 DEF more, last
<1>5. CASE ~(r = RowOf(m) /\ c = Len(last))
  <2>1. There(more, r, c) = There(lines, r, c)
    <3>1. ASSUME NEW i \in 1 .. m
          PROVE  RowOf(i) = r /\ Len(more[i]) > c <=> RowOf(i) = r /\ Len(lines[i]) > c
      <4>1. CASE i = m
        <5>1. Len(more[i]) = Len(last) + 1 /\ Len(lines[i]) = Len(last)
          BY <1>3, <4>1 DEF last
        <5> QED BY <1>1, <1>5, <4>1, <5>1
      <4>2. CASE i # m
        BY <1>2, <4>2
      <4> QED BY <4>1, <4>2
    <3> QED BY <1>2, <3>1 DEF There
  <2>2. ASSUME NEW i \in There(more, r, c) PROVE more[i][c + 1] = lines[i][c + 1]
    <3>1. i \in 1 .. m /\ Len(lines[i]) > c
      BY <2>1 DEF There
    <3>2. CASE i = m
      BY <1>1, <1>3, <3>1, <3>2 DEF last
    <3>3. CASE i # m
      BY <1>2, <3>1, <3>3
    <3> QED BY <3>2, <3>3
  <2>3. Shows(more, r, c) = Shows(lines, r, c)
    BY <1>2, <2>1, <2>2, ShowsSame
  <2> QED BY <1>5, <2>3 DEF more, last
<1> QED BY <1>4, <1>5 DEF last

LEMMA NextRowIs ==
  ASSUME NEW m \in Nat
  PROVE  RowOf(m) \in Rows /\ (RowOf(m) + 1) % NUM_ROWS = RowOf(m + 1)
<1> DEFINE a == FirstRow + m - 1
           N == NUM_ROWS
           d == a \div N
           e == a % N
<1>1. N \in Nat \ {0} /\ a \in Int
  BY ConsoleAssumption DEF Rows
<1> HIDE DEF a, N
<1>2. d \in Int /\ e \in 0 .. N - 1 /\ a = N * d + e
  BY <1>1
<1> HIDE DEF d, e
<1>3. (a + 1) % N = (e + 1) % N
  <2>1. CASE e + 1 < N
    <3>1. a + 1 = N * d + (e + 1) /\ e + 1 \in 0 .. N - 1
      BY <1>1, <1>2, <2>1
    <3> QED BY <1>1, <1>2, <3>1
  <2>2. CASE e + 1 = N
    <3>1. a + 1 = N * (d + 1) /\ d + 1 \in Int
      BY <1>1, <1>2, <2>2
    <3>2. a + 1 = N * (d + 1) + 0 /\ N = N * 1 + 0 /\ 0 \in 0 .. N - 1 /\ a + 1 \in Int
      BY <1>1, <1>2, <3>1
    <3>3. (a + 1) % N = 0 /\ N % N = 0
      BY <1>1, <3>1, <3>2, RemainderIs
    <3> QED BY <2>2, <3>3
  <2> QED BY <1>1, <1>2, <2>1, <2>2
<1>4. RowOf(m) = e /\ RowOf(m + 1) = (a + 1) % N
  BY ConsoleAssumption DEF RowOf, a, e, N
<1> QED BY <1>2, <1>3, <1>4 DEF Rows, N

LEMMA ScreenOf ==
  ASSUME NEW x \in Nat, NEW y \in Rows, NEW cell \in [Rows \X Columns -> Nat]
  PROVE  ScreenTyped([x |-> x, y |-> y, cell |-> cell])
BY DEF ScreenTyped

LEMMA ScreenIs ==
  ASSUME NEW s, ScreenTyped(s)
  PROVE  s = [x |-> s.x, y |-> s.y, cell |-> s.cell]
BY DEF ScreenTyped

LEMMA NextRowOf ==
  ASSUME NEW x, NEW y, NEW cell
  PROVE  NextRow([x |-> x, y |-> y, cell |-> cell])
           = [x |-> 0, y |-> (y + 1) % NUM_ROWS, cell |-> cell]
<1> DEFINE s == [x |-> x, y |-> y, cell |-> cell]
           row == (y + 1) % NUM_ROWS
<1>1. s.x = x /\ s.y = y /\ s.cell = cell
  OBVIOUS
<1>2. [s EXCEPT !.x = 0, !.y = row] = [[s EXCEPT !.x = 0] EXCEPT !.y = row]
  OBVIOUS
<1>3. [s EXCEPT !.x = 0] = [x |-> 0, y |-> y, cell |-> cell]
  OBVIOUS
<1>4. [[x |-> 0, y |-> y, cell |-> cell] EXCEPT !.y = row]
        = [x |-> 0, y |-> row, cell |-> cell]
  OBVIOUS
<1>5. NextRow(s) = [s EXCEPT !.x = 0, !.y = row]
  BY DEF NextRow
<1> QED BY <1>2, <1>3, <1>4, <1>5

LEMMA PutOf ==
  ASSUME NEW x, NEW y, NEW cell, NEW ch
  PROVE  Put([x |-> x, y |-> y, cell |-> cell], ch)
           = [x |-> x + 1, y |-> y, cell |-> [cell EXCEPT ![<<y, x>>] = ch]]
<1> DEFINE s == [x |-> x, y |-> y, cell |-> cell]
           new == [cell EXCEPT ![<<y, x>>] = ch]
<1>1. s.x = x /\ s.y = y /\ s.cell = cell
  OBVIOUS
<1>2. [s EXCEPT !.cell = new, !.x = x + 1] = [[s EXCEPT !.cell = new] EXCEPT !.x = x + 1]
  OBVIOUS
<1>3. [s EXCEPT !.cell = new] = [x |-> x, y |-> y, cell |-> new]
  OBVIOUS
<1>4. [[x |-> x, y |-> y, cell |-> new] EXCEPT !.x = x + 1]
        = [x |-> x + 1, y |-> y, cell |-> new]
  OBVIOUS
<1>5. Put(s, ch) = [s EXCEPT !.cell = new, !.x = x + 1]
  BY DEF Put
<1> QED BY <1>2, <1>3, <1>4, <1>5

(* The cursor goes to the next row, the paper to a new line.               *)
LEMMA LineFeed ==
  ASSUME NEW s, NEW lines \in Seq(Seq(Nat)), ScreenTyped(s), lines # << >>,
         s.y = RowOf(Len(lines)), CellsShow(s, lines)
  PROVE  Alike(NextRow(s), Append(lines, << >>))
<1> DEFINE more == Append(lines, << >>)
           n    == NextRow(s)
<1>1. /\ more \in Seq(Seq(Nat)) /\ more # << >> /\ Len(more) = Len(lines) + 1
      /\ Len(more[Len(more)]) = 0 /\ Len(lines) \in Nat
  <2>1. /\ more \in Seq(Seq(Nat)) /\ Len(more) = Len(lines) + 1
        /\ more[Len(lines) + 1] = << >> /\ Len(lines) \in Nat
    OBVIOUS
  <2>2. Len(<< >>) = 0
    OBVIOUS
  <2> HIDE DEF more
  <2>3. more # << >>
    BY <2>1, <2>2
  <2> QED BY <2>1, <2>2, <2>3
<1>2. RowOf(Len(more)) \in Rows /\ RowOf(Len(more)) = (s.y + 1) % NUM_ROWS
  BY <1>1, NextRowIs
<1>3. /\ n = [x |-> 0, y |-> (s.y + 1) % NUM_ROWS, cell |-> s.cell]
      /\ n.x = 0 /\ n.y = (s.y + 1) % NUM_ROWS /\ n.cell = s.cell
  <2>1. n = [x |-> 0, y |-> (s.y + 1) % NUM_ROWS, cell |-> s.cell]
    <3>1. s = [x |-> s.x, y |-> s.y, cell |-> s.cell]
      BY ScreenIs
    <3>2. NextRow([x |-> s.x, y |-> s.y, cell |-> s.cell])
            = [x |-> 0, y |-> (s.y + 1) % NUM_ROWS, cell |-> s.cell]
      BY ONLY NextRowOf
    <3> QED BY ONLY <3>1, <3>2
  <2> QED BY <2>1
<1> HIDE DEF n
<1>4. ScreenTyped(n)
  <2>1. s.cell \in [Rows \X Columns -> Nat]
    BY DEF ScreenTyped
  <2> QED BY <1>2, <1>3, <2>1, ScreenOf
<1>5. LinesTyped(more) /\ n.x = Len(more[Len(more)])
  BY <1>1, <1>3, ConsoleAssumption DEF LinesTyped
<1>6. CellsShow(n, more)
  BY <1>3, NewLineShowsNothing DEF CellsShow
<1> QED BY <1>2, <1>3, <1>4, <1>5, <1>6 DEF Alike, n

(* A character goes to the cursor's cell, and to the end of the last line. *)
LEMMA CharacterPut ==
  ASSUME NEW s, NEW lines, Alike(s, lines), NEW ch \in Nat
  PROVE  /\ ScreenTyped(Put(s, ch)) /\ CellsShow(Put(s, ch), Longer(lines, ch))
         /\ Longer(lines, ch) \in Seq(Seq(Nat)) /\ Longer(lines, ch) # << >>
         /\ Len(Longer(lines, ch)) = Len(lines)
         /\ Len(Longer(lines, ch)[Len(lines)]) = s.x + 1
         /\ Put(s, ch).x = s.x + 1 /\ Put(s, ch).y = s.y
<1> DEFINE more == Longer(lines, ch)
           m    == Len(lines)
           p    == Put(s, ch)
<1>1. /\ lines \in Seq(Seq(Nat)) /\ lines # << >> /\ m \in Nat /\ m \in 1 .. m
      /\ lines[m] \in Seq(Nat) /\ Len(lines[m]) = s.x /\ s.y = RowOf(m)
      /\ s.x < NUM_COLUMNS /\ CellsShow(s, lines)
  BY DEF Alike, LinesTyped
<1>2. /\ s.x \in Nat /\ s.x \in Columns /\ s.y \in Rows
      /\ s.cell \in [Rows \X Columns -> Nat] /\ ScreenTyped(s)
  BY <1>1, ConsoleAssumption DEF Alike, ScreenTyped, Columns
<1>3. /\ more \in Seq(Seq(Nat)) /\ more # << >> /\ Len(more) = m
      /\ Len(more[m]) = s.x + 1
  BY <1>1 DEF Longer
<1>4. /\ p = [x |-> s.x + 1, y |-> s.y, cell |-> [s.cell EXCEPT ![<<s.y, s.x>>] = ch]]
      /\ p.cell = [s.cell EXCEPT ![<<s.y, s.x>>] = ch]
      /\ p.x = s.x + 1 /\ p.y = s.y
  <2>1. p = [x |-> s.x + 1, y |-> s.y, cell |-> [s.cell EXCEPT ![<<s.y, s.x>>] = ch]]
    <3>1. s = [x |-> s.x, y |-> s.y, cell |-> s.cell]
      BY <1>2, ScreenIs
    <3>2. Put([x |-> s.x, y |-> s.y, cell |-> s.cell], ch)
            = [x |-> s.x + 1, y |-> s.y, cell |-> [s.cell EXCEPT ![<<s.y, s.x>>] = ch]]
      BY ONLY PutOf
    <3> QED BY ONLY <3>1, <3>2
  <2> QED BY <2>1
<1> HIDE DEF p
<1>5. ScreenTyped(p)
  <2>1. [s.cell EXCEPT ![<<s.y, s.x>>] = ch] \in [Rows \X Columns -> Nat]
    BY <1>2
  <2>2. s.x + 1 \in Nat /\ s.y \in Rows
    BY <1>2
  <2> QED BY <1>4, <2>1, <2>2, ScreenOf
<1> HIDE DEF more
<1>6. ASSUME NEW r \in Rows, NEW c \in Columns, <<r, c>> \notin Overlaid
      PROVE  p.cell[<<r, c>>] = Shows(more, r, c)
  <2>1. s.cell[<<r, c>>] = Shows(lines, r, c)
    BY <1>1, <1>6 DEF CellsShow
  <2>2. p.cell[<<r, c>>] = IF r = s.y /\ c = s.x THEN ch ELSE s.cell[<<r, c>>]
    BY <1>2, <1>4
  <2>3. Shows(more, r, c) = IF r = RowOf(m) /\ c = Len(lines[m]) THEN ch ELSE Shows(lines, r, c)
    BY <1>1, CharacterShows DEF more
  <2> QED BY <1>1, <2>1, <2>2, <2>3
<1>7. CellsShow(p, more)
  BY <1>6 DEF CellsShow
<1> QED BY <1>3, <1>4, <1>5, <1>7 DEF p, more

(* printc and the paper stay alike, whatever the character and the width.  *)
LEMMA PrintCAlike ==
  ASSUME NEW s, NEW lines, Alike(s, lines), NEW ch \in Nat
  PROVE  Alike(PrintC(s, ch), TypedOn(lines, ch))
<1> DEFINE m == Len(lines)
<1>1. /\ lines \in Seq(Seq(Nat)) /\ lines # << >> /\ m \in Nat /\ m \in 1 .. m
      /\ lines[m] \in Seq(Nat) /\ Len(lines[m]) = s.x /\ s.y = RowOf(m)
      /\ s.x < NUM_COLUMNS /\ s.x \in Nat /\ NUM_COLUMNS \in Nat
      /\ ScreenTyped(s) /\ CellsShow(s, lines)
  BY ConsoleAssumption DEF Alike, LinesTyped, ScreenTyped
<1>2. CASE ch = Newline
  <2>1. PrintC(s, ch) = NextRow(s)
    BY <1>2 DEF PrintC
  <2>2. TypedOn(lines, ch) = Append(lines, << >>)
    <3>1. [lines EXCEPT ![Len(lines)] = @] = lines
      BY <1>1
    <3> QED BY <1>2, <3>1 DEF TypedOn
  <2> QED BY <1>1, <2>1, <2>2, LineFeed
<1>3. CASE ch # Newline
  <2> DEFINE p    == Put(s, ch)
             more == Longer(lines, ch)
  <2>1. /\ ScreenTyped(p) /\ CellsShow(p, more) /\ more \in Seq(Seq(Nat)) /\ more # << >>
        /\ Len(more) = m /\ Len(more[m]) = s.x + 1 /\ p.x = s.x + 1 /\ p.y = s.y
    BY CharacterPut
  <2>2. PrintC(s, ch) = IF s.x + 1 >= NUM_COLUMNS THEN NextRow(p) ELSE p
    BY <1>3 DEF PrintC
  <2>3. TypedOn(lines, ch) = IF Len(more[m]) = NUM_COLUMNS THEN Append(more, << >>) ELSE more
    BY <1>3, <2>1 DEF TypedOn, Last, Longer
  <2> HIDE DEF p, more
  <2>4. CASE s.x + 1 = NUM_COLUMNS
    <3>1. Alike(NextRow(p), Append(more, << >>))
      BY <1>1, <2>1, LineFeed
    <3> QED BY <1>1, <2>1, <2>2, <2>3, <2>4, <3>1
  <2>5. CASE s.x + 1 < NUM_COLUMNS
    <3>1. Alike(p, more)
      BY <1>1, <2>1, <2>5 DEF Alike, LinesTyped
    <3> QED BY <1>1, <2>1, <2>2, <2>3, <2>5, <3>1
  <2> QED BY <1>1, <2>4, <2>5
<1> QED BY <1>2, <1>3

(* So they do over a whole string.                                         *)
LEMMA StringAlike ==
  ASSUME NEW s, NEW a \in Seq(Nat), NEW b \in Seq(Nat), Alike(s, Paper(a))
  PROVE  Alike(PrintAll(s, b), Paper(a \o b))
<1>1. PICK h : Screens(s, b, h) /\ PrintAll(s, b) = h[Len(b)]
  BY PrintAllIs
<1>2. a \o b \in Seq(Nat) /\ Len(a) \in Nat /\ Len(b) \in Nat
  OBVIOUS
<1>3. PICK p : Papers(a \o b, p)
  BY <1>2, PaperIs
<1>4. /\ Paper(a) = p[Len(a)] /\ Paper(a \o b) = p[Len(a) + Len(b)]
      /\ \A n \in 1 .. Len(b) : p[Len(a) + n] = TypedOn(p[Len(a) + n - 1], b[n])
  BY <1>3, PaperGoesOn
<1> DEFINE S == {n \in 0 .. Len(b) : Alike(h[n], p[Len(a) + n])}
<1>5. 0 \in S
  <2>1. h[0] = s /\ p[Len(a) + 0] = Paper(a)
    BY <1>1, <1>2, <1>4 DEF Screens
  <2> QED BY <1>2, <2>1
<1>6. ASSUME NEW n \in 0 .. Len(b) - 1, n \in S PROVE n + 1 \in S
  <2>1. /\ n + 1 \in 1 .. Len(b) /\ (n + 1) - 1 = n /\ n + 1 \in 0 .. Len(b)
        /\ Len(a) + (n + 1) - 1 = Len(a) + n
    BY <1>2
  <2>2. b[n + 1] \in Nat
    BY <2>1
  <2>3. h[n + 1] = PrintC(h[n], b[n + 1])
    BY <1>1, <2>1 DEF Screens
  <2>4. p[Len(a) + (n + 1)] = TypedOn(p[Len(a) + n], b[n + 1])
    <3>1. p[Len(a) + (n + 1)] = TypedOn(p[Len(a) + (n + 1) - 1], b[n + 1])
      BY ONLY <1>4, <2>1
    <3> QED BY ONLY <2>1, <3>1
  <2>5. Alike(h[n + 1], p[Len(a) + (n + 1)])
    BY <1>6, <2>2, <2>3, <2>4, PrintCAlike
  <2> QED BY <2>1, <2>5
<1>7. \A n \in 0 .. Len(b) : n \in S
  <2> HIDE DEF S
  <2> QED BY <1>2, <1>5, <1>6, UpTo
<1>8. Len(b) \in S
  BY <1>2, <1>7
<1> QED BY <1>1, <1>4, <1>8

(* The echo of a key touches the corner only, and puts the cursor back.    *)
LEMMA EchoAlike ==
  ASSUME NEW s, NEW lines, Alike(s, lines), NEW k \in Nat
  PROVE  Alike(PrintCXY(s, 0, 0, k), lines)
<1> DEFINE corner == [s EXCEPT !.x = 0, !.y = 0]
           e      == PrintCXY(s, 0, 0, k)
<1>1. /\ s \in [x : Nat, y : Rows, cell : [Rows \X Columns -> Nat]]
      /\ 0 \in Rows /\ 0 \in Columns
  BY ConsoleAssumption DEF Alike, ScreenTyped, Rows, Columns
<1>2. corner.x = 0 /\ corner.y = 0 /\ corner.cell = s.cell /\ DOMAIN corner = {"x", "y", "cell"}
  BY <1>1
<1>3. \/ PrintC(corner, k).cell = s.cell
      \/ PrintC(corner, k).cell = [s.cell EXCEPT ![<<0, 0>>] = k]
  <2>1. /\ NextRow(corner).cell = s.cell
        /\ Put(corner, k).cell = [s.cell EXCEPT ![<<0, 0>>] = k]
        /\ NextRow(Put(corner, k)).cell = [s.cell EXCEPT ![<<0, 0>>] = k]
    BY <1>1, <1>2 DEF NextRow, Put
  <2> HIDE DEF corner
  <2> QED BY <2>1 DEF PrintC
<1>4. DOMAIN PrintC(corner, k) = {"x", "y", "cell"}
  BY <1>2 DEF PrintC, NextRow, Put
<1>5. /\ e.x = s.x /\ e.y = s.y /\ e.cell = PrintC(corner, k).cell
      /\ e = [x |-> s.x, y |-> s.y, cell |-> PrintC(corner, k).cell]
  <2> DEFINE q == PrintC(corner, k)
  <2>1. e = [q EXCEPT !.x = s.x, !.y = s.y]
    BY DEF PrintCXY
  <2> HIDE DEF q, e
  <2> QED BY <1>4, <2>1 DEF q
<1>6. /\ e.cell \in [Rows \X Columns -> Nat]
      /\ \A r \in Rows, c \in Columns : <<r, c>> # <<0, 0>> => e.cell[<<r, c>>] = s.cell[<<r, c>>]
  BY <1>1, <1>3, <1>5
<1> HIDE DEF e
<1>7. ScreenTyped(e)
  BY <1>1, <1>5, <1>6 DEF ScreenTyped
<1> QED BY <1>5, <1>6, <1>7 DEF Alike, CellsShow, Overlaid, e

(* The clock touches its own cells only.                                   *)
LEMMA ClockAlike ==
  ASSUME NEW s, NEW lines, Alike(s, lines), NEW face \in [ClockColumns -> Nat]
  PROVE  Alike(ShowClock(s, face), lines)
<1> DEFINE cells == [p \in Rows \X Columns |-> IF p \in ClockCells THEN face[p[2]] ELSE s.cell[p]]
           e     == ShowClock(s, face)
<1>1. s \in [x : Nat, y : Rows, cell : [Rows \X Columns -> Nat]]
  BY DEF Alike, ScreenTyped
<1>2. ASSUME NEW p \in Rows \X Columns
      PROVE  /\ cells[p] \in Nat
             /\ p \notin ClockCells => cells[p] = s.cell[p]
  <2>1. s.cell[p] \in Nat
    BY <1>1
  <2>2. p \in ClockCells => face[p[2]] \in Nat
    BY DEF ClockCells
  <2> QED BY <2>1, <2>2
<1>3. cells \in [Rows \X Columns -> Nat]
  BY <1>2
<1>4. e = [s EXCEPT !.cell = cells]
  BY DEF ShowClock
<1> HIDE DEF cells, e
<1>5. /\ e.x = s.x /\ e.y = s.y /\ e.cell = cells
      /\ e \in [x : Nat, y : Rows, cell : [Rows \X Columns -> Nat]]
  BY <1>1, <1>3, <1>4
<1>6. ScreenTyped(e)
  BY <1>5 DEF ScreenTyped
<1>7. CellsShow(e, lines)
  <2>1. ASSUME NEW r \in Rows, NEW c \in Columns, <<r, c>> \notin Overlaid
        PROVE  e.cell[<<r, c>>] = Shows(lines, r, c)
    <3>1. <<r, c>> \in Rows \X Columns /\ <<r, c>> \notin ClockCells
      BY <2>1 DEF Overlaid
    <3>2. e.cell[<<r, c>>] = s.cell[<<r, c>>]
      BY <1>2, <1>5, <3>1
    <3> QED BY <2>1, <3>2 DEF Alike, CellsShow
  <2> QED BY <2>1 DEF CellsShow
<1> QED BY <1>5, <1>6, <1>7 DEF Alike, e

-----------------------------------------------------------------------------
LEMMA InitHolds == OutputInit => OInv
<1> SUFFICES ASSUME OutputInit PROVE OInv
  OBVIOUS
<1>1. OutputTypes
  BY DEF OutputInit, OutputTypes
<1>2. ErrnoIsOwn /\ StopsOnlySo /\ PerrorTellsOwn
  BY DEF OutputInit, ErrnoIsOwn, StopsOnlySo, PerrorTellsOwn, Own
<1> QED BY <1>1, <1>2 DEF OInv

(* A value goes back to the wrapper, whatever was printed before.          *)
LEMMA ReturnKeeps ==
  ASSUME OInv, NEW t \in Thread, NEW v \in Int, Returns(t, v), typed' \in Seq(Nat),
         UNCHANGED <<kernel, space, heap, errno, message, history>>
  PROVE  OInv'
<1> USE DEF OInv, OutputTypes, history
<1>1. ret' = [ret EXCEPT ![t] = v] /\ pc' = [pc EXCEPT ![t] = "trapped"]
  BY DEF Returns
<1>2. OutputTypes'
  BY <1>1
<1>3. ErrnoIsOwn' /\ StopsOnlySo'
  BY DEF ErrnoIsOwn, StopsOnlySo, Own, Page, EndPage
<1>4. PerrorTellsOwn'
  BY <1>1 DEF PerrorTellsOwn
<1> QED BY <1>2, <1>3, <1>4

(* The kernel stops on a block that accounts for it.                       *)
LEMMA StopKeeps ==
  ASSUME OInv, NEW b \in Int, NEW n \in Int, kernel' \in {"fault", "overrun"},
         kernel' = "fault" => heap = 0 /\ Page(b) >= USER_FIRST_PAGE /\ Page(b + n - 1) = EndPage,
         blame' = [buffer |-> b, size |-> n], typed' \in Seq(Nat),
         UNCHANGED <<ret, pc, space, heap, errno, message, lastError, disturbed>>
  PROVE  OInv'
<1> USE DEF OInv, OutputTypes
<1>1. OutputTypes' /\ ErrnoIsOwn' /\ PerrorTellsOwn'
  BY DEF ErrnoIsOwn, PerrorTellsOwn, Own
<1>2. StopsOnlySo'
  BY DEF StopsOnlySo, Page, EndPage
<1> QED BY <1>1, <1>2

(* What is printed of a string goes behind what was printed before.        *)
LEMMA PrintsTyped ==
  ASSUME OInv, NEW str \in Seq(Nat), typed' = typed \o str PROVE typed' \in Seq(Nat)
<1>1. typed \in Seq(Nat)
  BY DEF OInv, OutputTypes
<1>2. typed \o str \in Seq(Nat)
  BY <1>1
<1> QED BY ONLY <1>2, typed' = typed \o str

LEMMA SysWriteKeeps ==
  ASSUME OInv, NEW t \in Thread, NEW fd \in {0, 1}, NEW b \in Int, NEW n \in Int,
         NEW str \in Seq(Nat), SysWrite(t, fd, b, n, str),
         access_ok(b, n) /\ n >= 0 /\ ~Readable(b, n) =>
           heap = 0 /\ Page(b) >= USER_FIRST_PAGE /\ Page(b + n - 1) = EndPage,
         UNCHANGED <<space, heap, errno, message, lastError, disturbed>>
  PROVE  OInv'
<1>0. typed \in Seq(Nat)
  BY DEF OInv, OutputTypes
<1>1. CASE WriteRefused(t, fd, b, n)
  <2>1. Returns(t, WriteCheck(fd, b, n)) /\ WriteCheck(fd, b, n) \in Int
    BY <1>1, CheckIsNumber DEF WriteRefused
  <2>2. typed' \in Seq(Nat) /\ UNCHANGED <<kernel, space, heap, errno, message, history>>
    BY <1>0, <1>1 DEF WriteRefused, history
  <2> QED BY <2>1, <2>2, ReturnKeeps
<1>2. CASE WriteShows(t, fd, b, n, str)
  <2>1. typed' \in Seq(Nat)
    BY <1>2, PrintsTyped DEF WriteShows, Prints
  <2>2. Returns(t, n) /\ UNCHANGED <<kernel, space, heap, errno, message, history>>
    BY <1>2 DEF WriteShows, history
  <2> QED BY <2>1, <2>2, ReturnKeeps
<1>3. CASE WriteFaults(t, fd, b, n)
  <2>1. access_ok(b, n) /\ n >= 0 /\ ~Readable(b, n)
    BY <1>3, CheckPasses DEF WriteFaults
  <2>2. /\ kernel' \in {"fault", "overrun"} /\ blame' = [buffer |-> b, size |-> n]
        /\ UNCHANGED <<ret, pc>> /\ typed' \in Seq(Nat)
    BY <1>0, <1>3 DEF WriteFaults
  <2> QED BY <2>1, <2>2, StopKeeps
<1>4. CASE WriteOverruns(t, fd, b, n, str)
  <2>1. PICK shown \in Prefixes(str) : Prints(shown)
    BY <1>4 DEF WriteOverruns
  <2>2. typed' \in Seq(Nat)
    BY <2>1, PrefixTyped, PrintsTyped DEF Prints
  <2>3. /\ kernel' = "overrun" /\ blame' = [buffer |-> b, size |-> n]
        /\ UNCHANGED <<ret, pc>>
    BY <1>4 DEF WriteOverruns
  <2> QED BY <2>2, <2>3, StopKeeps
<1> QED BY <1>1, <1>2, <1>3, <1>4 DEF SysWrite

LEMMA WriteKeeps == ASSUME OInv, NEW t \in Thread, Write(t) PROVE OInv'
<1> USE OutputAssumption
<1>1. PICK fd \in {0, 1}, b \in Addresses, str \in Strings :
        SysWrite(t, fd, b, Len(str), str) \/ SysWrite(t, fd, b, -1, << >>)
  BY DEF Write
<1>2. /\ heap \in Nat /\ b \in 0 .. AddressSpace - 1 /\ b \in Int
      /\ UNCHANGED <<space, heap, errno, message, lastError, disturbed>>
      /\ str \in Seq(Nat) /\ Len(str) \in Nat /\ 2 * Len(str) < AddressSpace
  BY DEF Write, OInv, OutputTypes
<1>3. CASE SysWrite(t, fd, b, Len(str), str)
  <2> DEFINE n == Len(str)
  <2>1. access_ok(b, n) /\ ~Readable(b, n) =>
          heap = 0 /\ Page(b) >= USER_FIRST_PAGE /\ Page(b + n - 1) = EndPage
    BY <1>2, FaultOnlySo
  <2> QED BY <1>2, <1>3, <2>1, SysWriteKeeps
<1>4. CASE SysWrite(t, fd, b, -1, << >>)
  <2>1. -1 \in Int /\ ~(-1 >= 0) /\ << >> \in Seq(Nat)
    OBVIOUS
  <2> QED BY <1>2, <1>4, <2>1, SysWriteKeeps
<1> QED BY <1>1, <1>3, <1>4

LEMMA OtherCallKeeps == ASSUME OInv, NEW t \in Thread, OtherCall(t) PROVE OInv'
<1>0. PICK call \in OtherCalls : \E e \in {0} \cup Errors[Handler(call)] : Returns(t, -e)
  BY DEF OtherCall
<1>1. PICK e \in {0} \cup Errors[Handler(call)] : Returns(t, -e)
  BY <1>0
<1>2. -e \in Int
  BY <1>1, CallsReturn DEF OtherCall
<1>3. typed' \in Seq(Nat) /\ UNCHANGED <<kernel, space, heap, errno, message, history>>
  BY DEF OtherCall, OInv, OutputTypes
<1> QED BY <1>1, <1>2, <1>3, ReturnKeeps

(* The thread's own error is in errno again, and the others' is not.       *)
LEMMA WrapperKeeps == ASSUME OInv, NEW t \in Thread, WrapperReturns(t) PROVE OInv'
<1> USE DEF OInv, OutputTypes, Own
<1>1. /\ pc' = [pc EXCEPT ![t] = "user"]
      /\ ret' = [ret EXCEPT ![t] = 0] /\ message' = [message EXCEPT ![t] = 0]
      /\ UNCHANGED <<kernel, space, heap, typed, blame>>
  BY DEF WrapperReturns
<1>2. /\ errno' \in [Thread -> Int] /\ lastError' \in [Thread -> Int]
      /\ ErrnoIsOwn' /\ PerrorTellsOwn'
  <2>1. CASE ret[t] < 0
    <3>1. /\ errno' = [errno EXCEPT ![Own(t)] = -ret[t]]
          /\ lastError' = [lastError EXCEPT ![t] = -ret[t]]
          /\ disturbed' = (disturbed \cup {u \in Thread : Own(u) = Own(t)}) \ {t}
      BY <2>1 DEF WrapperReturns
    <3>2. ErrnoIsOwn'
      BY <1>1, <3>1 DEF ErrnoIsOwn
    <3>3. PerrorTellsOwn'
      BY <1>1, <3>1 DEF PerrorTellsOwn
    <3> QED BY <3>1, <3>2, <3>3
  <2>2. CASE ~(ret[t] < 0)
    <3>1. UNCHANGED <<errno, lastError, disturbed>>
      BY <2>2 DEF WrapperReturns
    <3> QED BY <1>1, <3>1 DEF ErrnoIsOwn, PerrorTellsOwn
  <2> QED BY <2>1, <2>2
<1>3. OutputTypes'
  <2>2. ret' \in [Thread -> Int] /\ message' \in [Thread -> Int]
    BY <1>1
  <2>3. pc' \in [Thread -> {"user", "trapped", "perror"}]
    BY <1>1
  <2> QED BY <1>1, <1>2, <2>2, <2>3
<1>4. StopsOnlySo'
  BY <1>1 DEF StopsOnlySo, Page, EndPage
<1> QED BY <1>2, <1>3, <1>4

LEMMA FetchKeeps == ASSUME OInv, NEW t \in Thread, PerrorFetches(t) PROVE OInv'
<1> USE DEF OInv, OutputTypes, Own
<1>1. /\ message' = [message EXCEPT ![t] = errno[Own(t)]]
      /\ pc' = [pc EXCEPT ![t] = "perror"] /\ pc[t] = "user"
      /\ UNCHANGED <<kernel, space, heap, errno, ret, typed, history>>
  BY DEF PerrorFetches
<1>2. OutputTypes' /\ ErrnoIsOwn'
  BY <1>1 DEF ErrnoIsOwn, history
<1>3. PerrorTellsOwn'
  BY <1>1 DEF PerrorTellsOwn, ErrnoIsOwn, history
<1>4. StopsOnlySo'
  BY <1>1 DEF StopsOnlySo, Page, EndPage, history
<1> QED BY <1>2, <1>3, <1>4

LEMMA PerrorKeeps ==
  ASSUME OInv, NEW t \in Thread, PerrorWrites(t) PROVE OInv'
<1> USE OutputAssumption
<1> DEFINE b == (EndPage - 1) * PAGE_SIZE
<1>1. /\ SysWrite(t, 1, b, 1, Message)
      /\ UNCHANGED <<space, heap, errno, message, lastError, disturbed>>
  BY DEF PerrorWrites
<1>2. b \in Int /\ Message \in Seq(Nat)
  BY DEF Message, EndPage
<1>3. Readable(b, 1)
  BY MessageReadable DEF OInv, OutputTypes
<1> HIDE DEF b
<1>4. 1 \in {0, 1} /\ 1 \in Int
  OBVIOUS
<1> QED BY ONLY OInv, t \in Thread, <1>1, <1>2, <1>3, <1>4, SysWriteKeeps

LEMMA OutputStepKeeps == OInv /\ [OutputNext]_outputVars => OInv'
<1> SUFFICES ASSUME OInv, [OutputNext]_outputVars PROVE OInv'
  OBVIOUS
<1>1. CASE UNCHANGED outputVars
  BY <1>1 DEF OInv, OutputTypes, ErrnoIsOwn, StopsOnlySo, PerrorTellsOwn, Own, Page, EndPage, outputVars, history
<1>2. ASSUME NEW t \in Thread, Write(t) PROVE OInv'
  BY <1>2, WriteKeeps
<1>3. ASSUME NEW t \in Thread, OtherCall(t) PROVE OInv'
  BY <1>3, OtherCallKeeps
<1>4. ASSUME NEW t \in Thread, WrapperReturns(t) PROVE OInv'
  BY <1>4, WrapperKeeps
<1>5. ASSUME NEW t \in Thread, PerrorFetches(t) PROVE OInv'
  BY <1>5, FetchKeeps
<1>6. ASSUME NEW t \in Thread, PerrorWrites(t) PROVE OInv'
  BY <1>6, PerrorKeeps
<1>7. ASSUME NEW k \in Keys, KeyEcho(k) PROVE OInv'
  BY <1>7 DEF KeyEcho, OInv, OutputTypes, ErrnoIsOwn, StopsOnlySo, PerrorTellsOwn,
              Own, Page, EndPage, history
<1>8. ASSUME NEW face \in Faces, ClockShown(face) PROVE OInv'
  BY <1>8 DEF ClockShown, OInv, OutputTypes, ErrnoIsOwn, StopsOnlySo, PerrorTellsOwn,
              Own, Page, EndPage, history
<1> QED BY <1>1, <1>2, <1>3, <1>4, <1>5, <1>6, <1>7, <1>8 DEF OutputNext

-----------------------------------------------------------------------------
(* The screen is alike with the paper in every state.                      *)
OnPaper == Alike(screen, Paper(typed))

LEMMA InitOnPaper == OutputInit => OnPaper
<1> SUFFICES ASSUME OutputInit PROVE OnPaper
  OBVIOUS
<1>1. screen = BlankScreen /\ typed = << >> /\ << >> \in Seq(Nat) /\ Len(<< >>) = 0
  BY DEF OutputInit
<1>2. Paper(<< >>) = NewPaper
  <2>1. PICK p : Papers(<< >>, p) /\ Paper(<< >>) = p[Len(<< >>)]
    BY <1>1, PaperIs
  <2> QED BY <1>1, <2>1 DEF Papers
<1>3. /\ NewPaper \in Seq(Seq(Nat)) /\ NewPaper # << >> /\ Len(NewPaper) = 1
      /\ NewPaper[1] = << >>
  BY DEF NewPaper
<1>4. ScreenTyped(BlankScreen)
  BY ConsoleAssumption DEF ScreenTyped, BlankScreen, Rows, Blank
<1>5. BlankScreen.x = 0 /\ BlankScreen.y = RowOf(1)
  BY ConsoleAssumption DEF BlankScreen, RowOf
<1>6. ASSUME NEW r \in Rows, NEW c \in Columns
      PROVE  BlankScreen.cell[<<r, c>>] = Shows(NewPaper, r, c)
  <2>1. {i \in 1 .. Len(NewPaper) : RowOf(i) = r /\ Len(NewPaper[i]) > c} = {}
    BY <1>1, <1>3 DEF Columns
  <2>2. Shows(NewPaper, r, c) = Blank
    BY <2>1 DEF Shows
  <2> QED BY <2>2 DEF BlankScreen
<1>7. Alike(BlankScreen, NewPaper)
  BY <1>1, <1>3, <1>4, <1>5, <1>6, ConsoleAssumption DEF Alike, LinesTyped, CellsShow
<1> QED BY <1>1, <1>2, <1>7 DEF OnPaper

LEMMA PrintsOnPaper ==
  ASSUME OInv, OnPaper, NEW str \in Seq(Nat), Prints(str) PROVE OnPaper'
<1>1. screen' = PrintAll(screen, str) /\ typed' = typed \o str /\ typed \in Seq(Nat)
  BY DEF Prints, OInv, OutputTypes
<1>2. Alike(PrintAll(screen, str), Paper(typed \o str))
  BY <1>1, StringAlike DEF OnPaper
<1> QED BY <1>1, <1>2 DEF OnPaper

LEMMA SysWriteOnPaper ==
  ASSUME OInv, OnPaper, NEW t \in Thread, NEW fd, NEW b, NEW n, NEW str \in Seq(Nat),
         SysWrite(t, fd, b, n, str)
  PROVE  OnPaper'
<1>1. CASE UNCHANGED <<screen, typed>>
  BY <1>1 DEF OnPaper
<1>2. CASE WriteShows(t, fd, b, n, str)
  BY <1>2, PrintsOnPaper DEF WriteShows
<1>3. CASE WriteOverruns(t, fd, b, n, str)
  <2>1. PICK shown \in Prefixes(str) : Prints(shown)
    BY <1>3 DEF WriteOverruns
  <2> QED BY <2>1, PrefixTyped, PrintsOnPaper
<1> QED BY <1>1, <1>2, <1>3 DEF SysWrite, WriteRefused, WriteFaults

LEMMA OnPaperKept == OInv /\ OnPaper /\ [OutputNext]_outputVars => OnPaper'
<1> SUFFICES ASSUME OInv, OnPaper, [OutputNext]_outputVars PROVE OnPaper'
  OBVIOUS
<1>1. CASE UNCHANGED <<screen, typed>>
  BY <1>1 DEF OnPaper
<1>2. ASSUME NEW t \in Thread, Write(t) PROVE OnPaper'
  <2>1. PICK fd \in {0, 1}, b \in Addresses, str \in Strings :
          SysWrite(t, fd, b, Len(str), str) \/ SysWrite(t, fd, b, -1, << >>)
    BY <1>2 DEF Write
  <2>2. str \in Seq(Nat) /\ << >> \in Seq(Nat)
    BY OutputAssumption
  <2> QED BY <2>1, <2>2, SysWriteOnPaper
<1>3. ASSUME NEW t \in Thread, PerrorWrites(t) PROVE OnPaper'
  <2>1. Message \in Seq(Nat)
    BY DEF Message
  <2> QED BY <1>3, <2>1, SysWriteOnPaper DEF PerrorWrites
<1>4. ASSUME NEW k \in Keys, KeyEcho(k) PROVE OnPaper'
  <2>1. screen' = PrintCXY(screen, 0, 0, k) /\ typed' = typed /\ k \in Nat
    BY <1>4, OutputAssumption DEF KeyEcho
  <2> QED BY <2>1, EchoAlike DEF OnPaper
<1>5. ASSUME NEW t \in Thread, OtherCall(t) \/ WrapperReturns(t) \/ PerrorFetches(t)
      PROVE  UNCHANGED <<screen, typed>>
  BY <1>5 DEF OtherCall, WrapperReturns, PerrorFetches
<1>6. ASSUME NEW face \in Faces, ClockShown(face) PROVE OnPaper'
  <2>1. /\ screen' = ShowClock(screen, face) /\ typed' = typed
        /\ face \in [ClockColumns -> Nat]
    BY <1>6, OutputAssumption DEF ClockShown
  <2> QED BY <2>1, ClockAlike DEF OnPaper
<1> QED BY <1>1, <1>2, <1>3, <1>4, <1>5, <1>6 DEF OutputNext, outputVars

LEMMA AlikeShows == OnPaper => ScreenShowsPaper
BY DEF OnPaper, Alike, CellsShow, Overlaid, ScreenShowsPaper, Last

(* The inductive invariant holds in every state: what the other theorems   *)
(* of this module read off.                                                *)
THEOREM OutputInvariant == OutputSpec => []OInv
BY InitHolds, OutputStepKeeps, PTL DEF OutputSpec

(* Whatever a program passes to write(), the kernel meets a page that is   *)
(* not there in one place only: the one after the data, which access_ok    *)
(* lets through whether sbrk has mapped it or not.                         *)
THEOREM KernelStopsOnlySo == OutputSpec => []StopsOnlySo
<1>1. OInv => StopsOnlySo
  BY DEF OInv
<1> QED BY OutputInvariant, <1>1, PTL

(* Whatever the threads write, in lines of any lengths, and whenever a key *)
(* is echoed or the time drawn meanwhile: the cursor is where the paper of *)
(* all that was written ends, and every cell but the echo's corner and the *)
(* clock's shows the newest line that reached it.                          *)
THEOREM ScreenIsPaper == OutputSpec => []ScreenShowsPaper
<1>1. OutputInit => OInv /\ OnPaper
  BY InitHolds, InitOnPaper
<1>2. (OInv /\ OnPaper) /\ [OutputNext]_outputVars => (OInv /\ OnPaper)'
  BY OutputStepKeeps, OnPaperKept
<1>3. OInv /\ OnPaper => ScreenShowsPaper
  BY AlikeShows
<1> QED BY <1>1, <1>2, <1>3, PTL DEF OutputSpec

(* perror() never reports an error that is neither the thread's own nor    *)
(* that of a thread that has failed since in the same address space.       *)
THEOREM PerrorReportsOwn == OutputSpec => []PerrorTellsOwn
<1>1. OInv => PerrorTellsOwn
  BY DEF OInv
<1> QED BY OutputInvariant, <1>1, PTL
==============================================================================
