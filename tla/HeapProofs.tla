----------------------------- MODULE HeapProofs -----------------------------
(***************************************************************************)
(* The allocator keeps its blocks apart and keeps their contents, for      *)
(* every image size, guard offset and set of request sizes.                *)
(***************************************************************************)
EXTENDS Heap, TLAPS

\* What the two invariants leave unsaid about the shape of the state.
Shape ==
    /\ user_brk_off \in Int /\ IMAGE_END <= user_brk_off
    /\ block_size \in [DOMAIN block_size -> Nat] /\ DOMAIN block_size \subseteq Int
    /\ free_list \in Seq(Int)
    /\ held \in [DOMAIN held -> [asked : Nat, filled : Nat, with : Contents]]
    /\ \A b \in DOMAIN held : held[b].filled <= held[b].asked
    /\ memory \in [0 .. STACK_GUARD - 1 -> Contents]

HInv == Shape /\ BlocksApart /\ ContentsKept

---------------------------------------------------------------------------
\* malloc's size in words: at least what was asked for.
LEMMA WantLemma == ASSUME NEW n \in Nat PROVE Want(n) \in Nat /\ n <= Want(n)
  BY SMT DEF Want

\* w is s without its i-th block, each of the others once.
Unlinked(w, s, i) ==
    /\ w \in Seq(Int) /\ Len(w) = Len(s) - 1
    /\ \A k \in 1 .. Len(w) : \E j \in 1 .. Len(s) : j # i /\ w[k] = s[j]
    /\ \A k \in 1 .. Len(w) : w[k] # s[i]
    /\ \A j, k \in 1 .. Len(w) : j # k => w[j] # w[k]

Distinct(s) == \A j, k \in 1 .. Len(s) : j # k => s[j] # s[k]

\* Unlinking the i-th block of the free list leaves the other blocks, each once.
LEMMA WithoutLemma ==
  ASSUME NEW s \in Seq(Int), NEW i \in 1 .. Len(s), Distinct(s)
  PROVE  Unlinked(Without(s, i), s, i)
<1> DEFINE W == Without(s, i)
<1>1. W = [k \in 1 .. Len(s) - 1 |-> IF k < i THEN s[k] ELSE s[k + 1]]
  BY DEF Without
<1>2. Len(s) - 1 \in Nat /\ W \in [1 .. Len(s) - 1 -> Int]
  <2>1. Len(s) \in Nat /\ \A k \in 1 .. Len(s) : s[k] \in Int
    OBVIOUS
  <2>2. ASSUME NEW k \in 1 .. Len(s) - 1 PROVE (IF k < i THEN s[k] ELSE s[k + 1]) \in Int
    <3>1. k \in 1 .. Len(s) /\ k + 1 \in 1 .. Len(s)
      BY <2>1
    <3> QED BY <2>1, <3>1
  <2> QED BY <1>1, <2>1, <2>2
<1>3. W \in Seq(Int) /\ Len(W) = Len(s) - 1
  BY <1>2
<1>4. ASSUME NEW k \in 1 .. Len(s) - 1
      PROVE  W[k] = s[IF k < i THEN k ELSE k + 1] /\ (IF k < i THEN k ELSE k + 1) \in 1 .. Len(s) \ {i}
  BY <1>1
<1> HIDE DEF W
<1>5. \A k \in 1 .. Len(W) : \E j \in 1 .. Len(s) : j # i /\ W[k] = s[j]
  BY <1>3, <1>4
<1>6. \A k \in 1 .. Len(W) : W[k] # s[i]
  BY <1>5 DEF Distinct
<1>7. ASSUME NEW j \in 1 .. Len(W), NEW k \in 1 .. Len(W), j # k PROVE W[j] # W[k]
  <2>1. (IF j < i THEN j ELSE j + 1) # (IF k < i THEN k ELSE k + 1)
    BY <1>3, <1>7
  <2> QED BY <1>3, <1>4, <2>1 DEF Distinct
<1>8. Unlinked(W, s, i)
  BY <1>3, <1>5, <1>6, <1>7 DEF Unlinked
<1> QED BY <1>8 DEF W

\* A list with a block put in front of it.
LEMMA FrontLemma ==
  ASSUME NEW s \in Seq(Int), NEW b \in Int
  PROVE  /\ << b >> \o s \in Seq(Int) /\ Len(<< b >> \o s) = Len(s) + 1
         /\ \A k \in 1 .. Len(s) + 1 : (<< b >> \o s)[k] = IF k = 1 THEN b ELSE s[k - 1]
  OBVIOUS

\* Its blocks are each there once when the new one was not in it.
LEMMA FrontDistinctLemma ==
  ASSUME NEW s \in Seq(Int), NEW b \in Int, Distinct(s), \A k \in 1 .. Len(s) : s[k] # b
  PROVE  Distinct(<< b >> \o s)
<1> DEFINE t == << b >> \o s
<1>1. Len(s) \in Nat /\ Len(t) = Len(s) + 1 /\ \A k \in 1 .. Len(s) + 1 : t[k] = IF k = 1 THEN b ELSE s[k - 1]
  BY FrontLemma
<1> HIDE DEF t
<1>2. \A l \in 2 .. Len(s) + 1 : l - 1 \in 1 .. Len(s) /\ t[l] = s[l - 1] /\ t[l] # b
  BY <1>1
<1>3. t[1] = b
  BY <1>1
<1>4. ASSUME NEW j \in 1 .. Len(t), NEW k \in 1 .. Len(t), j # k PROVE t[j] # t[k]
  <2>1. CASE j = 1 \/ k = 1
    BY <1>1, <1>2, <1>3, <1>4, <2>1
  <2>2. CASE j # 1 /\ k # 1
    <3>1. j \in 2 .. Len(s) + 1 /\ k \in 2 .. Len(s) + 1 /\ j - 1 # k - 1
      BY <1>1, <1>4, <2>2
    <3> QED BY <1>2, <3>1 DEF Distinct
  <2> QED BY <2>1, <2>2
<1>5. Distinct(t)
  BY <1>4 DEF Distinct
<1> QED BY <1>5 DEF t

---------------------------------------------------------------------------
\* What malloc returns and leaves: a block that nobody holds and that is not
\* free any more, as large as was asked for and apart from every other one.
MallocFinds(n, i) ==
    /\ NewBlock(i) \in Int /\ NewBlock(i) \notin DOMAIN held
    /\ NewBrk(n, i) \in Int /\ user_brk_off <= NewBrk(n, i) /\ NewBrk(n, i) <= STACK_GUARD
    /\ NewSizes(n, i) \in [DOMAIN block_size \cup {NewBlock(i)} -> Nat]
    /\ \A b \in DOMAIN block_size : NewSizes(n, i)[b] = block_size[b]
    /\ n <= NewSizes(n, i)[NewBlock(i)]
    /\ \A b \in DOMAIN block_size \cup {NewBlock(i)} :
         IMAGE_END <= b /\ b + HEADER_SIZE + NewSizes(n, i)[b] <= NewBrk(n, i)
    /\ \A a, b \in DOMAIN block_size \cup {NewBlock(i)} : a # b =>
         a + HEADER_SIZE + NewSizes(n, i)[a] <= b \/ b + HEADER_SIZE + NewSizes(n, i)[b] <= a
    /\ NewFree(i) \in Seq(Int)
    /\ \A k \in 1 .. Len(NewFree(i)) :
         NewFree(i)[k] \in DOMAIN block_size \ (DOMAIN held \cup {NewBlock(i)})
    /\ \A j, k \in 1 .. Len(NewFree(i)) : j # k => NewFree(i)[j] # NewFree(i)[k]

\* malloc finds such a block or none.
LEMMA MallocLemma ==
  ASSUME Shape, BlocksApart, NEW n \in Requests, NEW i \in Places(n)
  PROVE  MallocFinds(n, i)
<1>1. n \in Nat /\ Want(n) \in Nat /\ n <= Want(n)
  BY HeapAssumption, WantLemma
<1>2. IMAGE_END \in Nat /\ STACK_GUARD \in Nat /\ UNSIGNED \in Nat /\ HEADER_SIZE = 8
  BY HeapAssumption DEF HEADER_SIZE
<1>3. \A b \in DOMAIN block_size : b \in Int /\ block_size[b] \in Nat
  BY DEF Shape
<1>4. CASE i # 0
  <2>1. i \in Fitting(n)
    BY <1>4 DEF Places, Fit
  <2>2. i \in 1 .. Len(free_list) /\ block_size[free_list[i]] >= Want(n)
    BY <2>1 DEF Fitting
  <2>3. /\ NewBlock(i) = free_list[i] /\ NewFree(i) = Without(free_list, i)
        /\ NewBrk(n, i) = user_brk_off /\ NewSizes(n, i) = block_size
    BY <1>4 DEF NewBlock, NewFree, NewBrk, NewSizes
  <2>4. NewBlock(i) \in DOMAIN block_size /\ NewBlock(i) \notin DOMAIN held
    BY <2>2, <2>3 DEF BlocksApart
  <2>5. DOMAIN block_size \cup {NewBlock(i)} = DOMAIN block_size
    BY <2>4
  <2>6. /\ NewFree(i) \in Seq(Int)
        /\ \A k \in 1 .. Len(NewFree(i)) : NewFree(i)[k] \in DOMAIN block_size \ (DOMAIN held \cup {NewBlock(i)})
        /\ \A j, k \in 1 .. Len(NewFree(i)) : j # k => NewFree(i)[j] # NewFree(i)[k]
    <3>1. /\ free_list \in Seq(Int) /\ free_list[i] \in Int
          /\ \A k \in 1 .. Len(free_list) : free_list[k] \in DOMAIN block_size \ DOMAIN held
          /\ \A j, k \in 1 .. Len(free_list) : j # k => free_list[j] # free_list[k]
      BY <2>2 DEF BlocksApart, Shape
    <3> DEFINE W == Without(free_list, i)
    <3>2. Distinct(free_list)
      BY <3>1 DEF Distinct
    <3>5. Unlinked(W, free_list, i)
      BY <2>2, <3>1, <3>2, WithoutLemma
    <3>3. NewFree(i) = W /\ NewBlock(i) = free_list[i]
      BY <2>3
    <3> HIDE DEF W
    <3>4. \A k \in 1 .. Len(W) : W[k] \in DOMAIN block_size \ (DOMAIN held \cup {free_list[i]})
      BY <3>1, <3>5 DEF Unlinked
    <3> QED BY <3>3, <3>4, <3>5 DEF Unlinked
  <2>7. /\ NewSizes(n, i) \in [DOMAIN block_size \cup {NewBlock(i)} -> Nat]
        /\ \A b \in DOMAIN block_size : NewSizes(n, i)[b] = block_size[b]
        /\ n <= NewSizes(n, i)[NewBlock(i)]
    BY <1>1, <1>3, <2>2, <2>3, <2>4, <2>5 DEF Shape
  <2>8. /\ NewBlock(i) \in Int
        /\ NewBrk(n, i) \in Int /\ user_brk_off <= NewBrk(n, i) /\ NewBrk(n, i) <= STACK_GUARD
    BY <1>3, <2>3, <2>4 DEF Shape, BlocksApart
  <2>9. /\ \A b \in DOMAIN block_size : IMAGE_END <= b /\ b + HEADER_SIZE + NewSizes(n, i)[b] <= NewBrk(n, i)
        /\ \A a, b \in DOMAIN block_size : a # b =>
              a + HEADER_SIZE + NewSizes(n, i)[a] <= b \/ b + HEADER_SIZE + NewSizes(n, i)[b] <= a
    BY <2>3 DEF BlocksApart, EndOfBlock
  <2> QED BY <2>4, <2>5, <2>6, <2>7, <2>8, <2>9 DEF MallocFinds
<1>5. CASE i = 0
  <2>1. /\ NewBlock(i) = user_brk_off /\ NewFree(i) = free_list
        /\ NewBrk(n, i) = user_brk_off + Want(n) + HEADER_SIZE
        /\ NewSizes(n, i) = [b \in DOMAIN block_size \cup {user_brk_off} |->
                            IF b = user_brk_off THEN Want(n) ELSE block_size[b]]
    BY <1>5 DEF NewBlock, NewFree, NewBrk, NewSizes
  <2>2. Want(n) + HEADER_SIZE <= STACK_GUARD - user_brk_off
    <3>1. 0 \notin Fitting(n)
      BY DEF Fitting, Shape
    <3>2. Want(n) + HEADER_SIZE <= Room
      BY <1>5, <3>1 DEF Places, Fit
    <3> QED BY <1>1, <1>2, <3>2 DEF Room, BlocksApart, Shape
  <2>3. user_brk_off \notin DOMAIN block_size
    BY <1>2, <1>3 DEF BlocksApart, EndOfBlock, Shape
  <2>4. user_brk_off \notin DOMAIN held /\ user_brk_off \in Int /\ IMAGE_END <= user_brk_off
    BY <2>3 DEF BlocksApart, Shape
  <2>5. NewBrk(n, i) \in Int /\ user_brk_off <= NewBrk(n, i) /\ NewBrk(n, i) <= STACK_GUARD
    BY <1>1, <1>2, <2>1, <2>2, <2>4
  <2>6. /\ NewSizes(n, i) \in [DOMAIN block_size \cup {user_brk_off} -> Nat]
        /\ \A b \in DOMAIN block_size : NewSizes(n, i)[b] = block_size[b]
        /\ NewSizes(n, i)[user_brk_off] = Want(n)
    BY <1>1, <1>3, <2>1, <2>3
  <2>7. \A b \in DOMAIN block_size : IMAGE_END <= b /\ b + HEADER_SIZE + block_size[b] <= user_brk_off
    BY DEF BlocksApart, EndOfBlock
  <2>8. \A b \in DOMAIN block_size \cup {user_brk_off} :
          IMAGE_END <= b /\ b + HEADER_SIZE + NewSizes(n, i)[b] <= NewBrk(n, i)
    BY <1>1, <1>2, <1>3, <2>1, <2>4, <2>5, <2>6, <2>7
  <2>9. \A a, b \in DOMAIN block_size \cup {user_brk_off} : a # b =>
          a + HEADER_SIZE + NewSizes(n, i)[a] <= b \/ b + HEADER_SIZE + NewSizes(n, i)[b] <= a
    BY <2>6, <2>7 DEF BlocksApart, EndOfBlock
  <2>10. /\ NewFree(i) \in Seq(Int)
         /\ \A k \in 1 .. Len(NewFree(i)) :
              NewFree(i)[k] \in DOMAIN block_size \ (DOMAIN held \cup {user_brk_off})
         /\ \A j, k \in 1 .. Len(NewFree(i)) : j # k => NewFree(i)[j] # NewFree(i)[k]
    BY <2>1, <2>3 DEF BlocksApart, Shape
  <2> QED BY <1>1, <2>1, <2>4, <2>5, <2>6, <2>8, <2>9, <2>10 DEF MallocFinds
<1> QED BY <1>4, <1>5

---------------------------------------------------------------------------
\* A cell of one of two blocks that lie apart is none of the other's.
LEMMA ApartLemma ==
  ASSUME NEW x \in Int, NEW sx \in Nat, NEW b \in Int, NEW sb \in Nat, NEW g \in Nat, NEW k \in Int,
         0 <= x, x + 8 + sx <= g, 0 <= k, k < sx, x + 8 + sx <= b \/ b + 8 + sb <= x
  PROVE  x + 8 + k \in 0 .. g - 1 /\ ~(b + 8 <= x + 8 + k /\ x + 8 + k < b + 8 + sb)
  OBVIOUS

\* The blocks of the program and the cells they cover.
LEMMA HeldLemma ==
  ASSUME HInv, NEW b \in DOMAIN held
  PROVE  /\ b \in Int /\ b \in DOMAIN block_size /\ block_size[b] \in Nat
         /\ held[b].asked \in Nat /\ held[b].filled \in Nat /\ held[b].with \in Contents
         /\ held[b].filled <= held[b].asked /\ held[b].asked <= block_size[b]
         /\ 0 <= b /\ b + HEADER_SIZE + block_size[b] <= STACK_GUARD
<1>1. IMAGE_END \in Nat /\ STACK_GUARD \in Nat /\ HEADER_SIZE = 8
  BY HeapAssumption DEF HEADER_SIZE
<1>2. b \in DOMAIN block_size /\ held[b].asked <= block_size[b]
  BY DEF HInv, BlocksApart
<1>3. b \in Int /\ block_size[b] \in Nat
  BY <1>2 DEF HInv, Shape
<1>4. held[b].asked \in Nat /\ held[b].filled \in Nat /\ held[b].with \in Contents /\ held[b].filled <= held[b].asked
  BY DEF HInv, Shape
<1>5. IMAGE_END <= b /\ b + HEADER_SIZE + block_size[b] <= user_brk_off /\ user_brk_off <= STACK_GUARD /\ user_brk_off \in Int
  BY <1>2 DEF HInv, BlocksApart, EndOfBlock, Shape
<1> QED BY <1>1, <1>2, <1>3, <1>4, <1>5

\* Before the first call there are no blocks.
LEMMA HeapInitLemma == HeapInit => HInv
<1> SUFFICES ASSUME HeapInit PROVE HInv
  OBVIOUS
<1>1. Shape
  BY HeapAssumption DEF HeapInit, Shape
<1>2. BlocksApart
  BY HeapAssumption DEF HeapInit, BlocksApart
<1>3. ContentsKept
  BY DEF HeapInit, ContentsKept
<1> QED BY <1>1, <1>2, <1>3 DEF HInv

\* SYS_SBRK called by the program itself: the break moves away from the blocks.
LEMMA SbrkLemma ==
  ASSUME HInv, NEW n \in Requests, Sbrk(n)
  PROVE  HInv'
<1>1. n \in Nat /\ IMAGE_END \in Nat /\ STACK_GUARD \in Nat /\ UNSIGNED \in Nat /\ HEADER_SIZE = 8
  BY HeapAssumption DEF HEADER_SIZE
<1>2. user_brk_off \in Int /\ user_brk_off <= STACK_GUARD /\ IMAGE_END <= user_brk_off
  BY DEF HInv, Shape, BlocksApart
<1>3. user_brk_off' \in Int /\ user_brk_off' <= STACK_GUARD /\ user_brk_off <= user_brk_off'
  BY <1>1, <1>2 DEF Sbrk, Room
<1>4. UNCHANGED << block_size, free_list, held, memory >>
  BY DEF Sbrk
<1>5. Shape'
  BY <1>1, <1>2, <1>3, <1>4 DEF HInv, Shape
<1>6. \A b \in DOMAIN block_size : IMAGE_END <= b /\ EndOfBlock(b) <= user_brk_off'
  <2>1. \A b \in DOMAIN block_size : IMAGE_END <= b /\ EndOfBlock(b) <= user_brk_off
    BY DEF HInv, BlocksApart
  <2>2. \A b \in DOMAIN block_size : EndOfBlock(b) \in Int
    BY <1>1 DEF EndOfBlock, HInv, Shape
  <2> QED BY <1>2, <1>3, <2>1, <2>2
<1>7. BlocksApart'
  BY <1>3, <1>4, <1>6 DEF HInv, BlocksApart, EndOfBlock
<1>8. ContentsKept'
  BY <1>4 DEF HInv, ContentsKept, Cell
<1> QED BY <1>5, <1>7, <1>8 DEF HInv

---------------------------------------------------------------------------
\* The cells of the block that malloc(n) takes from i.
InNew(a, n, i) == Cell(NewBlock(i), 0) <= a /\ a < Cell(NewBlock(i), NewSizes(n, i)[NewBlock(i)])

\* A step that gives the program the block that malloc found and writes to
\* no cell outside it keeps every block apart and every content.
LEMMA InstallLemma ==
  ASSUME HInv, NEW n \in Requests, NEW i \in Places(n),
         NEW h, h = [x \in DOMAIN h |-> held[x]], DOMAIN h \subseteq DOMAIN held,
         NEW f \in Nat, f <= n, NEW v \in Contents,
         held' = WithBlock(h, NewBlock(i), Holding(n, f, v)),
         user_brk_off' = NewBrk(n, i), block_size' = NewSizes(n, i),
         free_list' \in Seq(Int),
         \A k \in 1 .. Len(free_list') :
            free_list'[k] \in DOMAIN block_size \ (DOMAIN h \cup {NewBlock(i)}),
         Distinct(free_list'),
         memory' \in [0 .. STACK_GUARD - 1 -> Contents],
         \A a \in 0 .. STACK_GUARD - 1 : ~InNew(a, n, i) => memory'[a] = memory[a],
         \A k \in 0 .. f - 1 : memory'[Cell(NewBlock(i), k)] = v
  PROVE  HInv'
<1> DEFINE nb == NewBlock(i)
           S  == NewSizes(n, i)
<1>1. n \in Nat /\ IMAGE_END \in Nat /\ STACK_GUARD \in Nat /\ HEADER_SIZE = 8
  BY HeapAssumption DEF HEADER_SIZE
<1>2. /\ nb \in Int /\ nb \notin DOMAIN held
      /\ NewBrk(n, i) \in Int /\ user_brk_off <= NewBrk(n, i) /\ NewBrk(n, i) <= STACK_GUARD
      /\ S \in [DOMAIN block_size \cup {nb} -> Nat]
      /\ \A b \in DOMAIN block_size : S[b] = block_size[b]
      /\ n <= S[nb]
      /\ \A b \in DOMAIN block_size \cup {nb} : IMAGE_END <= b /\ b + HEADER_SIZE + S[b] <= NewBrk(n, i)
      /\ \A a, b \in DOMAIN block_size \cup {nb} : a # b =>
            a + HEADER_SIZE + S[a] <= b \/ b + HEADER_SIZE + S[b] <= a
  <2>1. MallocFinds(n, i)
    BY MallocLemma DEF HInv
  <2> QED BY <2>1 DEF MallocFinds
<1>3. /\ DOMAIN held' = DOMAIN h \cup {nb}
      /\ held'[nb] = [asked |-> n, filled |-> f, with |-> v]
      /\ \A x \in DOMAIN h : held'[x] = held[x] /\ x # nb /\ x \in DOMAIN held
      /\ held' = [x \in DOMAIN h \cup {nb} |-> held'[x]]
  BY <1>2 DEF WithBlock, Holding
<1> HIDE DEF nb, S
<1>4. block_size' = S /\ DOMAIN block_size' = DOMAIN block_size \cup {nb} /\ user_brk_off' = NewBrk(n, i)
  BY <1>2 DEF S
<1>5. DOMAIN block_size \subseteq Int /\ \A b \in DOMAIN block_size : block_size[b] \in Nat
  BY DEF HInv, Shape
<1>6. \A x \in DOMAIN h :
         /\ x \in DOMAIN block_size /\ held[x].asked <= block_size[x]
         /\ held[x] \in [asked : Nat, filled : Nat, with : Contents] /\ held[x].filled <= held[x].asked
  BY <1>3 DEF HInv, Shape, BlocksApart
<1>7. Shape'
  <2>1. user_brk_off' \in Int /\ IMAGE_END <= user_brk_off'
    BY <1>1, <1>2, <1>4 DEF HInv, Shape
  <2>2. block_size' \in [DOMAIN block_size' -> Nat] /\ DOMAIN block_size' \subseteq Int
    BY <1>2, <1>4, <1>5
  <2>3. \A x \in DOMAIN held' : held'[x] \in [asked : Nat, filled : Nat, with : Contents] /\ held'[x].filled <= held'[x].asked
    BY <1>1, <1>3, <1>6
  <2>4. held' \in [DOMAIN held' -> [asked : Nat, filled : Nat, with : Contents]]
    BY <1>3, <2>3
  <2> QED BY <2>1, <2>2, <2>3, <2>4 DEF Shape
<1>8. BlocksApart'
  <2>1. user_brk_off' <= STACK_GUARD
    BY <1>2, <1>4
  <2>2. \A b \in DOMAIN block_size' : IMAGE_END <= b /\ (EndOfBlock(b))' <= user_brk_off'
    BY <1>2, <1>4 DEF EndOfBlock
  <2>3. \A a, b \in DOMAIN block_size' : a # b => (EndOfBlock(a))' <= b \/ (EndOfBlock(b))' <= a
    BY <1>2, <1>4 DEF EndOfBlock
  <2>4. \A b \in DOMAIN held' : b \in DOMAIN block_size' /\ held'[b].asked <= block_size'[b]
    BY <1>2, <1>3, <1>4, <1>6
  <2>5. \A k \in 1 .. Len(free_list') : free_list'[k] \in DOMAIN block_size' \ DOMAIN held'
    BY <1>3, <1>4 DEF nb
  <2>6. \A j, k \in 1 .. Len(free_list') : j # k => free_list'[j] # free_list'[k]
    BY DEF Distinct
  <2> QED BY <2>1, <2>2, <2>3, <2>4, <2>5, <2>6 DEF BlocksApart, EndOfBlock
<1>9. ContentsKept'
  <2>1. \A k \in 0 .. held'[nb].filled - 1 : memory'[Cell(nb, k)] = held'[nb].with
    BY <1>3 DEF nb
  <2>2. ASSUME NEW x \in DOMAIN h, NEW k \in 0 .. held'[x].filled - 1
        PROVE  memory'[Cell(x, k)] = held'[x].with
    <3>1. /\ x \in DOMAIN held /\ held'[x] = held[x] /\ x # nb /\ x \in DOMAIN block_size /\ x \in Int
          /\ block_size[x] \in Nat /\ held[x].filled \in Nat /\ held[x].asked \in Nat
          /\ held[x].filled <= held[x].asked /\ held[x].asked <= block_size[x] /\ k \in 0 .. held[x].filled - 1
      BY <1>3, <1>5, <1>6
    <3>2. Cell(x, k) = x + 8 + k /\ k \in Int /\ 0 <= k /\ k < block_size[x]
      BY <1>1, <3>1 DEF Cell
    <3>3. IMAGE_END <= x /\ x + 8 + block_size[x] <= STACK_GUARD
      BY <1>1, <1>2, <3>1
    <3>4. S[nb] \in Nat /\ nb \in Int /\ (x + 8 + block_size[x] <= nb \/ nb + 8 + S[nb] <= x)
      BY <1>1, <1>2, <3>1
    <3>5. ~InNew(Cell(x, k), n, i)
      <4>1. InNew(Cell(x, k), n, i) <=> nb + 8 + 0 <= x + 8 + k /\ x + 8 + k < nb + 8 + S[nb]
        BY <1>1, <3>2 DEF InNew, Cell, nb, S
      <4> QED BY <3>1, <3>2, <3>4, <4>1
    <3>6. Cell(x, k) \in 0 .. STACK_GUARD - 1
      BY <1>1, <3>1, <3>2, <3>3
    <3>7. memory[Cell(x, k)] = held[x].with
      BY <3>1 DEF HInv, ContentsKept
    <3> QED BY <3>1, <3>5, <3>6, <3>7
  <2>3. \A x \in DOMAIN held' : \A k \in 0 .. held'[x].filled - 1 : memory'[Cell(x, k)] = held'[x].with
    BY <1>3, <2>1, <2>2
  <2> QED BY <2>3 DEF ContentsKept, Cell
<1> QED BY <1>7, <1>8, <1>9 DEF HInv

\* malloc: the block is the program's, no cell is written.
LEMMA MallocStepLemma ==
  ASSUME HInv, NEW n \in Requests, Malloc(n)
  PROVE  HInv'
<1>1. PICK i \in Places(n) :
        /\ held' = WithBlock(held, NewBlock(i), Holding(n, 0, 0))
        /\ free_list' = NewFree(i) /\ user_brk_off' = NewBrk(n, i) /\ block_size' = NewSizes(n, i)
        /\ UNCHANGED memory
  BY DEF Malloc
<1>2. MallocFinds(n, i)
  BY MallocLemma DEF HInv
<1>3. held = [x \in DOMAIN held |-> held[x]] /\ DOMAIN held \subseteq DOMAIN held
  BY DEF HInv, Shape
<1>4. 0 \in Nat /\ 0 <= n /\ 0 \in Contents
  BY HeapAssumption
<1>5. /\ free_list' \in Seq(Int) /\ Distinct(free_list')
      /\ \A k \in 1 .. Len(free_list') : free_list'[k] \in DOMAIN block_size \ (DOMAIN held \cup {NewBlock(i)})
  BY <1>1, <1>2 DEF MallocFinds, Distinct
<1>6. /\ memory' \in [0 .. STACK_GUARD - 1 -> Contents]
      /\ \A a \in 0 .. STACK_GUARD - 1 : ~InNew(a, n, i) => memory'[a] = memory[a]
      /\ \A k \in 0 .. 0 - 1 : memory'[Cell(NewBlock(i), k)] = 0
  BY <1>1 DEF HInv, Shape
<1> QED BY <1>1, <1>3, <1>4, <1>5, <1>6, InstallLemma

\* calloc: the block is the program's and its first n cells are cleared.
LEMMA CallocStepLemma ==
  ASSUME HInv, NEW n \in Requests, Calloc(n)
  PROVE  HInv'
<1>1. PICK i \in Places(n) :
        /\ held' = WithBlock(held, NewBlock(i), Holding(n, n, 0))
        /\ free_list' = NewFree(i) /\ user_brk_off' = NewBrk(n, i) /\ block_size' = NewSizes(n, i)
        /\ memory' = [a \in DOMAIN memory |->
                        IF Cell(NewBlock(i), 0) <= a /\ a < Cell(NewBlock(i), n) THEN 0 ELSE memory[a]]
  BY DEF Calloc
<1>2. MallocFinds(n, i)
  BY MallocLemma DEF HInv
<1>3. held = [x \in DOMAIN held |-> held[x]] /\ DOMAIN held \subseteq DOMAIN held
  BY DEF HInv, Shape
<1>4. n \in Nat /\ n <= n /\ 0 \in Contents /\ HEADER_SIZE = 8 /\ IMAGE_END \in Nat /\ STACK_GUARD \in Nat
  BY HeapAssumption DEF HEADER_SIZE
<1>5. /\ free_list' \in Seq(Int) /\ Distinct(free_list')
      /\ \A k \in 1 .. Len(free_list') : free_list'[k] \in DOMAIN block_size \ (DOMAIN held \cup {NewBlock(i)})
  BY <1>1, <1>2 DEF MallocFinds, Distinct
<1> DEFINE nb == NewBlock(i)
           S  == NewSizes(n, i)
<1>6. nb \in Int /\ S[nb] \in Nat /\ n <= S[nb] /\ 0 <= nb /\ nb + 8 + S[nb] <= STACK_GUARD
  BY <1>2, <1>4 DEF MallocFinds
<1>7. memory \in [0 .. STACK_GUARD - 1 -> Contents]
  BY DEF HInv, Shape
<1>8. \A a \in Int : InNew(a, n, i) <=> nb + 8 <= a /\ a < nb + 8 + S[nb]
  <2> HIDE DEF nb, S
  <2>1. \A a \in Int : InNew(a, n, i) <=> nb + 8 + 0 <= a /\ a < nb + 8 + S[nb]
    BY <1>4 DEF InNew, Cell, nb, S
  <2> QED BY <1>6, <2>1
<1>9. memory' = [a \in 0 .. STACK_GUARD - 1 |-> IF nb + 8 <= a /\ a < nb + 8 + n THEN 0 ELSE memory[a]]
  <2>1. Cell(nb, 0) = nb + 8 /\ Cell(nb, n) = nb + 8 + n
    BY <1>4, <1>6 DEF Cell
  <2>2. DOMAIN memory = 0 .. STACK_GUARD - 1
    BY <1>7
  <2> QED BY <1>1, <2>1, <2>2
<1> HIDE DEF nb, S
<1>10. memory' \in [0 .. STACK_GUARD - 1 -> Contents]
  BY <1>4, <1>7, <1>9
<1>11. \A a \in 0 .. STACK_GUARD - 1 : ~InNew(a, n, i) => memory'[a] = memory[a]
  BY <1>4, <1>6, <1>8, <1>9
<1>12. \A k \in 0 .. n - 1 : memory'[Cell(nb, k)] = 0
  <2>1. ASSUME NEW k \in 0 .. n - 1 PROVE memory'[Cell(nb, k)] = 0
    <3>1. Cell(nb, k) = nb + 8 + k
      BY <1>4 DEF Cell
    <3> QED BY <1>4, <1>6, <1>9, <3>1
  <2> QED BY <2>1
<1>13. \A k \in 0 .. n - 1 : memory'[Cell(NewBlock(i), k)] = 0
  BY <1>12 DEF nb
<1>14. /\ held' = WithBlock(held, NewBlock(i), Holding(n, n, 0))
       /\ user_brk_off' = NewBrk(n, i) /\ block_size' = NewSizes(n, i)
  BY <1>1
<1>15. n \in Nat /\ n <= n /\ 0 \in Contents
  BY <1>4
<1> QED BY <1>3, <1>5, <1>10, <1>11, <1>13, <1>14, <1>15, InstallLemma

\* free: the block goes from the program to the front of the list.
LEMMA FreeLemma ==
  ASSUME HInv, NEW b \in DOMAIN held, Free(b)
  PROVE  HInv'
<1>1. /\ free_list' = << b >> \o free_list /\ held' = [x \in DOMAIN held \ {b} |-> held[x]]
      /\ user_brk_off' = user_brk_off /\ block_size' = block_size /\ memory' = memory
  BY DEF Free, WithoutBlock
<1>2. b \in Int /\ b \in DOMAIN block_size
  BY HeldLemma
<1>3. /\ free_list \in Seq(Int) /\ Len(free_list) \in Nat
      /\ \A k \in 1 .. Len(free_list) : free_list[k] \in DOMAIN block_size \ DOMAIN held
      /\ Distinct(free_list)
  BY DEF HInv, Shape, BlocksApart, Distinct
<1>4. /\ free_list' \in Seq(Int) /\ Len(free_list') = Len(free_list) + 1
      /\ \A k \in 1 .. Len(free_list) + 1 : free_list'[k] = IF k = 1 THEN b ELSE free_list[k - 1]
  BY <1>1, <1>2, <1>3, FrontLemma
<1>5. DOMAIN held' = DOMAIN held \ {b} /\ \A x \in DOMAIN held' : held'[x] = held[x]
  BY <1>1
<1>6. Shape'
  BY <1>1, <1>4, <1>5 DEF HInv, Shape
<1>7. \A k \in 1 .. Len(free_list') : free_list'[k] \in DOMAIN block_size' \ DOMAIN held'
  BY <1>1, <1>2, <1>3, <1>4, <1>5
<1>8. \A j, k \in 1 .. Len(free_list') : j # k => free_list'[j] # free_list'[k]
  <2>1. \A k \in 1 .. Len(free_list) : free_list[k] # b
    BY <1>3
  <2>2. Distinct(<< b >> \o free_list)
    BY <1>2, <1>3, <2>1, FrontDistinctLemma
  <2> QED BY <1>1, <2>2 DEF Distinct
<1>9. BlocksApart'
  BY <1>1, <1>5, <1>7, <1>8 DEF HInv, BlocksApart, EndOfBlock
<1>10. ContentsKept'
  BY <1>1, <1>5 DEF HInv, ContentsKept, Cell
<1> QED BY <1>6, <1>9, <1>10 DEF HInv

\* A step that only changes what the program asked for and filled of a block
\* it holds, within the block's size, and writes only to that block.
LEMMA RewriteLemma ==
  ASSUME HInv, NEW b \in DOMAIN held, NEW n \in Nat, NEW f \in Nat, NEW v \in Contents,
         f <= n, n <= block_size[b],
         held' = [held EXCEPT ![b] = Holding(n, f, v)],
         UNCHANGED << user_brk_off, block_size, free_list >>,
         memory' \in [0 .. STACK_GUARD - 1 -> Contents],
         \A a \in 0 .. STACK_GUARD - 1 :
            ~(Cell(b, 0) <= a /\ a < Cell(b, block_size[b])) => memory'[a] = memory[a],
         \A k \in 0 .. f - 1 : memory'[Cell(b, k)] = v
  PROVE  HInv'
<1>1. STACK_GUARD \in Nat /\ IMAGE_END \in Nat /\ HEADER_SIZE = 8
  BY HeapAssumption DEF HEADER_SIZE
<1>2. b \in Int /\ b \in DOMAIN block_size /\ block_size[b] \in Nat
  BY HeldLemma
<1>3. /\ held \in [DOMAIN held -> [asked : Nat, filled : Nat, with : Contents]]
      /\ \A x \in DOMAIN held : held[x].filled <= held[x].asked
  BY DEF HInv, Shape
<1>4. /\ DOMAIN held' = DOMAIN held
      /\ held'[b] = [asked |-> n, filled |-> f, with |-> v]
      /\ \A x \in DOMAIN held : x # b => held'[x] = held[x]
      /\ held' \in [DOMAIN held -> [asked : Nat, filled : Nat, with : Contents]]
  BY <1>3 DEF Holding
<1>5. Shape'
  <2>1. \A x \in DOMAIN held' : held'[x].filled <= held'[x].asked
    BY <1>3, <1>4
  <2> QED BY <1>4, <2>1 DEF HInv, Shape
<1>6. BlocksApart'
  <2>1. \A x \in DOMAIN held' : x \in DOMAIN block_size /\ held'[x].asked <= block_size[x]
    BY <1>2, <1>4 DEF HInv, BlocksApart
  <2> QED BY <1>4, <2>1 DEF HInv, BlocksApart, EndOfBlock
<1>7. ContentsKept'
  <2>1. ASSUME NEW x \in DOMAIN held, x # b, NEW k \in 0 .. held[x].filled - 1
        PROVE  memory'[Cell(x, k)] = held'[x].with
    <3>1. /\ x \in Int /\ x \in DOMAIN block_size /\ block_size[x] \in Nat /\ held[x].filled \in Nat
          /\ held[x].asked \in Nat /\ held[x].filled <= held[x].asked /\ held[x].asked <= block_size[x]
          /\ 0 <= x /\ x + 8 + block_size[x] <= STACK_GUARD
      BY <1>1, HeldLemma
    <3>2. x + 8 + block_size[x] <= b \/ b + 8 + block_size[b] <= x
      BY <1>1, <1>2, <2>1, <3>1 DEF HInv, BlocksApart, EndOfBlock
    <3>3. /\ Cell(x, k) = x + 8 + k /\ Cell(b, 0) = b + 8 /\ Cell(b, block_size[b]) = b + 8 + block_size[b]
          /\ k \in Int /\ 0 <= k /\ k < block_size[x]
      <4>1. k \in Int /\ 0 <= k /\ k < block_size[x]
        BY <3>1
      <4>2. Cell(x, k) = x + 8 + k /\ Cell(b, block_size[b]) = b + 8 + block_size[b]
        BY <1>1 DEF Cell
      <4>3. Cell(b, 0) = b + 8
        <5>1. Cell(b, 0) = b + 8 + 0
          BY <1>1 DEF Cell
        <5> QED BY <1>2, <5>1
      <4> QED BY <4>1, <4>2, <4>3
    <3>4. x + 8 + k \in 0 .. STACK_GUARD - 1 /\ ~(b + 8 <= x + 8 + k /\ x + 8 + k < b + 8 + block_size[b])
      BY <1>1, <1>2, <3>1, <3>2, <3>3, ApartLemma
    <3>5. memory'[x + 8 + k] = memory[x + 8 + k]
      BY <3>3, <3>4
    <3>6. memory[Cell(x, k)] = held[x].with
      BY DEF HInv, ContentsKept
    <3> QED BY <1>4, <2>1, <3>3, <3>5, <3>6
  <2>2. \A x \in DOMAIN held' : \A k \in 0 .. held'[x].filled - 1 : memory'[Cell(x, k)] = held'[x].with
    BY <1>4, <2>1
  <2> QED BY <2>2 DEF ContentsKept, Cell
<1> QED BY <1>5, <1>6, <1>7 DEF HInv

\* realloc of a block that is large enough: only the size asked for changes.
LEMMA ReallocStaysLemma ==
  ASSUME HInv, NEW b \in DOMAIN held, NEW n \in Requests, ReallocStays(b, n)
  PROVE  HInv'
<1> DEFINE f == IF held[b].filled <= n THEN held[b].filled ELSE n
           v == held[b].with
<1>1. n \in Nat /\ STACK_GUARD \in Nat /\ HEADER_SIZE = 8
  BY HeapAssumption DEF HEADER_SIZE
<1>2. b \in Int /\ block_size[b] \in Nat /\ held[b].filled \in Nat /\ v \in Contents
  BY HeldLemma
<1>3. f \in Nat /\ f <= n /\ f <= held[b].filled
  BY <1>1, <1>2
<1>4. /\ n <= block_size[b] /\ held' = [held EXCEPT ![b] = Holding(n, f, v)]
      /\ UNCHANGED << user_brk_off, block_size, free_list >> /\ memory' = memory
  BY <1>1, <1>2 DEF ReallocStays
<1>5. \A k \in 0 .. held[b].filled - 1 : memory[Cell(b, k)] = v
  BY DEF HInv, ContentsKept
<1> HIDE DEF f, v
<1>6. \A k \in 0 .. f - 1 : memory'[Cell(b, k)] = v
  BY <1>2, <1>3, <1>4, <1>5
<1>7. /\ memory' \in [0 .. STACK_GUARD - 1 -> Contents]
      /\ \A a \in 0 .. STACK_GUARD - 1 :
            ~(Cell(b, 0) <= a /\ a < Cell(b, block_size[b])) => memory'[a] = memory[a]
  BY <1>4 DEF HInv, Shape
<1> QED BY <1>1, <1>2, <1>3, <1>4, <1>6, <1>7, RewriteLemma

\* The program fills what it asked for.
LEMMA FillLemma ==
  ASSUME HInv, NEW b \in DOMAIN held, NEW v \in Contents, Fill(b, v)
  PROVE  HInv'
<1> DEFINE n == held[b].asked
<1>1. STACK_GUARD \in Nat /\ HEADER_SIZE = 8
  BY HeapAssumption DEF HEADER_SIZE
<1>2. /\ b \in Int /\ block_size[b] \in Nat /\ n \in Nat /\ n <= n /\ n <= block_size[b]
      /\ 0 <= b /\ b + 8 + block_size[b] <= STACK_GUARD
  BY <1>1, HeldLemma
<1>3. /\ held' = [held EXCEPT ![b] = Holding(n, n, v)]
      /\ UNCHANGED << user_brk_off, block_size, free_list >>
      /\ memory' = [a \in DOMAIN memory |-> IF Cell(b, 0) <= a /\ a < Cell(b, n) THEN v ELSE memory[a]]
  BY DEF Fill
<1>4. memory \in [0 .. STACK_GUARD - 1 -> Contents]
  BY DEF HInv, Shape
<1> HIDE DEF n
<1>5. \A k \in Int : Cell(b, k) = b + 8 + k
  BY <1>1 DEF Cell
<1>6. memory' = [a \in 0 .. STACK_GUARD - 1 |-> IF b + 8 <= a /\ a < b + 8 + n THEN v ELSE memory[a]]
  <2>1. Cell(b, 0) = b + 8 /\ Cell(b, n) = b + 8 + n /\ DOMAIN memory = 0 .. STACK_GUARD - 1
    BY <1>2, <1>4, <1>5
  <2> QED BY <1>3, <2>1
<1>7. memory' \in [0 .. STACK_GUARD - 1 -> Contents]
  BY <1>4, <1>6
<1>8. \A k \in 0 .. n - 1 : memory'[Cell(b, k)] = v
  <2>1. ASSUME NEW k \in 0 .. n - 1 PROVE memory'[b + 8 + k] = v
    BY <1>1, <1>2, <1>6
  <2> QED BY <1>2, <1>5, <2>1
<1>9. \A a \in 0 .. STACK_GUARD - 1 :
        ~(Cell(b, 0) <= a /\ a < Cell(b, block_size[b])) => memory'[a] = memory[a]
  <2>1. ASSUME NEW a \in 0 .. STACK_GUARD - 1, ~(b + 8 <= a /\ a < b + 8 + block_size[b])
        PROVE  memory'[a] = memory[a]
    BY <1>1, <1>2, <1>6, <2>1
  <2>2. Cell(b, 0) = b + 8 /\ Cell(b, block_size[b]) = b + 8 + block_size[b]
    BY <1>2, <1>5
  <2> QED BY <2>1, <2>2
<1> QED BY <1>2, <1>3, <1>7, <1>8, <1>9, RewriteLemma

\* realloc of a block that is too small: its cells go to the new block.
LEMMA ReallocMovesLemma ==
  ASSUME HInv, NEW b \in DOMAIN held, NEW n \in Requests, ReallocMoves(b, n)
  PROVE  HInv'
<1>1. PICK i \in Places(n) :
        /\ block_size[b] < n
        /\ memory' = [a \in DOMAIN memory |->
                        IF Cell(NewBlock(i), 0) <= a /\ a < Cell(NewBlock(i), block_size[b])
                        THEN memory[a - NewBlock(i) + b] ELSE memory[a]]
        /\ held' = WithBlock(WithoutBlock(held, b), NewBlock(i), Holding(n, held[b].filled, held[b].with))
        /\ free_list' = << b >> \o NewFree(i) /\ user_brk_off' = NewBrk(n, i) /\ block_size' = NewSizes(n, i)
  BY DEF ReallocMoves
<1>2. MallocFinds(n, i)
  BY MallocLemma DEF HInv
<1> DEFINE h  == WithoutBlock(held, b)
           nb == NewBlock(i)
           S  == NewSizes(n, i)
           sb == block_size[b]
           f  == held[b].filled
           v  == held[b].with
<1>3. n \in Nat /\ HEADER_SIZE = 8 /\ IMAGE_END \in Nat /\ STACK_GUARD \in Nat
  BY HeapAssumption DEF HEADER_SIZE
<1>4. /\ b \in Int /\ b \in DOMAIN block_size /\ sb \in Nat /\ f \in Nat /\ v \in Contents /\ f <= sb
      /\ 0 <= b /\ b + 8 + sb <= STACK_GUARD /\ sb < n /\ f <= n
  <2>1. /\ b \in Int /\ b \in DOMAIN block_size /\ sb \in Nat /\ f \in Nat /\ v \in Contents
        /\ held[b].asked \in Nat /\ f <= held[b].asked /\ held[b].asked <= sb
        /\ 0 <= b /\ b + HEADER_SIZE + sb <= STACK_GUARD
    BY HeldLemma
  <2> QED BY <1>1, <1>3, <2>1
<1>5. DOMAIN h = DOMAIN held \ {b} /\ h = [x \in DOMAIN h |-> held[x]] /\ DOMAIN h \subseteq DOMAIN held
  BY DEF WithoutBlock
<1>6. nb \in Int /\ nb \notin DOMAIN held /\ S[nb] \in Nat /\ n <= S[nb] /\ 0 <= nb /\ nb + 8 + S[nb] <= STACK_GUARD
  BY <1>2, <1>3 DEF MallocFinds
<1>7. /\ free_list' \in Seq(Int) /\ Distinct(free_list')
      /\ \A k \in 1 .. Len(free_list') : free_list'[k] \in DOMAIN block_size \ (DOMAIN h \cup {nb})
  <2> DEFINE w == NewFree(i)
  <2>1. /\ w \in Seq(Int) /\ Distinct(w) /\ Len(w) \in Nat
        /\ \A k \in 1 .. Len(w) : w[k] \in DOMAIN block_size \ (DOMAIN held \cup {nb})
    BY <1>2 DEF MallocFinds, Distinct
  <2>2. free_list' = << b >> \o w
    BY <1>1
  <2> HIDE DEF w, nb, h
  <2>3. \A k \in 1 .. Len(w) : w[k] # b
    BY <2>1
  <2>4. Distinct(free_list')
    BY <1>4, <2>1, <2>2, <2>3, FrontDistinctLemma
  <2>5. /\ free_list' \in Seq(Int) /\ Len(free_list') = Len(w) + 1
        /\ \A k \in 1 .. Len(w) + 1 : free_list'[k] = IF k = 1 THEN b ELSE w[k - 1]
    BY <1>4, <2>1, <2>2, FrontLemma
  <2>6. b \in DOMAIN block_size \ (DOMAIN h \cup {nb})
    BY <1>4, <1>5, <1>6
  <2>7. ASSUME NEW k \in 1 .. Len(free_list')
        PROVE  free_list'[k] \in DOMAIN block_size \ (DOMAIN h \cup {nb})
    <3>1. CASE k = 1
      BY <2>5, <2>6, <3>1
    <3>2. CASE k # 1
      <4>1. k - 1 \in 1 .. Len(w) /\ free_list'[k] = w[k - 1]
        BY <2>1, <2>5, <3>2
      <4> QED BY <1>5, <2>1, <4>1
    <3> QED BY <3>1, <3>2
  <2> QED BY <2>4, <2>5, <2>7
<1>8. memory \in [0 .. STACK_GUARD - 1 -> Contents]
  BY DEF HInv, Shape
<1>9. /\ held' = WithBlock(h, nb, Holding(n, f, v)) /\ user_brk_off' = NewBrk(n, i) /\ block_size' = S
      /\ memory' = [a \in DOMAIN memory |-> IF Cell(nb, 0) <= a /\ a < Cell(nb, sb) THEN memory[a - nb + b] ELSE memory[a]]
  BY <1>1
<1>10. \A k \in 0 .. f - 1 : memory[Cell(b, k)] = v
  BY DEF HInv, ContentsKept
<1>11. \A a \in Int : InNew(a, n, i) <=> nb + 8 + 0 <= a /\ a < nb + 8 + S[nb]
  BY <1>3 DEF InNew, Cell
<1> HIDE DEF h, nb, S, sb, f, v
<1>12. \A x \in Int : \A k \in Int : Cell(x, k) = x + 8 + k
  BY <1>3 DEF Cell
<1>13. memory' = [a \in 0 .. STACK_GUARD - 1 |-> IF nb + 8 <= a /\ a < nb + 8 + sb THEN memory[a - nb + b] ELSE memory[a]]
  <2>1. Cell(nb, 0) = nb + 8 /\ Cell(nb, sb) = nb + 8 + sb /\ DOMAIN memory = 0 .. STACK_GUARD - 1
    BY <1>4, <1>6, <1>8, <1>12
  <2> QED BY <1>9, <2>1
<1>14. memory' \in [0 .. STACK_GUARD - 1 -> Contents]
  <2>1. ASSUME NEW a \in 0 .. STACK_GUARD - 1, nb + 8 <= a, a < nb + 8 + sb
        PROVE  a - nb + b \in 0 .. STACK_GUARD - 1
    BY <1>3, <1>4, <1>6, <2>1
  <2> QED BY <1>8, <1>13, <2>1
<1>15. \A a \in 0 .. STACK_GUARD - 1 : ~InNew(a, n, i) => memory'[a] = memory[a]
  <2>1. ASSUME NEW a \in 0 .. STACK_GUARD - 1, ~InNew(a, n, i) PROVE memory'[a] = memory[a]
    <3>1. ~(nb + 8 <= a /\ a < nb + 8 + sb)
      BY <1>3, <1>4, <1>6, <1>11, <2>1
    <3> QED BY <1>13, <3>1
  <2> QED BY <2>1
<1>16. \A k \in 0 .. f - 1 : memory'[Cell(nb, k)] = v
  <2>1. ASSUME NEW k \in 0 .. f - 1 PROVE memory'[Cell(nb, k)] = v
    <3>1. k \in Int /\ 0 <= k /\ k < sb /\ k < S[nb]
      BY <1>3, <1>4, <1>6
    <3>2. nb \in Int /\ b \in Int /\ S[nb] \in Nat /\ 0 <= nb /\ nb + 8 + S[nb] <= STACK_GUARD
      BY <1>4, <1>6
    <3>4. Cell(nb, k) = nb + 8 + k /\ Cell(b, k) = b + 8 + k
      BY <1>12, <3>1, <3>2
    <3> DEFINE c == nb + 8 + k
    <3>5. /\ c \in 0 .. STACK_GUARD - 1 /\ nb + 8 <= c /\ c < nb + 8 + sb
          /\ c - nb + b = b + 8 + k
      BY <1>3, <1>4, <3>1, <3>2
    <3> HIDE DEF c
    <3>6. memory'[c] = memory[b + 8 + k]
      BY <1>13, <3>5
    <3>7. memory[Cell(b, k)] = v
      BY <1>10
    <3> QED BY <3>4, <3>6, <3>7 DEF c
  <2> QED BY <2>1
<1>17. \A k \in 0 .. f - 1 : memory'[Cell(NewBlock(i), k)] = v
  BY <1>16 DEF nb
<1>18. held' = WithBlock(h, NewBlock(i), Holding(n, f, v)) /\ block_size' = NewSizes(n, i) /\ user_brk_off' = NewBrk(n, i)
  BY <1>9 DEF nb, S
<1>19. \A k \in 1 .. Len(free_list') : free_list'[k] \in DOMAIN block_size \ (DOMAIN h \cup {NewBlock(i)})
  BY <1>7 DEF nb
<1>20. f \in Nat /\ f <= n /\ v \in Contents /\ free_list' \in Seq(Int) /\ Distinct(free_list')
  BY <1>4, <1>7
<1> QED BY <1>5, <1>14, <1>15, <1>17, <1>18, <1>19, <1>20, InstallLemma, SMTT(60)

---------------------------------------------------------------------------
\* Every step of the program keeps the inductive invariant.
LEMMA HeapNextLemma == HInv /\ [HeapNext]_hvars => HInv'
<1> SUFFICES ASSUME HInv, [HeapNext]_hvars PROVE HInv'
  OBVIOUS
<1>1. CASE UNCHANGED hvars
  BY <1>1 DEF hvars, HInv, Shape, BlocksApart, ContentsKept, EndOfBlock, Cell
<1>2. ASSUME NEW n \in Requests, Malloc(n) PROVE HInv'
  BY <1>2, MallocStepLemma
<1>3. ASSUME NEW n \in Requests, Calloc(n) PROVE HInv'
  BY <1>3, CallocStepLemma
<1>4. ASSUME NEW n \in Requests, Sbrk(n) PROVE HInv'
  BY <1>4, SbrkLemma
<1>5. ASSUME NEW n \in Requests, MallocReturnsNull(n) PROVE HInv'
  BY <1>1, <1>5 DEF MallocReturnsNull
<1>6. ASSUME NEW b \in DOMAIN held, Free(b) PROVE HInv'
  BY <1>6, FreeLemma
<1>7. ASSUME NEW b \in DOMAIN held, NEW n \in Requests, ReallocStays(b, n) PROVE HInv'
  BY <1>7, ReallocStaysLemma
<1>8. ASSUME NEW b \in DOMAIN held, NEW n \in Requests, ReallocMoves(b, n) PROVE HInv'
  BY <1>8, ReallocMovesLemma
<1>9. ASSUME NEW b \in DOMAIN held, NEW v \in Contents, Fill(b, v) PROVE HInv'
  BY <1>9, FillLemma
<1> QED BY <1>1, <1>2, <1>3, <1>4, <1>5, <1>6, <1>7, <1>8, <1>9 DEF HeapNext

\* malloc, calloc, realloc, free and SYS_SBRK (stdlib.c, kernel.c): for every
\* image size, guard offset and set of requests, blocks never overlap one
\* another, the image or the guard page, and a free block is nobody's.
THEOREM HeapBlocksApart == HeapSpec => []BlocksApart
<1>1. HInv => BlocksApart
  BY DEF HInv
<1> QED BY <1>1, HeapInitLemma, HeapNextLemma, PTL DEF HeapSpec

\* malloc, calloc, realloc and free: for every such constant, what a program
\* put into a block stays there until it frees the block.
THEOREM HeapContentsKept == HeapSpec => []ContentsKept
<1>1. HInv => ContentsKept
  BY DEF HInv
<1> QED BY <1>1, HeapInitLemma, HeapNextLemma, PTL DEF HeapSpec
=============================================================================
