-------------------------------- MODULE Heap --------------------------------
(***************************************************************************)
(* The allocator that programs link (fs/lib/stdlib.c) on the break that    *)
(* the kernel moves (SYS_SBRK), and a program that allocates, fills,       *)
(* resizes and frees blocks.  A block is known by the address of its       *)
(* header; addresses and sizes count cells of one byte.  The size fields   *)
(* and the links of the free list lie in the headers, which a program      *)
(* that stays within its blocks does not write: they are variables here.   *)
(***************************************************************************)
EXTENDS Integers, Sequences

HEADER_SIZE == 8        \* sizeof(Block)

CONSTANTS
    IMAGE_END,          \* where exec_user left the break
    STACK_GUARD,        \* offset of the guard page below the stack
    UNSIGNED,           \* 2^32
    Requests,           \* sizes a program asks for: none near INT_MAX, 0 for all up to 0
    Contents            \* what it fills its blocks with, 0 among it

ASSUME HeapAssumption ==
    /\ IMAGE_END \in Nat /\ STACK_GUARD \in Nat /\ UNSIGNED \in Nat
    /\ IMAGE_END <= STACK_GUARD /\ STACK_GUARD < UNSIGNED
    /\ Requests \subseteq Nat
    /\ \A n \in Requests : 2 * (n + HEADER_SIZE + 4) < UNSIGNED
    /\ 0 \in Contents

VARIABLES
    user_brk_off,   \* the break, as an offset into the user segment
    block_size,     \* the size field of every block ever made
    free_list,      \* the free blocks, first the head of the list
    held,           \* the program's blocks: cells asked for, cells filled, with what
    memory          \* the cells below the guard page

hvars == << user_brk_off, block_size, free_list, held, memory >>

HeapInit ==
    /\ user_brk_off = IMAGE_END
    /\ block_size = << >>
    /\ free_list = << >>
    /\ held = << >>
    /\ memory = [a \in 0 .. STACK_GUARD - 1 |-> 0]

---------------------------------------------------------------------------
(* SYS_SBRK: the room is an unsigned difference.                           *)

Room == IF user_brk_off <= STACK_GUARD THEN STACK_GUARD - user_brk_off
        ELSE STACK_GUARD - user_brk_off + UNSIGNED

Sbrk(inc) ==
    /\ inc <= Room
    /\ user_brk_off' = user_brk_off + inc
    /\ UNCHANGED << block_size, free_list, held, memory >>

---------------------------------------------------------------------------
(* malloc.                                                                 *)

\* The size rounded up to words.
Want(n) == ((n + 3) \div 4) * 4

\* Where malloc takes the block: the first one of the list that is large
\* enough, else 0 for a new one when there is room, else nowhere.
Fitting(n) == {i \in 1 .. Len(free_list) : block_size[free_list[i]] >= Want(n)}
Fit(n) ==
    IF Fitting(n) # {} THEN {i \in Fitting(n) : \A j \in Fitting(n) : i <= j}
    ELSE IF Want(n) + HEADER_SIZE <= Room THEN {0} ELSE {}

Places(n) == IF n = 0 THEN {} ELSE Fit(n)

\* What malloc(n) returns and leaves when it takes the block from i.
Without(s, i) == [k \in 1 .. Len(s) - 1 |-> IF k < i THEN s[k] ELSE s[k + 1]]
NewBlock(i)   == IF i # 0 THEN free_list[i] ELSE user_brk_off
\* Mutant: the block stays on the list.
StaysListed(i) == free_list
NewFree(i)    == IF i # 0 THEN Without(free_list, i) ELSE free_list
NewBrk(n, i)  == IF i # 0 THEN user_brk_off ELSE user_brk_off + Want(n) + HEADER_SIZE
NewSizes(n, i) ==
    IF i # 0 THEN block_size
    ELSE [b \in DOMAIN block_size \cup {user_brk_off} |-> IF b = user_brk_off THEN Want(n) ELSE block_size[b]]

Cell(b, k) == b + HEADER_SIZE + k
WithBlock(h, b, rec) == [x \in DOMAIN h \cup {b} |-> IF x = b THEN rec ELSE h[x]]
WithoutBlock(h, b) == [x \in DOMAIN h \ {b} |-> h[x]]
Holding(n, filled, v) == [asked |-> n, filled |-> filled, with |-> v]

Malloc(n) == \E i \in Places(n) :
    /\ held' = WithBlock(held, NewBlock(i), Holding(n, 0, 0))
    /\ free_list' = NewFree(i) /\ user_brk_off' = NewBrk(n, i) /\ block_size' = NewSizes(n, i)
    /\ UNCHANGED memory

\* malloc, and memset over the size asked for.
Calloc(n) == \E i \in Places(n) :
    /\ held' = WithBlock(held, NewBlock(i), Holding(n, n, 0))
    /\ free_list' = NewFree(i) /\ user_brk_off' = NewBrk(n, i) /\ block_size' = NewSizes(n, i)
    /\ memory' = [a \in DOMAIN memory |->
                    IF Cell(NewBlock(i), 0) <= a /\ a < Cell(NewBlock(i), n) THEN 0 ELSE memory[a]]

MallocReturnsNull(n) == Places(n) = {} /\ UNCHANGED hvars

---------------------------------------------------------------------------
(* free and realloc, for blocks the program holds.                         *)

Free(b) ==
    /\ free_list' = << b >> \o free_list
    /\ held' = WithoutBlock(held, b)
    /\ UNCHANGED << user_brk_off, block_size, memory >>

\* The block is large enough as it is.
ReallocStays(b, n) ==
    /\ block_size[b] >= n
    /\ held' = [held EXCEPT ![b] = Holding(n, IF held[b].filled <= n THEN held[b].filled ELSE n, held[b].with)]
    /\ UNCHANGED << user_brk_off, block_size, free_list, memory >>

\* Mutant: the old block is freed, its cells are not copied.
ReallocForgets(b, n) == \E i \in Places(n) :
    /\ block_size[b] < n
    /\ held' = WithBlock(WithoutBlock(held, b), NewBlock(i), Holding(n, held[b].filled, held[b].with))
    /\ free_list' = << b >> \o NewFree(i) /\ user_brk_off' = NewBrk(n, i) /\ block_size' = NewSizes(n, i)
    /\ UNCHANGED memory

\* A new block, the old one's cells copied to it, the old one freed.
ReallocMoves(b, n) == \E i \in Places(n) :
    /\ block_size[b] < n
    /\ memory' = [a \in DOMAIN memory |->
                    IF Cell(NewBlock(i), 0) <= a /\ a < Cell(NewBlock(i), block_size[b])
                    THEN memory[a - NewBlock(i) + b] ELSE memory[a]]
    /\ held' = WithBlock(WithoutBlock(held, b), NewBlock(i), Holding(n, held[b].filled, held[b].with))
    /\ free_list' = << b >> \o NewFree(i) /\ user_brk_off' = NewBrk(n, i) /\ block_size' = NewSizes(n, i)

---------------------------------------------------------------------------
(* The program fills the cells it asked for.                               *)

Fill(b, v) ==
    /\ memory' = [a \in DOMAIN memory |-> IF Cell(b, 0) <= a /\ a < Cell(b, held[b].asked) THEN v ELSE memory[a]]
    /\ held' = [held EXCEPT ![b] = Holding(held[b].asked, held[b].asked, v)]
    /\ UNCHANGED << user_brk_off, block_size, free_list >>

HeapNext ==
    \/ \E n \in Requests : Malloc(n) \/ Calloc(n)
    \/ \E n \in Requests : n > 0 /\ Sbrk(n)
    \/ \E n \in Requests : MallocReturnsNull(n)
    \/ \E b \in DOMAIN held :
         \/ Free(b)
         \/ \E n \in Requests : ReallocStays(b, n) \/ ReallocMoves(b, n)
         \/ \E v \in Contents : Fill(b, v)

HeapSpec == HeapInit /\ [][HeapNext]_hvars

---------------------------------------------------------------------------
EndOfBlock(b) == b + HEADER_SIZE + block_size[b]

\* malloc and SYS_SBRK: whatever is allocated, resized and freed, the blocks
\* with their headers lie between the image and the break, the break stays
\* below the stack's guard page, no two blocks share a cell, a block is as
\* large as was asked for, and no block is free and in use or free twice.
BlocksApart ==
    /\ user_brk_off <= STACK_GUARD
    /\ \A b \in DOMAIN block_size : IMAGE_END <= b /\ EndOfBlock(b) <= user_brk_off
    /\ \A a, b \in DOMAIN block_size : a # b => EndOfBlock(a) <= b \/ EndOfBlock(b) <= a
    /\ \A b \in DOMAIN held : b \in DOMAIN block_size /\ held[b].asked <= block_size[b]
    /\ \A i \in 1 .. Len(free_list) : free_list[i] \in DOMAIN block_size \ DOMAIN held
    /\ \A i, j \in 1 .. Len(free_list) : i # j => free_list[i] # free_list[j]

\* malloc, realloc and free: what a program stored in a block is there until
\* it frees the block, through every resize and whatever other blocks do.
ContentsKept ==
    \A b \in DOMAIN held :
        \A k \in 0 .. held[b].filled - 1 : memory[Cell(b, k)] = held[b].with
=============================================================================
