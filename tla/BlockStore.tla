------------------------------ MODULE BlockStore ------------------------------
(***************************************************************************)
(* What fsw_block_get and fsw_block_release promise a file system driver,   *)
(* without any cache: a block that is on loan shows the content the disk    *)
(* has for it, at the block size in force, from the moment it is lent until *)
(* the last borrower returns it.                                            *)
(***************************************************************************)
EXTENDS Naturals

CONSTANTS Blocks,       \* physical block numbers
          Sizes,        \* physical block sizes a driver announces
          DefaultSize,  \* the size fsw_mount starts with
          NULL          \* no buffer

VARIABLES phys_blocksize,  \* block size in force
          loans,           \* loans[b]: gets of b not released yet
          lent             \* lent[b]: what a borrower of b reads, or NULL

vars == <<phys_blocksize, loans, lent>>

(* The disk content of block b when blocks have s bytes. *)
Content(b, s) == <<b, s>>

TypeOK == /\ phys_blocksize \in Sizes
          /\ loans \in [Blocks -> Nat]
          /\ lent \in [Blocks -> {NULL} \union (Blocks \X Sizes)]

Init == /\ phys_blocksize = DefaultSize
        /\ loans = [b \in Blocks |-> 0]
        /\ lent = [b \in Blocks |-> NULL]

Borrow(b) == /\ loans' = [loans EXCEPT ![b] = @ + 1]
             /\ lent' = [lent EXCEPT ![b] = Content(b, phys_blocksize)]
             /\ UNCHANGED phys_blocksize

Return(b) == /\ loans[b] > 0
             /\ loans' = [loans EXCEPT ![b] = @ - 1]
             /\ lent' = [lent EXCEPT ![b] = IF loans[b] = 1 THEN NULL ELSE @]
             /\ UNCHANGED phys_blocksize

Resize(s) == /\ \A b \in Blocks : loans[b] = 0
             /\ phys_blocksize' = s
             /\ UNCHANGED <<loans, lent>>

Next == \/ \E b \in Blocks : Borrow(b) \/ Return(b)
        \/ \E s \in Sizes : Resize(s)

Spec == Init /\ [][Next]_vars
================================================================================
