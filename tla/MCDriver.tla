------------------------------ MODULE MCDriver ------------------------------
(***************************************************************************)
(* Images of code, data and bss in either order, one that fits no buffer,  *)
(* and one whose data reaches the end of a full-size heap.                 *)
(***************************************************************************)
EXTENDS Driver

Seg(load, vaddr, filesz, memsz) == [load |-> load, vaddr |-> vaddr, filesz |-> filesz, memsz |-> memsz]

Text == Seg(TRUE, 0, 4, 4)
Data == Seg(TRUE, 17, 1, 1)
Bss  == Seg(TRUE, 18, 1, 3)
Full == Seg(TRUE, 24, 2, 8)
Note == Seg(FALSE, 28, 2, 2)

MCImages == {<<Text>>, <<Text, Data, Bss>>, <<Bss, Note, Data, Text>>, <<Data, Full>>,
             <<Seg(TRUE, 2, 4, 4)>>, <<Text, Seg(TRUE, 20, 0, 0)>>}
OneImage == {<<Text, Data, Bss>>}
=============================================================================
