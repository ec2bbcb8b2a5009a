-------------------------------- MODULE MCVm --------------------------------
(***************************************************************************)
(* A small instance of Vm.  A table has two entries, of which user         *)
(* addresses select the first in a root table and both below; the stack    *)
(* lies behind another entry of the directory than the segments.  The two  *)
(* segments of the program share a page, which alloc_vm() thus replaces;   *)
(* neither fills it.                                                       *)
(***************************************************************************)
EXTENDS Vm

Code == <<0, 0, 0>>
Stack == <<0, 1, 0>>

MCVAs == {Code, Stack}
Segment(va, word) ==
    [pages |-> <<va>>, bytes |-> [v \in MCVAs |-> [i \in {word} |-> 1]]]
MCImages == {<<Segment(Code, 0), Segment(Code, 1), Segment(Stack, 1)>>}

=============================================================================
