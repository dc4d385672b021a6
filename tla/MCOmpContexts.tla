--------------------------- MODULE MCOmpContexts ---------------------------
EXTENDS OmpContexts

Do(op) == [op |-> op, list |-> {}]
On(op, list) == [op |-> op, list |-> list]

Reduction(list) ==
  <<On("set", list), Do("reach"), Do("wait"), On("get", list), Do("combine")>>
Critical == <<Do("enter"), Do("load"), Do("exit")>>
Barrier == <<Do("reach"), Do("wait")>>

RegionProgram == <<Do("load")>> \o Critical \o Reduction({2, 3}) \o Barrier
TwoReductions == Reduction({2}) \o Barrier \o Reduction({3})
=============================================================================
