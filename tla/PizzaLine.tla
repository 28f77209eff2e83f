------------------------------ MODULE PizzaLine ------------------------------
(****************************************************************************)
(* What both pizzerias of cw07 promise, with no semaphore and no counter in *)
(* sight: an oven and a table of slots, on which cooks and deliverers work  *)
(* as if every visit to them were one atomic step.                          *)
(*   - a cook bakes only in a free slot and takes out its own pizza,        *)
(*   - one pizza at a time travels from the oven to the table,              *)
(*   - a cook serves only on a free slot, a deliverer takes one that holds  *)
(*     a pizza, and it is the pizza somebody served there.                  *)
(****************************************************************************)
EXTENDS Integers

CONSTANTS Cooks, Deliverers, OvenSize, TableSize, Pizzas, NoPizza

VARIABLES
  oven,     \* the pizza baking in each slot of the oven
  table,    \* the pizza waiting on each slot of the table
  baking,   \* the oven slot of each cook's pizza, NoSlot if it bakes none
  carried   \* the pizza in each worker's hands

vars == <<oven, table, baking, carried>>

NoSlot == -1
OvenSlots == 0 .. OvenSize - 1
TableSlots == 0 .. TableSize - 1
Workers == Cooks \union Deliverers

Init ==
  /\ oven = [i \in OvenSlots |-> NoPizza]
  /\ table = [i \in TableSlots |-> NoPizza]
  /\ baking = [c \in Cooks |-> NoSlot]
  /\ carried = [w \in Workers |-> NoPizza]

Bake(c) ==
  /\ baking[c] = NoSlot
  /\ carried[c] = NoPizza
  /\ \E i \in OvenSlots, p \in Pizzas :
       /\ oven[i] = NoPizza
       /\ oven' = [oven EXCEPT ![i] = p]
       /\ baking' = [baking EXCEPT ![c] = i]
  /\ UNCHANGED <<table, carried>>

TakeOut(c) ==
  /\ baking[c] # NoSlot
  /\ \A other \in Cooks : carried[other] = NoPizza
  /\ carried' = [carried EXCEPT ![c] = oven[baking[c]]]
  /\ oven' = [oven EXCEPT ![baking[c]] = NoPizza]
  /\ baking' = [baking EXCEPT ![c] = NoSlot]
  /\ UNCHANGED table

Serve(c) ==
  /\ carried[c] # NoPizza
  /\ \E i \in TableSlots :
       /\ table[i] = NoPizza
       /\ table' = [table EXCEPT ![i] = carried[c]]
  /\ carried' = [carried EXCEPT ![c] = NoPizza]
  /\ UNCHANGED <<oven, baking>>

Take(d) ==
  /\ carried[d] = NoPizza
  /\ \E i \in TableSlots :
       /\ table[i] # NoPizza
       /\ carried' = [carried EXCEPT ![d] = table[i]]
       /\ table' = [table EXCEPT ![i] = NoPizza]
  /\ UNCHANGED <<oven, baking>>

Deliver(d) ==
  /\ carried[d] # NoPizza
  /\ carried' = [carried EXCEPT ![d] = NoPizza]
  /\ UNCHANGED <<oven, table, baking>>

Next ==
  \/ \E c \in Cooks : Bake(c) \/ TakeOut(c) \/ Serve(c)
  \/ \E d \in Deliverers : Take(d) \/ Deliver(d)

Spec == Init /\ [][Next]_vars
=============================================================================
