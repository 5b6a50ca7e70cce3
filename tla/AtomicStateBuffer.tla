--------------------------- MODULE AtomicStateBuffer ---------------------------
(***************************************************************************)
(* AtomicStateBuffer: the state of the joints on its way from the RT       *)
(* thread to controller_manager without a lock.  The fields (position,     *)
(* velocity and effort of every joint, in the order both loops visit them) *)
(* are atomics; a writer and a reader may meet anywhere between two        *)
(* fields.  A value is represented by the number of the RT cycle it        *)
(* belongs to.  Stores release and loads acquire, so a single order of all *)
(* the steps is a faithful view of them.                                   *)
(*                                                                         *)
(* StoreByJoint, BeginWriteAnytime, BeginReadAtSecond and StoreOrReset are *)
(* faulty variants of the definitions that stand next to them; no action   *)
(* uses them.                                                              *)
(***************************************************************************)
EXTENDS Naturals

CONSTANTS
  N,         \* the number of fields, three per joint
  MaxCycle   \* bound on the number of RT cycles

ASSUME NAssumption        == N \in Nat \ {0}
ASSUME MaxCycleAssumption == MaxCycle \in Nat

Field == 1 .. N

VARIABLES
  cell,       \* the cycle whose value each atomic holds
  cycle,      \* the cycle whose state the RT thread has written or is writing
  w,          \* how many fields of that state it has stored
  out,        \* the snapshot being filled, or the last one returned
  r,          \* how many fields of it have been loaded
  fresh,      \* history: the last cycle completely stored when the read began
  previous    \* history: the snapshot returned before

writerVars == <<cell, cycle, w>>
readerVars == <<out, r, fresh, previous>>
vars       == <<writerVars, readerVars>>

\* resize() and the first write_from_rt(), both in the constructor of the loop.
Init ==
  /\ cell = [i \in Field |-> 0]
  /\ cycle = 0 /\ w = N
  /\ out = [i \in Field |-> 0]
  /\ r = N
  /\ fresh = 0
  /\ previous = [i \in Field |-> 0]

-------------------------------------------------------------------------------
BeginWriteAnytime ==
  /\ cycle < MaxCycle
  /\ cycle' = cycle + 1
  /\ w' = 0
  /\ UNCHANGED <<cell, readerVars>>

\* write_from_rt(), called once per cycle: its call, and each of its stores.
BeginWrite ==
  /\ w = N /\ cycle < MaxCycle
  /\ cycle' = cycle + 1
  /\ w' = 0
  /\ UNCHANGED <<cell, readerVars>>

StoreByJoint ==
  /\ w < N
  /\ cell' = [cell EXCEPT ![w + 1] = cycle]
  /\ w' = w + 4
  /\ UNCHANGED <<cycle, readerVars>>

StoreOrReset ==
  /\ w < N
  /\ \E v \in {cycle, 0} : cell' = [cell EXCEPT ![w + 1] = v]
  /\ w' = w + 1
  /\ UNCHANGED <<cycle, readerVars>>

Store ==
  /\ w < N
  /\ cell' = [cell EXCEPT ![w + 1] = cycle]
  /\ w' = w + 1
  /\ UNCHANGED <<cycle, readerVars>>

BeginReadAtSecond ==
  /\ r = N
  /\ r' = 1
  /\ fresh' = IF w = N THEN cycle ELSE cycle - 1
  /\ previous' = out
  /\ UNCHANGED <<out, writerVars>>

\* read_from_non_rt(): its call, and each of its loads.
BeginRead ==
  /\ r = N
  /\ r' = 0
  /\ fresh' = IF w = N THEN cycle ELSE cycle - 1
  /\ previous' = out
  /\ UNCHANGED <<out, writerVars>>

Load ==
  /\ r < N
  /\ out' = [out EXCEPT ![r + 1] = cell[r + 1]]
  /\ r' = r + 1
  /\ UNCHANGED <<fresh, previous, writerVars>>

Next == BeginWrite \/ Store \/ BeginRead \/ Load

Spec == Init /\ [][Next]_vars

-------------------------------------------------------------------------------
(* Properties.  A snapshot may mix the fields of any number of cycles: the *)
(* reader may sleep between two loads.  What it never does is go back.     *)

Loaded == 1 .. r

TypeOK ==
  /\ cell \in [Field -> Nat] /\ cycle \in 0 .. MaxCycle /\ w \in 0 .. N
  /\ out \in [Field -> Nat] /\ r \in 0 .. N
  /\ fresh \in Nat
  /\ previous \in [Field -> Nat]

\* A field is at most one cycle older than any field loaded before it, however
\* often the writer overtakes the reader: the writer finishes a state before it
\* begins the next one, so at any moment the fields hold two cycles at most.
SkewBound ==
  \A i, j \in Loaded : i < j => out[j] + 1 >= out[i]

\* What the two loops over the fields keep at any moment of either: the types,
\* by which no loop runs past the last field, and the bound of the skew.
BufferInv == TypeOK /\ SkewBound

\* Every field is at least as new as the last state that was complete when
\* read_from_non_rt() was called.
FreshAtCall == \A i \in Loaded : out[i] >= fresh

\* Snapshots follow each other forward: no field is more than one cycle older
\* than anything the snapshot before held, and no field goes back at all.
NeverBack ==
  \A i \in Loaded : /\ out[i] >= previous[i]
                    /\ \A j \in Field : out[i] + 1 >= previous[j]

\* What controller_manager reads is never older than what it had a right to
\* expect: the last state complete at its call, and the snapshot before.
NotOlder == FreshAtCall /\ NeverBack

===============================================================================
