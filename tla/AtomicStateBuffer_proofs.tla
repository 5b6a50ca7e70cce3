------------------------ MODULE AtomicStateBuffer_proofs -----------------------
(***************************************************************************)
(* Proofs about AtomicStateBuffer, for any number of fields and of cycles. *)
(* What makes the buffer work without a lock is that its fields hold the   *)
(* values of two consecutive cycles at most, and never go back: the newer  *)
(* of them up to w, the older after it.  Everything else follows.          *)
(***************************************************************************)
EXTENDS AtomicStateBuffer, TLAPS

\* The writer's side: the fields up to w hold the current cycle, the others the
\* cycle before.
TwoCycles ==
  /\ w < N => cycle >= 1
  /\ \A i \in Field : cell[i] = IF i <= w THEN cycle ELSE cycle - 1

\* The reader's side: nothing read or remembered is newer than its field is now.
Behind ==
  \A i \in Field : /\ out[i] <= cell[i] /\ previous[i] <= cell[i]
                   /\ fresh <= cell[i]

Inv == TypeOK /\ TwoCycles /\ Behind /\ SkewBound /\ FreshAtCall /\ NeverBack

\* Stores and calls of write_from_rt() never take a field back, and keep all
\* fields within one cycle of each other.
LEMMA WriterStep ==
  ASSUME Inv, BeginWrite \/ Store
  PROVE  /\ TypeOK' /\ TwoCycles'
         /\ \A i \in Field : cell[i] <= cell'[i]
<1> USE NAssumption, MaxCycleAssumption DEF Field
<1>0. TypeOK /\ TwoCycles
  BY DEF Inv
<1>t. cycle \in Nat /\ w \in 0 .. N /\ \A i \in Field : cell[i] \in Nat
  BY <1>0 DEF TypeOK
<1>1. CASE BeginWrite
  BY <1>0, <1>1, <1>t, SMTT(30) DEF TypeOK, TwoCycles, BeginWrite, readerVars
<1>2. CASE Store
  <2>1. w + 1 \in Field /\ w' = w + 1 /\ cycle' = cycle
    BY <1>2, <1>t DEF Store
  <2>2. \A i \in Field : cell'[i] = IF i = w + 1 THEN cycle ELSE cell[i]
    BY <1>0, <1>2, <2>1 DEF Store, TypeOK
  <2>3. TypeOK'
    <3>1. cell' \in [Field -> Nat]
      BY <1>0, <1>2, <1>t DEF Store, TypeOK
    <3>2. UNCHANGED readerVars /\ w' \in 0 .. N
      BY <1>2, <1>t, <2>1 DEF Store
    <3> QED
      BY <1>0, <2>1, <3>1, <3>2 DEF TypeOK, readerVars
  <2>4. cycle >= 1
    BY <1>0, <1>2 DEF Store, TwoCycles
  <2>5. TwoCycles'
    <3> SUFFICES ASSUME NEW i \in Field
                 PROVE  cell'[i] = IF i <= w' THEN cycle' ELSE cycle' - 1
      BY <2>1, <2>4 DEF TwoCycles
    <3> QED
      BY <1>0, <1>t, <2>1, <2>2 DEF TwoCycles
  <2>6. \A i \in Field : cell[i] <= cell'[i]
    BY <1>0, <1>t, <2>1, <2>2 DEF TwoCycles
  <2> QED
    BY <2>3, <2>5, <2>6
<1> QED
  BY <1>1, <1>2

\* The buffer keeps the values of two consecutive cycles at most, so a snapshot,
\* whatever it mixes, never goes back in time.
LEMMA Invariance == Spec => []Inv
<1> USE NAssumption, MaxCycleAssumption DEF Field, Loaded
<1>1. Init => Inv
  BY DEF Init, Inv, TypeOK, TwoCycles, Behind, SkewBound, FreshAtCall, NeverBack
<1>2. Inv /\ [Next]_vars => Inv'
  <2> SUFFICES ASSUME Inv, [Next]_vars PROVE Inv'
    OBVIOUS
  <2>0. TypeOK /\ TwoCycles /\ Behind /\ SkewBound /\ FreshAtCall /\ NeverBack
    BY DEF Inv
  <2>t. /\ cycle \in Nat /\ w \in Nat /\ r \in 0 .. N /\ fresh \in Nat
        /\ \A i \in Field : cell[i] \in Nat /\ out[i] \in Nat /\ previous[i] \in Nat
    BY <2>0 DEF TypeOK
  <2>c. \A i, j \in Field : cell[i] + 1 >= cell[j]
    BY <2>0, <2>t DEF TwoCycles
  <2>1. CASE BeginWrite \/ Store
    <3>1. /\ TypeOK' /\ TwoCycles'
          /\ \A i \in Field : cell[i] <= cell'[i]
      BY <2>1, WriterStep
    <3>2. UNCHANGED readerVars
      BY <2>1 DEF BeginWrite, Store
    <3>3. \A i \in Field : cell'[i] \in Nat
      BY <3>1 DEF TypeOK
    <3>4. Behind'
      BY <2>0, <2>t, <3>1, <3>2, <3>3 DEF Behind, readerVars
    <3>5. SkewBound' /\ FreshAtCall' /\ NeverBack'
      BY <2>0, <3>2 DEF SkewBound, FreshAtCall, NeverBack, readerVars
    <3> QED
      BY <3>1, <3>4, <3>5 DEF Inv
  <2>2. CASE BeginRead
    <3>1. TypeOK' /\ TwoCycles'
      BY <2>0, <2>2 DEF BeginRead, writerVars, TypeOK, TwoCycles
    <3>2. /\ UNCHANGED <<out, cell, cycle, w>>
          /\ previous' = out /\ fresh' = IF w = N THEN cycle ELSE cycle - 1
      BY <2>2 DEF BeginRead, writerVars
    <3>3. \A i \in Field : fresh' <= cell[i]
      BY <2>0, <2>t, <3>2 DEF TwoCycles
    <3>4. Behind'
      BY <2>0, <3>2, <3>3 DEF Behind
    <3>5. SkewBound' /\ FreshAtCall' /\ NeverBack'
      BY <2>2 DEF BeginRead, SkewBound, FreshAtCall, NeverBack
    <3> QED
      BY <3>1, <3>4, <3>5 DEF Inv
  <2>3. CASE Load
    <3>1. r + 1 \in Field /\ r' = r + 1 /\ r \in 0 .. N
      BY <2>3, <2>t DEF Load
    <3>2. /\ UNCHANGED <<fresh, previous, cell, cycle, w>>
          /\ \A i \in Field : out'[i] = IF i = r + 1 THEN cell[i] ELSE out[i]
      BY <2>0, <2>3, <3>1 DEF Load, writerVars, TypeOK
    <3>3. TypeOK' /\ TwoCycles'
      BY <2>0, <2>3, <3>1, SMTT(30) DEF Load, writerVars, TypeOK, TwoCycles
    <3>4. Behind'
      BY <2>0, <2>t, <3>1, <3>2 DEF Behind
    <3>6. SkewBound'
      <4> SUFFICES ASSUME NEW i \in 1 .. r', NEW j \in 1 .. r', i < j
                   PROVE  out'[j] + 1 >= out'[i]
        BY DEF SkewBound
      <4>1. i \in 1 .. r /\ i \in Field /\ j \in Field
        BY <3>1
      <4>2. CASE j = r + 1
        BY <2>0, <2>t, <2>c, <3>1, <3>2, <4>1, <4>2 DEF Behind
      <4>3. CASE j \in 1 .. r
        BY <2>0, <3>1, <3>2, <4>1, <4>3 DEF SkewBound
      <4> QED
        BY <3>1, <4>2, <4>3
    <3>7. FreshAtCall'
      BY <2>0, <2>t, <3>1, <3>2 DEF FreshAtCall, Behind
    <3>8. NeverBack'
      <4> SUFFICES ASSUME NEW i \in 1 .. r'
                   PROVE  /\ out'[i] >= previous[i]
                          /\ \A j \in Field : out'[i] + 1 >= previous[j]
        BY <3>2 DEF NeverBack
      <4>1. CASE i = r + 1
        BY <2>0, <2>t, <2>c, <3>1, <3>2, <4>1 DEF Behind
      <4>2. CASE i \in 1 .. r
        BY <2>0, <3>1, <3>2, <4>2 DEF NeverBack
      <4> QED
        BY <3>1, <4>1, <4>2
    <3> QED
      BY <3>3, <3>4, <3>6, <3>7, <3>8 DEF Inv
  <2>4. CASE UNCHANGED vars
    BY <2>0, <2>4 DEF vars, writerVars, readerVars, Inv, TypeOK, TwoCycles,
                Behind, SkewBound, FreshAtCall, NeverBack
  <2> QED
    BY <2>1, <2>2, <2>3, <2>4 DEF Next
<1> QED
  BY <1>1, <1>2, PTL DEF Spec

-------------------------------------------------------------------------------
\* A snapshot read_from_non_rt() returns is skewed backwards by one cycle at
\* most, from any earlier loaded field to any later loaded one, and the variables
\* of the buffer keep their types.
THEOREM Skew == Spec => []BufferInv
BY Invariance, PTL DEF Inv, BufferInv

\* No field of a snapshot is older than the last state complete at the call, nor,
\* by more than the skew, than anything in the snapshot before.
THEOREM Forward == Spec => []NotOlder
BY Invariance, PTL DEF Inv, NotOlder

===============================================================================
