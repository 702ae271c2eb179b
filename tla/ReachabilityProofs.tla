-------------------------- MODULE ReachabilityProofs --------------------------
(***************************************************************************)
(* Proofs about what a program can reach, for all values of the constants  *)
(* and every program in the plain language, or that also drops heap        *)
(* objects from its arrays: no instruction and no collection follows a     *)
(* pointer to memory that is not allocated, and the machine implements     *)
(* garbage-collected memory (ManagedHeap), up to the first access outside  *)
(* the bounds of an object (Beyond).                                       *)
(***************************************************************************)
EXTENDS OwnershipProofs

----------------------------------------------------------------------------
(***************************************************************************)
(* The inductive invariant                                                 *)
(***************************************************************************)

\* The words a program works with: InUse is what they own.
Slots   == {stack[i] : i \in 0 .. sp - 1}
Callees == {frames[i].fn : i \in DOMAIN frames}
Words   == Slots \cup Constants \cup Range(globals) \cup {pending.obj} \cup Callees

\* Words point to constants, to registered objects, or to the one being registered.
Known == {Null, Prim} \cup Constants \cup Range(heap) \cup {pending.obj}

\* The function of a frame is still in the slot below its locals, where gc() marks it; the
\* operands of a frame are above its locals and below the callee of the next one.
Windows ==
    /\ frames[1].fn = Null
    /\ \A i \in 2 .. Len(frames) : frames[i].fn = stack[frames[i].base - 1]
    /\ \A i, j \in DOMAIN frames : i < j => frames[i].floor < frames[j].base
    /\ Frame.floor <= sp

\* No null global hides a later one from gc().
Dense == \A i, j \in DOMAIN globals : i < j /\ globals[j] # Null => globals[i] # Null

Permanent == Strings \cup Procs \subseteq live

\* An entry the sweep has still to examine is marked if the program can reach it.
Ahead == pc = "sweep" =>
    \A i \in 1 .. at : heap[i] \in Words /\ heap[i].type # "error" => marked[heap[i].at]

Sound == /\ pc # "fault"
         /\ pc # "freed" =>
               /\ Words \subseteq Known /\ Windows /\ Dense /\ Tame /\ Permanent /\ Ahead

\* The machine before and during a step, in the plain language.
Safe == Features \subseteq {"drop"} /\ Inv /\ Own /\ Sound /\ pc # "freed"

\* A word is an object whose memory, with all it owns, is allocated.
LEMMA WordsLive == ASSUME Safe, NEW w \in Words
                   PROVE  /\ w \in Object /\ w # Wild /\ ~Dead(w) /\ Tree(w) \subseteq live
                          /\ IsPtr(w) => /\ w.at \in live /\ w.at \in Addr
                                         /\ w.at \notin Elements
                                         /\ w \in Constants \cup Range(heap) \cup {pending.obj}
  <1>1. w \in Known /\ Permanent /\ Inv /\ Own
    BY DEF Safe, Sound
  <1>2. Elements \subseteq HeapAddr /\ elems \in Tables /\ live \subseteq Addr
    BY <1>1, TablesNow DEF Inv, Memory
  <1>3. \A a \in Strings \cup Procs : a \in live /\ a \in Addr /\ a \notin Elements
    BY <1>1, <1>2, AddrAssumption DEF Permanent, Addr
  <1>4. CASE w \in {Null, Prim}
    BY <1>4, PlainOK DEF Dead, Tree, Null, Prim, Wild
  <1>5. ASSUME w \in Pointers, w.at \in live, w.at \notin Elements,
               w \in Constants \cup Range(heap) \cup {pending.obj}
        PROVE  /\ w \in Object /\ w # Wild /\ ~Dead(w) /\ Tree(w) \subseteq live
               /\ IsPtr(w) => /\ w.at \in live /\ w.at \in Addr
                              /\ w.at \notin Elements
                              /\ w \in Constants \cup Range(heap) \cup {pending.obj}
    <2>1. w.type # "wild" /\ w.at \in Addr /\ w \in Object /\ w # Wild
      BY <1>5 DEF Pointers, Object, Wild
    <2>2. ClosedIn(elems, live)
      BY <1>1 DEF Own, ClosedIn
    <2>3. Tree(w) \subseteq live
      <3>1. ReachIn(elems, w.at) \subseteq live
        BY <1>2, <1>5, <2>1, <2>2, TreeWithin
      <3> QED BY <3>1, TreesNow
    <2> QED BY <1>5, <2>1, <2>3 DEF Dead
  <1>6. CASE w \in Constants
    <2>1. w \in Pointers /\ w.at \in Strings \cup Procs
      BY <1>6, ObjOK DEF Constants, Addr, Obj
    <2> QED BY <1>3, <1>5, <1>6, <2>1
  <1>7. CASE w \in Range(heap)
    <2>1. PICK i \in DOMAIN heap : w = heap[i]
      BY <1>7 DEF Range
    <2>2. w \in Pointers /\ w.at \in live /\ w.at \notin Elements
      BY <1>1, <2>1, Listed
    <2> QED BY <1>5, <1>7, <2>2
  <1>8. CASE w = pending.obj
    <2>1. w \in Pointers \cup {Null}
      BY <1>1, <1>8 DEF Inv, Registry
    <2>2. CASE w \in Pointers
      <3>1. IsPtr(w)
        BY <2>2, AddrAssumption DEF IsPtr, Pointers
      <3>2. w.at \in live /\ w.at \notin Elements
        BY <1>1, <1>8, <3>1 DEF Inv, Registry, HeapOwned
      <3> QED BY <1>5, <1>8, <2>2, <3>2
    <2> QED BY <1>4, <2>1, <2>2
  <1> QED BY <1>1, <1>4, <1>6, <1>7, <1>8 DEF Known

\* Operands, and the lists built-ins get of them, are words.
LEMMA OperandWords ==
    ASSUME Safe, NEW n \in Nat, Operands(n)
    PROVE  /\ \A k \in 1 .. n : Top(k) \in Words
           /\ \A k \in 1 .. n : Args(n)[k] \in Words
           /\ \A k \in 1 .. n : ~Dead(Top(k)) /\ ~DeadTree(<<Top(k)>>) /\ Top(k) # Wild
           /\ ~DeadTree(Args(n)) /\ DOMAIN Args(n) = 1 .. n
  <1>1. Regs /\ Inv
    BY DEF Safe, Inv
  <1>2. /\ sp \in Nat /\ DOMAIN Args(n) = 1 .. n
        /\ \A k \in 1 .. n : sp - k \in 0 .. StackSize - 1
        /\ \A k \in 1 .. n : Args(n)[k] = Top(n + 1 - k)
    BY <1>1, OperandsOK
  <1>3. \A k \in 1 .. n : Top(k) \in Words
    <2>1. \A k \in 1 .. n : sp - k \in 0 .. sp - 1
      BY <1>2
    <2> QED BY <2>1 DEF Top, Words, Slots
  <1>4. \A k \in 1 .. n : Args(n)[k] \in Words
    <2>1. \A k \in 1 .. n : n + 1 - k \in 1 .. n
      OBVIOUS
    <2> QED BY <1>2, <1>3, <2>1
  <1>5. ~DeadTree(Args(n))
    BY <1>2, <1>4, WordsLive DEF DeadTree, Trees
  <1>6. \A k \in 1 .. n : ~Dead(Top(k)) /\ ~DeadTree(<<Top(k)>>) /\ Top(k) # Wild
    <2> SUFFICES ASSUME NEW k \in 1 .. n
                 PROVE  ~Dead(Top(k)) /\ ~DeadTree(<<Top(k)>>) /\ Top(k) # Wild
      OBVIOUS
    <2> DEFINE u == Top(k)
    <2>1. ~Dead(u) /\ Tree(u) \subseteq live /\ u # Wild
      BY <1>3, WordsLive
    <2> HIDE DEF u
    <2>2. DOMAIN <<u>> = {1} /\ <<u>>[1] = u
      OBVIOUS
    <2>3. ~DeadTree(<<u>>)
      BY <2>1, <2>2 DEF DeadTree, Trees
    <2> QED BY <2>1, <2>3 DEF u
  <1> QED BY <1>2, <1>3, <1>4, <1>5, <1>6

----------------------------------------------------------------------------
(***************************************************************************)
(* How an instruction moves words                                          *)
(***************************************************************************)

\* Words are moved, nulls and primitives made, and v.
Moves(v) ==
    /\ Windows' /\ Dense'
    /\ Slots' \cup Range(globals)' \cup Callees' \subseteq Words \cup {Null, Prim, v}

\* Below the locals of the current frame lie the slots of all callees.
LEMMA Bases == ASSUME Safe
               PROVE  /\ Len(frames) \in Nat \ {0} /\ sp \in Nat /\ sp <= StackSize /\ StackSize \in Nat
                      /\ Frame.base \in Nat /\ Frame.floor \in Nat
                      /\ Frame.base <= Frame.floor /\ Frame.floor <= sp
                      /\ \A i \in 1 .. Len(frames) :
                            /\ i \in DOMAIN frames
                            /\ frames[i].base \in Nat /\ frames[i].floor \in Nat
                            /\ frames[i].base <= frames[i].floor
                      /\ \A i \in 2 .. Len(frames) : frames[i].base - 1 \in 0 .. Frame.base - 1
  <1>1. Regs /\ Windows /\ FramesOK
    BY DEF Safe, Sound, Inv, Regs
  <1>2. /\ Len(frames) \in Nat \ {0} /\ Frame.base \in Nat /\ Frame.floor \in Nat
        /\ Frame.base <= Frame.floor /\ Frame.floor <= sp
    BY <1>1, FrameOK DEF Windows
  <1>3. sp \in Nat /\ sp <= StackSize /\ StackSize \in Nat
    BY <1>1, SizeAssumption DEF Regs
  <1> DEFINE R == [fn : Pointers \cup {Null}, base : Nat, floor : Nat]
  <1>4. frames \in Seq(R)
    BY <1>1 DEF Regs
  <1>5. ASSUME NEW i \in 1 .. Len(frames)
        PROVE  i \in DOMAIN frames /\ frames[i].base \in Nat /\ frames[i].floor \in Nat
    <2>1. i \in DOMAIN frames /\ frames[i] \in R
      <3> HIDE DEF R
      <3> QED BY <1>4
    <2> QED BY <2>1
  <1>6. \A i \in 1 .. Len(frames) : frames[i].base <= frames[i].floor
    BY <1>1, <1>5 DEF FramesOK
  <1>7. ASSUME NEW i \in 2 .. Len(frames) PROVE frames[i].base - 1 \in 0 .. Frame.base - 1
    <2>1. i \in 1 .. Len(frames) /\ i \in Nat /\ i > 1 /\ Len(frames) \in 1 .. Len(frames)
      BY <1>2
    <2>2. frames[i].base > 0
      BY <1>1, <1>5, <2>1 DEF FramesOK
    <2>3. frames[i].base <= Frame.base
      <3>1. CASE i = Len(frames)
        BY <1>2, <3>1 DEF Frame
      <3>2. CASE i < Len(frames)
        <4>1. frames[i].floor < Frame.base
          BY <1>1, <1>5, <2>1, <3>2 DEF Windows, Frame
        <4> QED BY <1>2, <1>5, <1>6, <2>1, <4>1
      <3> QED BY <1>2, <2>1, <3>1, <3>2
    <2> QED BY <1>2, <1>5, <2>1, <2>2, <2>3
  <1> QED BY <1>2, <1>3, <1>5, <1>6, <1>7

\* An instruction that leaves the frames and what is below the locals alone.
LEMMA StackMoves ==
    ASSUME Safe, NEW v, UNCHANGED frames, sp' \in Nat, Frame.floor <= sp',
           \A i \in 0 .. Frame.base - 1 : stack'[i] = stack[i],
           \A i \in 0 .. sp' - 1 : stack'[i] \in Words \cup {Null, Prim, v},
           Range(globals)' \subseteq Words \cup {Null, Prim, v}, Dense'
    PROVE  Moves(v)
  <1>1. Windows
    BY DEF Safe, Sound
  <1>2. \A i \in 2 .. Len(frames) : frames[i].fn = stack'[frames[i].base - 1]
    BY <1>1, Bases DEF Windows
  <1>3. Windows'
    BY <1>1, <1>2 DEF Windows, Frame
  <1>4. Slots' \subseteq Words \cup {Null, Prim, v}
    BY DEF Slots
  <1>5. Callees' \subseteq Words
    BY DEF Callees, Words
  <1> QED BY <1>3, <1>4, <1>5 DEF Moves

\* The globals are left alone.
LEMMA SameGlobals == ASSUME Safe, UNCHANGED globals
                     PROVE  Dense' /\ Range(globals)' \subseteq Words
  <1>1. Dense
    BY DEF Safe, Sound
  <1>2. Range(globals)' = Range(globals)
    BY DEF Range
  <1> QED BY <1>1, <1>2 DEF Dense, Words

LEMMA CutAt == ASSUME NEW st, NEW top \in Int, NEW i \in DOMAIN st, i \in Int, i < top
               PROVE  Cut(st, top)[i] = st[i]
  BY DEF Cut

\* Slots on the stack are words.
LEMMA SlotWord == ASSUME Safe, NEW i \in 0 .. sp - 1 PROVE stack[i] \in Words
  BY DEF Words, Slots

LEMMA ResultMoves ==
    ASSUME Safe, NEW n \in Nat, Operands(n), sp - n \in 0 .. StackSize - 1, NEW v, Result(n, v),
           UNCHANGED <<globals, frames>>
    PROVE  Moves(v)
  <1>1. /\ sp \in Nat /\ Frame.floor <= sp - n /\ Frame.base <= Frame.floor
        /\ Frame.base \in Nat /\ Frame.floor \in Nat /\ StackSize \in Nat
        /\ DOMAIN stack = 0 .. StackSize - 1 /\ sp <= StackSize
    <2>1. Regs
      BY DEF Safe, Inv
    <2> QED BY <2>1, OperandsOK, Bases DEF Regs
  <1> DEFINE st == [stack EXCEPT ![sp - n] = v]
  <1>2. DOMAIN st = 0 .. StackSize - 1 /\ st[sp - n] = v
        /\ \A i \in 0 .. sp - n - 1 : st[i] = stack[i]
    BY <1>1
  <1>3. sp' = sp - n + 1 /\ stack' = Cut(st, sp - n + 1)
    BY DEF Result
  <1> HIDE DEF st
  <1>4. \A i \in 0 .. sp - n : stack'[i] = st[i]
    BY <1>1, <1>2, <1>3 DEF Cut
  <1>5. \A i \in 0 .. sp - n - 1 : stack'[i] = stack[i] /\ stack[i] \in Words
    BY <1>1, <1>2, <1>4, SlotWord
  <1>6. \A i \in 0 .. Frame.base - 1 : stack'[i] = stack[i]
    BY <1>1, <1>5
  <1>7. \A i \in 0 .. sp' - 1 : stack'[i] \in Words \cup {Null, Prim, v}
    <2> SUFFICES ASSUME NEW i \in 0 .. sp' - 1 PROVE stack'[i] \in Words \cup {Null, Prim, v}
      OBVIOUS
    <2>1. i \in 0 .. sp - n - 1 \/ i = sp - n
      BY <1>1, <1>3
    <2>2. sp - n \in 0 .. sp - n
      BY <1>1
    <2> QED BY <1>2, <1>4, <1>5, <2>1, <2>2
  <1>8. sp' \in Nat /\ Frame.floor <= sp'
    BY <1>1, <1>3
  <1> QED BY <1>6, <1>7, <1>8, SameGlobals, StackMoves

\* Slicing, and the instructions that only pop.
LEMMA CutMoves ==
    ASSUME Safe, NEW n \in Nat, Operands(n), NEW v,
           stack' = Cut(stack, sp - n), sp' = sp - n, UNCHANGED frames,
           Range(globals)' \subseteq Words \cup {Null, Prim, v}, Dense'
    PROVE  Moves(v)
  <1>1. /\ sp \in Nat /\ Frame.floor <= sp - n /\ Frame.base <= Frame.floor /\ sp - n \in Nat
        /\ Frame.base \in Nat /\ Frame.floor \in Nat /\ StackSize \in Nat
        /\ DOMAIN stack = 0 .. StackSize - 1 /\ sp <= StackSize
    <2>1. Regs
      BY DEF Safe, Inv
    <2> QED BY <2>1, OperandsOK, Bases DEF Regs
  <1>2. \A i \in 0 .. sp - n - 1 : stack'[i] = stack[i] /\ stack[i] \in Words
    BY <1>1, SlotWord DEF Cut
  <1>3. \A i \in 0 .. Frame.base - 1 : stack'[i] = stack[i]
    BY <1>1, <1>2
  <1> QED BY <1>1, <1>2, <1>3, StackMoves

\* SET_LOCAL writes to a slot between the locals' base and the operands.
LEMMA LocalMoves == ASSUME Safe, SetLocal PROVE Moves(Null)
  <1>1. PICK k \in Frame.base .. Frame.floor - 1 :
          /\ Operands(1)
          /\ stack' = Cut([stack EXCEPT ![k] = Top(1)], sp - 1) /\ sp' = sp - 1
          /\ UNCHANGED <<store, marked, list, globals, frames, ctl>>
    BY DEF SetLocal
  <1>2. /\ sp \in Nat /\ Frame.floor <= sp - 1 /\ Frame.base <= Frame.floor /\ sp - 1 \in Nat
        /\ Frame.base \in Nat /\ Frame.floor \in Nat /\ StackSize \in Nat
        /\ DOMAIN stack = 0 .. StackSize - 1 /\ sp <= StackSize
    <2>1. Regs /\ 1 \in Nat
      BY DEF Safe, Inv
    <2> QED BY <1>1, <2>1, OperandsOK, Bases DEF Regs
  <1>3. Top(1) \in Words
    <2>1. 1 \in Nat /\ 1 \in 1 .. 1
      OBVIOUS
    <2> QED BY <1>1, <2>1, OperandWords
  <1> DEFINE st == [stack EXCEPT ![k] = Top(1)]
  <1>4. /\ DOMAIN st = 0 .. StackSize - 1
        /\ \A i \in 0 .. StackSize - 1 : st[i] = IF i = k THEN Top(1) ELSE stack[i]
    BY <1>2
  <1>5. stack' = Cut(st, sp - 1) /\ sp' = sp - 1
    BY <1>1
  <1> HIDE DEF st
  <1>6. \A i \in 0 .. sp - 2 : stack'[i] = st[i] /\ stack[i] \in Words /\ i \in 0 .. StackSize - 1
    <2>1. \A i \in 0 .. sp - 2 : i \in 0 .. StackSize - 1 /\ i \in 0 .. sp - 1 /\ i < sp - 1
      BY <1>2
    <2>2. \A i \in 0 .. sp - 2 : stack'[i] = st[i]
      BY <1>2, <1>4, <1>5, <2>1 DEF Cut
    <2> QED BY <2>1, <2>2, SlotWord
  <1>7. \A i \in 0 .. Frame.base - 1 : stack'[i] = stack[i]
    <2>1. \A i \in 0 .. Frame.base - 1 : i \in 0 .. sp - 2 /\ i # k
      BY <1>2
    <2> QED BY <1>4, <1>6, <2>1
  <1>8. \A i \in 0 .. sp - 2 : stack'[i] \in Words
    BY <1>3, <1>4, <1>6
  <1>9. \A i \in 0 .. sp' - 1 : stack'[i] \in Words \cup {Null, Prim, Null}
    BY <1>2, <1>8, <1>5
  <1>10. sp' \in Nat /\ Frame.floor <= sp' /\ UNCHANGED <<globals, frames>>
    BY <1>1, <1>2
  <1> QED BY <1>7, <1>9, <1>10, SameGlobals, StackMoves

\* SET_GLOBAL takes null for no value, and leaves no gap.
LEMMA StoreMoves == ASSUME Safe, Store PROVE Moves(Null)
  <1>1. 1 \in Nat /\ 1 \in 1 .. 1 /\ globals \in [0 .. GlobalsSize - 1 -> Object] /\ GlobalsSize \in Nat
    BY SizeAssumption DEF Safe, Inv, Regs
  <1>2. CASE Pop
    BY <1>1, <1>2, SameGlobals, CutMoves DEF Pop, Popped
  <1>3. CASE SetGlobal
    <2>1. PICK i \in DOMAIN globals :
            /\ Operands(1) /\ Popped
            /\ "null_global" \in Features
                 \/ (Top(1) # Null /\ \A j \in 0 .. i - 1 : globals[j] # Null)
            /\ globals' = [globals EXCEPT ![i] = Top(1)]
            /\ UNCHANGED <<store, marked, list, frames, ctl>>
      BY <1>3 DEF SetGlobal
    <2>2. Top(1) # Null /\ \A j \in 0 .. i - 1 : globals[j] # Null
      BY <2>1 DEF Safe
    <2>3. Top(1) \in Words /\ Dense
      BY <1>1, <2>1, OperandWords DEF Safe, Sound
    <2>4. Range(globals)' \subseteq Words
      <3>1. \A j \in DOMAIN globals : globals'[j] \in Range(globals) \cup {Top(1)}
        BY <2>1 DEF Range
      <3>2. DOMAIN globals' = DOMAIN globals
        BY <2>1
      <3> QED BY <2>3, <3>1, <3>2 DEF Range, Words
    <2>5. Dense'
      <3> SUFFICES ASSUME NEW j \in DOMAIN globals, NEW k \in DOMAIN globals, j < k,
                          globals'[k] # Null
                   PROVE  globals'[j] # Null
        BY <1>1, <2>1 DEF Dense
      <3>1. CASE j = i
        BY <1>1, <2>1, <2>2, <3>1
      <3>2. CASE j # i /\ k = i
        BY <1>1, <2>1, <2>2, <3>2
      <3>3. CASE j # i /\ k # i
        BY <1>1, <2>1, <2>3, <3>3 DEF Dense
      <3> QED BY <3>1, <3>2, <3>3
    <2> QED BY <1>1, <2>1, <2>4, <2>5, CutMoves DEF Popped
  <1> QED BY <1>2, <1>3, LocalMoves DEF Store

\* A call opens a frame above its callee; its locals are its arguments.
LEMMA CallMoves ==
    ASSUME Safe, NEW args \in Nat, NEW locals \in Nat, Operands(args + 1), locals <= args,
           UNCHANGED globals,
           frames' = Append(frames, [fn |-> Top(args + 1), base |-> sp - args,
                                     floor |-> sp - args + locals]),
           stack' = Cut(stack, sp - args + locals), sp' = sp - args + locals
    PROVE  Moves(Null)
  <1> DEFINE base == sp - args
             fr == [fn |-> Top(args + 1), base |-> base, floor |-> base + locals]
             n == Len(frames)
  <1>1. Windows /\ Regs /\ args + 1 \in Nat /\ args + 1 \in 1 .. args + 1
    BY DEF Safe, Sound, Inv
  <1>2. /\ sp \in Nat /\ Frame.floor <= sp - (args + 1) /\ sp <= StackSize /\ StackSize \in Nat
        /\ Frame.base <= Frame.floor /\ Frame.base \in Nat /\ Frame.floor \in Nat
        /\ DOMAIN stack = 0 .. StackSize - 1 /\ n \in Nat \ {0}
    BY <1>1, Bases, OperandsOK DEF Regs
  <1>3. Top(args + 1) \in Words
    BY <1>1, OperandWords
  <1>4. /\ Len(frames') = n + 1 /\ DOMAIN frames' = 1 .. n + 1 /\ frames'[n + 1] = fr
        /\ \A i \in 1 .. n : frames'[i] = frames[i] /\ i \in DOMAIN frames
    <2>1. frames \in Seq([fn : Pointers \cup {Null}, base : Nat, floor : Nat])
      BY <1>1 DEF Regs
    <2>2. frames' = Append(frames, fr)
      OBVIOUS
    <2> HIDE DEF fr
    <2> QED BY <2>1, <2>2
  <1>5. \A i \in 0 .. sp' - 1 : stack'[i] = stack[i] /\ stack[i] \in Words
    <2>1. \A i \in 0 .. base + locals - 1 : i \in 0 .. StackSize - 1 /\ i \in 0 .. sp - 1 /\ i < base + locals
      BY <1>2
    <2>2. stack' = Cut(stack, base + locals) /\ sp' = base + locals
      OBVIOUS
    <2> HIDE DEF base
    <2> QED BY <1>2, <2>1, <2>2, SlotWord DEF Cut
  <1>6. fr.fn = Top(args + 1) /\ fr.base = base /\ fr.floor = base + locals
    OBVIOUS
  <1>7. base \in Nat /\ sp' = base + locals /\ Frame.floor < base /\ base - 1 = sp - (args + 1)
    BY <1>2
  <1> HIDE DEF fr, base
  <1>8. \A i \in 2 .. n : frames[i].fn = stack'[frames[i].base - 1]
    <2> SUFFICES ASSUME NEW i \in 2 .. n PROVE frames[i].fn = stack'[frames[i].base - 1]
      OBVIOUS
    <2>1. frames[i].fn = stack[frames[i].base - 1] /\ frames[i].base - 1 \in 0 .. Frame.base - 1
      BY <1>1, Bases DEF Windows
    <2>2. Frame.base <= sp' /\ Frame.base \in Nat /\ sp' \in Nat
      BY <1>2, <1>7
    <2>3. \A j \in 0 .. Frame.base - 1 : j \in 0 .. sp' - 1
      BY <2>2
    <2>4. frames[i].base - 1 \in 0 .. sp' - 1
      BY <2>1, <2>3
    <2> QED BY <1>5, <2>1, <2>4
  <1>9. fr.fn = stack'[fr.base - 1]
    <2>1. base - 1 \in 0 .. sp' - 1
      BY <1>2, <1>7
    <2> QED BY <1>5, <1>6, <1>7, <2>1 DEF Top
  <1>10. \A i \in 1 .. n : frames[i].floor < base
    <2> SUFFICES ASSUME NEW i \in 1 .. n PROVE frames[i].floor < base
      OBVIOUS
    <2>1. frames[i].floor \in Nat /\ i \in DOMAIN frames
      BY Bases
    <2>2. CASE i = n
      BY <1>7, <2>2 DEF Frame
    <2>3. CASE i < n
      <3>1. n \in DOMAIN frames
        BY <1>2, Bases
      <3>2. frames[i].floor < Frame.base
        BY <1>1, <2>1, <2>3, <3>1 DEF Windows, Frame
      <3> QED BY <1>2, <1>7, <2>1, <3>2
    <2> QED BY <1>2, <2>2, <2>3
  <1>11. Windows'
    <2>1. frames'[1].fn = Null
      BY <1>1, <1>2, <1>4 DEF Windows
    <2>2. \A i \in 2 .. n + 1 : frames'[i].fn = stack'[frames'[i].base - 1]
      <3> SUFFICES ASSUME NEW i \in 2 .. n + 1
                   PROVE  frames'[i].fn = stack'[frames'[i].base - 1]
        OBVIOUS
      <3>1. i \in 2 .. n \/ i = n + 1
        BY <1>2
      <3>2. \A k \in 2 .. n : k \in 1 .. n
        BY <1>2
      <3> QED BY <1>4, <1>8, <1>9, <3>1, <3>2
    <2>3. ASSUME NEW i \in 1 .. n + 1, NEW j \in 1 .. n + 1, i < j
          PROVE  frames'[i].floor < frames'[j].base
      <3>1. i \in 1 .. n
        BY <1>2, <2>3
      <3>2. CASE j = n + 1
        BY <1>4, <1>6, <1>10, <3>1, <3>2
      <3>3. CASE j \in 1 .. n
        BY <1>1, <1>4, <2>3, <3>1, <3>3 DEF Windows
      <3> QED BY <1>2, <3>2, <3>3
    <2>4. frames'[Len(frames')].floor <= sp'
      BY <1>4, <1>6, <1>7
    <2> QED BY <1>4, <2>1, <2>2, <2>3, <2>4 DEF Windows, Frame
  <1>12. Slots' \subseteq Words
    BY <1>5 DEF Slots
  <1>13. Callees' \subseteq Words
    <2>1. \A i \in 1 .. n + 1 : i \in 1 .. n \/ i = n + 1
      BY <1>2
    <2>2. \A i \in 1 .. n + 1 : frames'[i].fn \in Callees \cup {fr.fn}
      BY <1>4, <2>1 DEF Callees
    <2> QED BY <1>3, <1>4, <1>6, <2>2 DEF Callees, Words
  <1> QED BY <1>11, <1>12, <1>13, SameGlobals DEF Moves

\* A return puts its result into the slot of the callee.
LEMMA ReturnMoves == ASSUME Safe, NEW v \in Words \cup {Null}, Return(v) PROVE Moves(Null)
  <1> DEFINE n == Len(frames)
             b == Frame.base
             st == [stack EXCEPT ![b - 1] = v]
  <1>1. Windows /\ Regs /\ frames \in Seq([fn : Pointers \cup {Null}, base : Nat, floor : Nat])
    BY DEF Safe, Sound, Inv, Regs
  <1>2. /\ n > 1 /\ sp' = b /\ stack' = Cut(st, b) /\ frames' = SubSeq(frames, 1, n - 1)
        /\ UNCHANGED globals
    BY DEF Return
  <1>3. /\ sp \in Nat /\ sp <= StackSize /\ StackSize \in Nat /\ n \in Nat
        /\ b \in Nat /\ b > 0 /\ b <= sp /\ DOMAIN stack = 0 .. StackSize - 1
    <2>1. sp \in Nat /\ sp <= StackSize /\ StackSize \in Nat /\ n \in Nat /\ b \in Nat
          /\ b <= Frame.floor /\ Frame.floor <= sp /\ Frame.floor \in Nat
      BY Bases
    <2>2. b > 0
      BY <1>1, <1>2, FrameOK
    <2> QED BY <1>1, <2>1, <2>2 DEF Regs
  <1>4. /\ Len(frames') = n - 1 /\ DOMAIN frames' = 1 .. n - 1
        /\ \A i \in 1 .. n - 1 : frames'[i] = frames[i] /\ i \in DOMAIN frames
    <2> DEFINE k == n - 1
    <2>1. k \in Nat /\ k <= Len(frames) /\ frames' = SubSeq(frames, 1, k)
      BY <1>2, <1>3
    <2>2. \A i \in 1 .. k : i \in DOMAIN frames
      BY <1>1, <1>3
    <2> HIDE DEF k
    <2>3. DOMAIN frames' = 1 .. k /\ (\A i \in 1 .. k : frames'[i] = frames[i]) /\ frames' \in Seq([fn : Pointers \cup {Null}, base : Nat, floor : Nat])
      BY <1>1, <2>1, Prefix
    <2>4. Len(frames') = k
      BY <2>1, <2>3
    <2> QED BY <2>2, <2>3, <2>4 DEF k
  <1>5. /\ \A i \in 0 .. b - 2 : stack'[i] = stack[i] /\ stack[i] \in Words
        /\ stack'[b - 1] = v
    <2>1. /\ DOMAIN st = 0 .. StackSize - 1
          /\ \A i \in 0 .. StackSize - 1 : st[i] = IF i = b - 1 THEN v ELSE stack[i]
      BY <1>3
    <2>2. stack' = Cut(st, b)
      BY <1>2
    <2>3. \A i \in 0 .. b - 1 : i \in 0 .. StackSize - 1 /\ i \in 0 .. sp - 1 /\ i < b
      BY <1>3
    <2> HIDE DEF st, b
    <2>4. \A i \in 0 .. b - 1 : stack'[i] = st[i]
      BY <1>3, <2>1, <2>2, <2>3, CutAt
    <2> QED BY <1>3, <2>1, <2>3, <2>4, SlotWord
  <1>6. \A i \in 1 .. n - 1 : frames[i].floor \in Nat /\ frames[i].base \in Nat
                              /\ frames[i].base <= frames[i].floor /\ frames[i].floor < b
    <2> SUFFICES ASSUME NEW i \in 1 .. n - 1
                 PROVE  /\ frames[i].floor \in Nat /\ frames[i].base \in Nat
                        /\ frames[i].base <= frames[i].floor /\ frames[i].floor < b
      OBVIOUS
    <2>1. i \in 1 .. n /\ n \in 1 .. n /\ i < n
      BY <1>2, <1>3
    <2>2. frames[i].floor < frames[n].base
      BY <1>1, <2>1, Bases DEF Windows
    <2> QED BY <2>1, <2>2, Bases DEF Frame
  <1>7. Windows'
    <2>1. frames'[1].fn = Null
      BY <1>1, <1>2, <1>3, <1>4 DEF Windows
    <2>2. ASSUME NEW i \in 2 .. n - 1 PROVE frames'[i].fn = stack'[frames'[i].base - 1]
      <3>1. i \in 1 .. n - 1 /\ i \in 2 .. n
        BY <1>3
      <3>2. frames[i].base - 1 \in 0 .. b - 2
        <4>1. frames[i].base - 1 \in 0 .. b - 1
          BY <3>1, Bases
        <4>2. frames[i].base < b
          BY <1>3, <1>6, <3>1
        <4> QED BY <1>3, <1>6, <3>1, <4>1, <4>2
      <3>3. frames[i].fn = stack[frames[i].base - 1]
        BY <1>1, <3>1 DEF Windows
      <3> QED BY <1>4, <1>5, <3>1, <3>2, <3>3
    <2>3. \A i, j \in 1 .. n - 1 : i < j => frames'[i].floor < frames'[j].base
      BY <1>1, <1>4 DEF Windows
    <2>4. frames'[n - 1].floor <= sp'
      <3>1. n - 1 \in 1 .. n - 1
        BY <1>2, <1>3
      <3> QED BY <1>2, <1>3, <1>4, <1>6, <3>1
    <2> HIDE DEF n, b
    <2> QED BY <1>4, <2>1, <2>2, <2>3, <2>4 DEF Windows, Frame
  <1>8. Slots' \subseteq Words \cup {Null}
    <2>1. \A i \in 0 .. b - 1 : i \in 0 .. b - 2 \/ i = b - 1
      BY <1>3
    <2> QED BY <1>2, <1>5, <2>1 DEF Slots
  <1>9. Callees' \subseteq Words
    BY <1>4 DEF Callees, Words
  <1>10. Dense' /\ Range(globals)' \subseteq Words
    BY <1>2, SameGlobals
  <1> QED BY <1>7, <1>8, <1>9, <1>10 DEF Moves

----------------------------------------------------------------------------
(***************************************************************************)
(* No instruction of a running program faults                              *)
(***************************************************************************)

\* An instruction that registers nothing, and one that registers v; C is what they
\* allocate.
Gentle(C) == Links(C) /\ Tame' /\ Moves(Null) /\ UNCHANGED <<list, ctl>>
Fresher(C, v) ==
    /\ Links(C) /\ Tame' /\ Moves(v) /\ v \in Pointers /\ v.at \in C
    /\ \E push \in BOOLEAN : GcAdd(C, v, push)

Kind == \/ \E C : Gentle(C)
        \/ \E C, v : Fresher(C, v)

LEMMA CalmKind == ASSUME Safe, UNCHANGED <<store, list, ctl>>, Moves(Null) PROVE Kind
  <1>1. elems' \in Tables /\ elems' = elems /\ live' = live /\ Tame
    BY TablesNow DEF store, Safe, Sound
  <1>2. Links({})
    BY <1>1 DEF Links
  <1>3. Tame'
    BY <1>1 DEF Tame
  <1>4. Gentle({})
    BY <1>2, <1>3 DEF Gentle
  <1> QED BY <1>4 DEF Kind

LEMMA PlainKind ==
    ASSUME Safe, NEW n \in Nat, Operands(n), sp - n \in 0 .. StackSize - 1,
           NEW v \in Words \cup {Null, Prim}, Plain(n, v)
    PROVE  Kind
  <1>1. Moves(v)
    BY ResultMoves DEF Plain
  <1>2. Moves(Null)
    BY <1>1 DEF Moves
  <1> QED BY <1>2, CalmKind DEF Plain

LEMMA RegisteringKind == ASSUME Safe, Registering PROVE Kind
  <1>1. PICK n, C, v, push : Registers(n, C, v, push)
    BY DEF Registering
  <1>2. /\ n \in Nat /\ Operands(n) /\ sp - n \in 0 .. StackSize - 1 /\ Links(C)
        /\ UNCHANGED <<globals, frames>>
        /\ (Tame /\ \A k \in 1 .. n : Top(k) # Wild) => Tame'
    BY <1>1 DEF Registers, Allots
  <1>3. /\ v \in Pointers /\ v.at \in C /\ push \in BOOLEAN /\ GcAdd(C, v, push)
        /\ Result(n, v) \/ (stack' = Cut(stack, sp - n) /\ sp' = sp - n)
    BY <1>1 DEF Registers
  <1>4. Tame'
    BY <1>2, OperandWords DEF Safe, Sound
  <1>5. Moves(v)
    BY <1>2, <1>3, ResultMoves, CutMoves, SameGlobals
  <1>6. Fresher(C, v)
    BY <1>2, <1>3, <1>4, <1>5 DEF Fresher
  <1> QED BY <1>6 DEF Kind

LEMMA RewritingKind == ASSUME Safe, Rewriting PROVE Kind
  <1>1. PICK n, C, v : Rewrites(n, C, v)
    BY DEF Rewriting
  <1>2. /\ n \in Nat /\ Operands(n) /\ sp - n \in 0 .. StackSize - 1 /\ Links(C)
        /\ UNCHANGED <<globals, frames>>
        /\ (Tame /\ \A k \in 1 .. n : Top(k) # Wild) => Tame'
    BY <1>1 DEF Rewrites, Allots
  <1>3. /\ Result(n, v) /\ UNCHANGED <<list, ctl>>
        /\ \/ v = Prim
           \/ \E k \in 1 .. n : v = Top(k)
           \/ ~IsPtr(v) /\ \E a \in Addr : \E j \in DOMAIN elems[a] : v = elems[a][j]
    BY <1>1 DEF Rewrites
  <1>4. Tame /\ elems \in Tables
    BY TablesNow DEF Safe, Sound
  <1>5. v \in Words \cup {Null, Prim}
    <2>1. CASE \E k \in 1 .. n : v = Top(k)
      BY <1>2, <2>1, OperandWords
    <2>2. CASE ~IsPtr(v) /\ \E a \in Addr : \E j \in DOMAIN elems[a] : v = elems[a][j]
      <3>1. v \in Object /\ v # Wild
        BY <1>4, <2>2 DEF Tame, Tables
      <3> QED BY <2>2, <3>1, ObjectAt, AddrAssumption DEF Object, Pointers, IsPtr
    <2> QED BY <1>3, <2>1, <2>2
  <1>6. Moves(v)
    BY <1>2, <1>3, ResultMoves
  <1>7. Moves(Null)
    BY <1>5, <1>6 DEF Moves
  <1>8. Tame'
    BY <1>2, <1>4, OperandWords
  <1>9. Gentle(C)
    BY <1>2, <1>3, <1>7, <1>8 DEF Gentle
  <1> QED BY <1>9 DEF Kind

\* A handler that allocated, or went on, has not faulted.
LEMMA WentOn == ASSUME Safe, (\E a \in Fresh : a \in live') \/ pc' # "fault"
                PROVE  ~Fault
  BY FreshApart DEF Safe, Fault, store

LEMMA PushKind == ASSUME Safe, Push PROVE Kind
  <1>1. Running /\ Room
    BY DEF Push, Const, Immediate, GetGlobal, GetLocal
  <1>2. 0 \in Nat /\ Operands(0) /\ sp - 0 \in 0 .. StackSize - 1 /\ sp \in Nat
    BY <1>1, Bases DEF Operands, Room
  <1>3. \A v \in Words \cup {Null, Prim} : Plain(0, v) => Kind
    BY <1>2, PlainKind
  <1>4. CASE Const
    BY <1>3, <1>4 DEF Const, Words
  <1>5. CASE Immediate
    BY <1>3, <1>5 DEF Immediate
  <1>6. CASE GetGlobal
    BY <1>3, <1>6 DEF GetGlobal, Words, Range
  <1>7. CASE GetLocal
    <2>1. \A i \in Frame.base .. Frame.floor - 1 : stack[i] \in Words
      BY SlotWord, Bases
    <2> QED BY <1>3, <1>7, <2>1 DEF GetLocal
  <1> QED BY <1>4, <1>5, <1>6, <1>7 DEF Push

LEMMA StoreKind == ASSUME Safe, Store PROVE Kind
  <1>1. UNCHANGED <<store, list, ctl>>
    BY DEF Store, Pop, SetGlobal, SetLocal
  <1> QED BY <1>1, StoreMoves, CalmKind

\* The function of a frame is allocated as long as it runs.
LEMMA FlowKind == ASSUME Safe, Flow, ~VmFree PROVE Kind
  <1>1. ~FetchFault
    <2>1. Frame.fn \in Words
      <3>1. Len(frames) \in DOMAIN frames
        BY Bases
      <3> QED BY <3>1 DEF Frame, Words, Callees
    <2> QED BY <2>1, WordsLive DEF FetchFault
  <1>2. CASE CallFunction
    <2>1. PICK args \in 0 .. MaxLocals, locals \in 0 .. MaxLocals :
            /\ Operands(args + 1)
            /\ Is(Top(args + 1), "function")
            /\ "late_local" \in Features \/ locals <= args
            /\ IF Dead(Top(args + 1)) THEN Fault ELSE
               LET base == sp - args
               IN  /\ frames' = Append(frames, [fn |-> Top(args + 1), base |-> base,
                                                floor |-> base + locals])
                   /\ stack' = Cut(stack, base + locals) /\ sp' = base + locals
                   /\ UNCHANGED <<store, marked, list, globals, ctl>>
      BY <1>2 DEF CallFunction
    <2>2. /\ args \in Nat /\ locals \in Nat /\ args + 1 \in Nat /\ args + 1 \in 1 .. args + 1
          /\ locals <= args
      BY <2>1, SizeAssumption DEF Safe
    <2>3. ~Dead(Top(args + 1))
      BY <2>1, <2>2, OperandWords
    <2>4. /\ frames' = Append(frames, [fn |-> Top(args + 1), base |-> sp - args,
                                       floor |-> sp - args + locals])
          /\ stack' = Cut(stack, sp - args + locals) /\ sp' = sp - args + locals
          /\ UNCHANGED <<store, marked, list, globals, ctl>>
      BY <2>1, <2>3
    <2>5. Moves(Null)
      BY <2>1, <2>2, <2>4, CallMoves
    <2> QED BY <2>4, <2>5, CalmKind
  <1>3. CASE ReturnValue \/ ReturnNull
    <2>1. \E v \in Words \cup {Null} : Return(v)
      <3>1. 1 \in Nat /\ 1 \in 1 .. 1
        OBVIOUS
      <3>2. ReturnValue => Top(1) \in Words
        BY <3>1, OperandWords DEF ReturnValue
      <3> QED BY <1>3, <3>2 DEF ReturnValue, ReturnNull
    <2>2. Moves(Null)
      BY <2>1, ReturnMoves
    <2>3. UNCHANGED <<store, list, ctl>>
      BY <2>1 DEF Return
    <2> QED BY <2>2, <2>3, CalmKind
  <1> QED BY <1>1, <1>2, <1>3 DEF Flow

\* What New() and Slice() put on the list is new.
LEMMA NewWentOn == ASSUME Safe, NEW n, NEW k, New(n, k) PROVE ~Fault
  <1>1. \E a \in Fresh : a \in live'
    BY DEF New, Make
  <1> QED BY <1>1, WentOn

LEMMA NewKind ==
    ASSUME Safe, NEW n \in Nat \ {0}, Operands(n), NEW k \in {"string", "error"}, New(n, k)
    PROVE  Kind
  BY NewRegisters, RegisteringKind DEF Safe

\* The slot of the result of an instruction with operands.
LEMMA PlainOperands ==
    ASSUME Safe, NEW n \in Nat \ {0}, Operands(n), NEW v \in Words \cup {Null, Prim}, Plain(n, v)
    PROVE  Kind
  <1>1. n \in Nat /\ sp - n \in 0 .. StackSize - 1
    BY ResultSlot DEF Safe, Inv
  <1> QED BY <1>1, PlainKind

LEMMA OperateKind == ASSUME Safe, Operate PROVE Kind
  <1>1. /\ 1 \in Nat /\ 2 \in Nat /\ 1 \in Nat \ {0} /\ 2 \in Nat \ {0}
        /\ 1 \in 1 .. 1 /\ 1 \in 1 .. 2 /\ 2 \in 1 .. 2
    OBVIOUS
  <1>2. CASE BinaryPrim
    BY <1>1, <1>2, PlainOperands DEF BinaryPrim
  <1>3. CASE DivideByZero
    BY <1>1, <1>3, NewKind DEF DivideByZero
  <1>4. CASE CompareStrings
    <2>1. Operands(2) /\ Plain(2, Prim)
      BY <1>1, <1>4, OperandWords DEF CompareStrings
    <2> QED BY <1>1, <2>1, PlainOperands
  <1>5. CASE Concat
    <2>1. Operands(2) /\ New(2, "string")
      BY <1>1, <1>5, OperandWords DEF Concat
    <2> QED BY <1>1, <2>1, NewKind
  <1>6. CASE Bang
    BY <1>1, <1>6, PlainOperands DEF Bang
  <1>7. CASE Minus
    <2>1. Operands(1) /\ ~IsPtr(Top(1)) /\ Plain(1, Top(1))
      BY <1>7 DEF Minus, Safe
    <2>2. Top(1) \in Words
      BY <1>1, <2>1, OperandWords
    <2> QED BY <1>1, <2>1, <2>2, PlainOperands
  <1> QED BY <1>2, <1>3, <1>4, <1>5, <1>6, <1>7 DEF Operate

\* The element IndexGet pushes is a null or a primitive.
LEMMA IndexKind == ASSUME Safe, Index PROVE Kind
  <1>1. /\ 1 \in Nat /\ 2 \in Nat /\ 3 \in Nat /\ 2 \in Nat \ {0} /\ 3 \in Nat \ {0}
        /\ 1 \in 1 .. 2 /\ 2 \in 1 .. 2 /\ 1 \in 1 .. 3 /\ 2 \in 1 .. 3 /\ 3 \in 1 .. 3
    OBVIOUS
  <1>2. Inv /\ Own /\ Regs /\ "alias" \notin Features /\ elems \in Tables /\ Tame
    BY TablesNow DEF Safe, Inv, Sound
  <1>3. CASE IndexGet
    <2>1. Operands(2) /\ Is(Top(2), "array") /\ ~Dead(Top(2)) /\ Top(2) \in Object
      <3>1. Operands(2) /\ Is(Top(2), "array")
        BY <1>3 DEF IndexGet
      <3> QED BY <1>1, <1>2, <3>1, OperandWords, OperandsOK
    <2>2. PICK i \in DOMAIN elems[Top(2).at] :
            /\ "borrow" \in Features \/ ~IsPtr(elems[Top(2).at][i])
            /\ Plain(2, elems[Top(2).at][i])
      BY <1>3, <2>1 DEF IndexGet
    <2> DEFINE e == elems[Top(2).at][i]
    <2>3. Top(2).at \in Addr
      BY <1>2, <2>1, ArrayOperand
    <2>4. ~IsPtr(e) /\ e \in Object /\ e # Wild
      BY <1>2, <2>2, <2>3 DEF Safe, Tame, Tables
    <2> HIDE DEF e
    <2>5. e \in {Null, Prim}
      BY <2>4, AddrAssumption DEF Object, Pointers, IsPtr
    <2> QED BY <1>1, <2>1, <2>2, <2>5, PlainOperands DEF e
  <1>4. CASE IndexGetChar
    <2>1. Operands(2) /\ New(2, "string")
      BY <1>1, <1>4, OperandWords DEF IndexGetChar
    <2> QED BY <1>1, <2>1, NewKind
  <1>5. CASE IndexGetError
    BY <1>1, <1>5, NewKind DEF IndexGetError
  <1>6. CASE IndexSetError
    BY <1>1, <1>6, NewKind DEF IndexSetError
  <1>7. CASE SliceArray \/ SliceString \/ SliceError
    <2>1. Operands(3)
      BY <1>7 DEF SliceArray, SliceString, SliceError
    <2>2. ~Dead(Top(3))
      BY <1>1, <2>1, OperandWords
    <2>3. \E k, es : Slice(k, es)
      BY <1>7, <2>2 DEF SliceArray, SliceString, SliceError
    <2>4. \E a \in Fresh : a \in live'
      BY <2>3 DEF Slice, Make
    <2> QED BY <1>2, <1>7, <2>4, WentOn, SlicesRegister, RegisteringKind
  <1>8. CASE Array
    <2>1. PICK n \in 0 .. MaxElems :
            /\ Operands(n)
            /\ IF DeadTree(Args(n)) THEN Fault
               ELSE \E m \in Copies(Args(n)) : \E a \in Fresh \ Range(m) :
                    /\ Make(m, a, [i \in 1 .. n |-> Copy(m, i, Args(n)[i])])
                    /\ Result(n, Obj("array", a))
                    /\ UNCHANGED <<globals, frames>>
                    /\ GcAdd(Range(m) \cup {a}, Obj("array", a), FALSE)
      BY <1>8 DEF Array
    <2>2. n \in Nat /\ ~DeadTree(Args(n))
      <3>1. n \in Nat
        BY SizeAssumption
      <3> QED BY <2>1, <3>1, OperandWords
    <2>3. \E a \in Fresh : a \in live'
      BY <2>1, <2>2 DEF Make
    <2> QED BY <1>2, <1>8, <2>3, WentOn, ArrayRegisters, RegisteringKind
  <1>9. CASE IndexSet
    <2>1. Operands(3)
      BY <1>9 DEF IndexSet
    <2>2. ~Dead(Top(3)) /\ ~DeadTree(<<Top(1)>>)
      BY <1>1, <2>1, OperandWords
    <2>3. UNCHANGED ctl /\ pc = "run"
      BY <1>9, <2>2 DEF IndexSet, Operands, Running
    <2>4. ~Fault
      BY <2>3, WentOn DEF ctl
    <2> QED BY <1>2, <1>9, <2>4, IndexSetRewrites, RewritingKind
  <1> QED BY <1>3, <1>4, <1>5, <1>6, <1>7, <1>8, <1>9 DEF Index

LEMMA CallKind == ASSUME Safe, Call PROVE Kind
  <1>1. /\ 1 \in Nat /\ 2 \in Nat /\ 3 \in Nat
        /\ 1 \in 1 .. 2 /\ 1 \in 1 .. 3 /\ 2 \in 1 .. 3 /\ 1 + 1 = 2 /\ 2 + 1 = 3
    OBVIOUS
  <1>2. Inv /\ Own /\ Regs /\ elems \in Tables
    BY TablesNow DEF Safe, Inv
  <1>3. CASE BuiltinPlain
    <2>1. PICK n \in 0 .. MaxLocals :
            /\ Operands(n + 1)
            /\ \/ DeadTree(Args(n)) /\ Fault
               \/ \E v \in {Prim, Null} : Plain(n + 1, v)
      BY <1>3 DEF BuiltinPlain, Builtin
    <2>2. n \in Nat /\ n + 1 \in Nat /\ n + 1 \in Nat \ {0} /\ sp \in Nat /\ Frame.floor \in Nat
      BY SizeAssumption, Bases
    <2>3. Operands(n)
      BY <2>1, <2>2 DEF Operands
    <2>4. ~DeadTree(Args(n))
      BY <2>2, <2>3, OperandWords
    <2> QED BY <2>1, <2>2, <2>4, PlainOperands
  <1>4. CASE BuiltinNew
    <2>1. PICK n \in 0 .. MaxLocals, k \in {"string", "error"} :
            Operands(n + 1) /\ New(n + 1, k)
      BY <1>4 DEF BuiltinNew, Builtin
    <2>2. n + 1 \in Nat \ {0}
      BY SizeAssumption
    <2> QED BY <2>1, <2>2, NewKind
  <1>5. CASE StrSplit
    <2>1. Operands(3)
      BY <1>1, <1>5 DEF StrSplit, Builtin
    <2>2. ~Dead(Top(1)) /\ ~Dead(Top(2))
      BY <1>1, <2>1, OperandWords
    <2>3. \E n \in 1 .. MaxElems : \E m \in Injection(1 .. n, Fresh) :
            \E a \in Fresh \ Range(m) : live' = live \cup Range(m) \cup {a}
      BY <1>5, <2>2, Zenon DEF StrSplit
    <2>4. \E a \in Fresh : a \in live'
      BY <2>3
    <2> QED BY <1>2, <1>5, <2>4, WentOn, SplitRegisters, RegisteringKind
  <1>6. CASE ArrayPush
    <2>1. Operands(3)
      BY <1>1, <1>6 DEF ArrayPush, Builtin
    <2>2. ~Dead(Top(2)) /\ ~DeadTree(<<Top(1)>>)
      BY <1>1, <2>1, OperandWords
    <2>3. UNCHANGED ctl /\ pc = "run"
      BY <1>6, <2>1, <2>2 DEF ArrayPush, Operands, Running
    <2>4. ~Fault
      BY <2>3, WentOn DEF ctl
    <2> QED BY <1>2, <1>6, <2>4, ArrayPushRewrites, RewritingKind
  <1>7. CASE ArrayPop
    <2>1. Operands(2) /\ Is(Top(1), "array")
      BY <1>1, <1>7 DEF ArrayPop, Builtin
    <2>2. ~Dead(Top(1)) /\ Top(1) \in Object
      BY <1>1, <1>2, <2>1, OperandWords, OperandsOK
    <2> DEFINE t == Top(1).at
               es == elems[t]
               v  == es[Len(es)]
    <2>3. t \in Addr /\ t \in live /\ es \in Seq(Object)
      BY <1>2, <2>1, <2>2, ArrayOperand
    <2>4. /\ es # << >>
          /\ IF DeadTree(<<v>>) THEN Fault
             ELSE \E m \in Copies(<<v>>) :
                  /\ MakeCopies(m)
                  /\ IF IsPtr(v) THEN GcAdd(Range(m), Copy(m, 1, v), FALSE)
                     ELSE UNCHANGED <<marked, list, ctl>>
      BY <1>7, <2>2 DEF ArrayPop
    <2>5. Len(es) \in DOMAIN es /\ v \in Object /\ v # Wild
      <3>1. Len(es) \in DOMAIN es
        <4> HIDE DEF es
        <4> QED BY <2>3, <2>4
      <3> QED BY <2>3, <3>1 DEF Safe, Sound, Tame
    <2>6. IsPtr(v) => v.at \in live
      <3>1. IsPtr(v) => v.at \in Ats(es)
        <4> HIDE DEF es
        <4> QED BY <2>3, <2>5, AtsSeq
      <3> QED BY <1>2, <2>3, <3>1 DEF Own
    <2> HIDE DEF v
    <2>7. ~DeadTree(<<v>>)
      <3>1. <<v>> \in Seq(Object) /\ DOMAIN <<v>> = {1} /\ <<v>>[1] = v
        BY <2>5
      <3>2. ~Dead(v)
        BY <2>5, <2>6, ObjectAt DEF Dead, Object, Pointers, Null, Prim, Wild
      <3>3. Tree(v) \subseteq live
        <4>1. ClosedIn(elems, live)
          BY <1>2 DEF Own, ClosedIn
        <4>2. CASE IsPtr(v)
          <5>1. v.at \in live /\ v.at \in Addr
            BY <2>5, <2>6, <4>2, ObjectAt
          <5> QED BY <1>2, <4>1, <4>2, <5>1, TreeWithin, TreesNow
        <4>3. CASE ~IsPtr(v)
          BY <4>3, TreesNow
        <4> QED BY <4>2, <4>3
      <3> QED BY <3>1, <3>2, <3>3 DEF DeadTree, Trees
    <2>8. PICK m \in Copies(<<v>>) :
                  /\ MakeCopies(m)
                  /\ IF IsPtr(v) THEN GcAdd(Range(m), Copy(m, 1, v), FALSE)
                     ELSE UNCHANGED <<marked, list, ctl>>
      BY <2>4, <2>7
    <2>9. ~Fault
      <3>1. CASE IsPtr(v)
        <4>1. Copy(m, 1, v).at \in Range(m) /\ <<v>> \in Seq(Object)
          BY <1>2, <2>5, <3>1, InvTypes, OneCopy
        <4>2. Range(m) \subseteq Fresh
          BY <1>2, <4>1, InvTypes, CopiesOK
        <4> QED BY <2>8, <4>1, <4>2, WentOn DEF MakeCopies
      <3>2. CASE ~IsPtr(v)
        BY <2>1, <2>8, <3>2, WentOn DEF ctl, Operands, Running
      <3> QED BY <3>1, <3>2
    <2> QED BY <1>2, <1>7, <2>9, ArrayPopSteps, RegisteringKind, RewritingKind
  <1> QED BY <1>3, <1>4, <1>5, <1>6, <1>7 DEF Call

\* One of the instructions, the end of the program left out.
Instruction == Push \/ Store \/ (Flow /\ ~VmFree) \/ Operate \/ Index \/ Call

LEMMA InstructionKind == ASSUME Safe, Instruction PROVE Kind /\ pc = "run"
  <1>1. Kind
    BY PushKind, StoreKind, FlowKind, OperateKind, IndexKind, CallKind DEF Instruction
  <1>2. Effect
    BY PushEffect, StoreEffect, FlowEffect, OperateEffect, IndexEffect, CallEffect
    DEF Instruction, Safe
  <1> QED BY <1>1, <1>2 DEF Effect

----------------------------------------------------------------------------
(***************************************************************************)
(* What instructions reach                                                 *)
(***************************************************************************)

\* gc() visits all the words but the object being registered, after any instruction.
LEMMA Rooted == ASSUME Regs', Windows', Dense',
                       NEW w \in Slots' \cup Constants \cup Range(globals)' \cup Callees', w # Null
                PROVE  w \in Roots(stack', sp', globals')
  <1>1. /\ sp' \in Nat /\ globals' \in [0 .. GlobalsSize - 1 -> Object] /\ GlobalsSize \in Nat
        /\ frames' \in Seq([fn : Pointers \cup {Null}, base : Nat, floor : Nat])
    BY SizeAssumption DEF Regs
  <1>2. CASE w \in Slots' \cup Constants
    BY <1>2 DEF Slots, Roots
  <1>3. CASE w \in Range(globals)'
    <2>1. PICK i \in DOMAIN globals' : w = globals'[i]
      BY <1>3 DEF Range
    <2>2. \A k \in 0 .. i : globals'[k] # Null
      <3> SUFFICES ASSUME NEW k \in 0 .. i PROVE globals'[k] # Null
        OBVIOUS
      <3>1. k \in DOMAIN globals' /\ (k = i \/ k < i)
        BY <1>1, <2>1
      <3> QED BY <2>1, <3>1 DEF Dense
    <2> QED BY <2>1, <2>2 DEF Roots, ScannedGlobals
  <1>4. CASE w \in Callees'
    <2>1. PICK i \in DOMAIN frames' : w = frames'[i].fn
      BY <1>4 DEF Callees
    <2>2. PICK n \in Nat : n = Len(frames')
      BY <1>1
    <2>3. /\ DOMAIN frames' = 1 .. n
          /\ \A j \in 1 .. n : frames'[j].base \in Nat /\ frames'[j].floor \in Nat
      <3> DEFINE R == [fn : Pointers \cup {Null}, base : Nat, floor : Nat]
      <3>1. frames' \in Seq(R)
        BY <1>1
      <3>2. \A r \in R : r.base \in Nat /\ r.floor \in Nat
        OBVIOUS
      <3> HIDE DEF R
      <3>3. DOMAIN frames' = 1 .. n /\ \A j \in 1 .. n : frames'[j] \in R
        BY <2>2, <3>1
      <3> QED BY <3>2, <3>3
    <2>4. \A j \in 1 .. n : /\ frames'[j].base <= frames'[j].floor
                            /\ j > 1 => frames'[j].base > 0
      BY <2>3 DEF Regs, FramesOK
    <2>5. frames'[n].floor <= sp' /\ n \in 1 .. n
      BY <2>1, <2>2, <2>3 DEF Windows, Frame
    <2>6. i \in 2 .. n /\ i \in 1 .. n /\ w = stack'[frames'[i].base - 1]
      BY <2>1, <2>2, <2>3 DEF Windows
    <2>7. frames'[i].floor <= sp'
      <3>1. CASE i = n
        BY <2>5, <3>1
      <3>2. CASE i < n
        <4>1. frames'[i].floor < frames'[n].base
          BY <2>3, <2>5, <2>6, <3>2 DEF Windows
        <4>2. frames'[n].base <= frames'[n].floor
          BY <2>4, <2>5
        <4>3. /\ frames'[i].floor \in Nat /\ frames'[n].base \in Nat
              /\ frames'[n].floor \in Nat /\ sp' \in Nat
          BY <1>1, <2>3, <2>5, <2>6
        <4> QED BY <2>5, <4>1, <4>2, <4>3
      <3> QED BY <2>6, <3>1, <3>2
    <2>8. frames'[i].base - 1 \in 0 .. sp' - 1
      <3>1. frames'[i].base > 0 /\ frames'[i].base <= frames'[i].floor
        BY <2>4, <2>6
      <3>2. PICK b \in Nat : b = frames'[i].base
        BY <2>3, <2>6
      <3>3. PICK f \in Nat : f = frames'[i].floor
        BY <2>3, <2>6
      <3>4. b > 0 /\ b <= f /\ f <= sp' /\ sp' \in Nat
        BY <1>1, <2>7, <3>1, <3>2, <3>3
      <3>5. b - 1 \in Nat /\ b - 1 <= sp' - 1
        BY <3>2, <3>3, <3>4
      <3> QED BY <3>2, <3>4, <3>5
    <2> QED BY <2>6, <2>8 DEF Roots
  <1> QED BY <1>2, <1>3, <1>4

\* What gc_mark() follows after an instruction that registers v is allocated.
LEMMA RootsLive ==
    ASSUME Safe, NEW C, NEW v, Links(C), Moves(v), v \in Pointers, v.at \in C,
           NEW r \in Followed(Roots(stack', sp', globals'))
    PROVE  r.at \in live'
  <1>1. r \in Slots' \cup Constants \cup Range(globals)'
    BY DEF Followed, Roots, ScannedGlobals, Slots, Range
  <1>2. r \in Words \cup {Null, Prim, v} /\ r # Null /\ r # Prim
    BY <1>1 DEF Moves, Words, Followed, Null, Prim
  <1>3. r \in Words => r.at \in live
    <2>1. ASSUME r \in Words PROVE r.at \in live
      <3>1. r \in Object /\ r # Wild /\ (IsPtr(r) => r.at \in live)
        BY <2>1, WordsLive
      <3>2. IsPtr(r)
        BY <1>2, <3>1, AddrAssumption DEF Object, Pointers, IsPtr
      <3> QED BY <3>1, <3>2
    <2> QED BY <2>1
  <1> QED BY <1>2, <1>3 DEF Links

LEMMA GentleSound == ASSUME Safe, pc = "run", NEW C, Gentle(C) PROVE Sound'
  <1>1. /\ pc' = "run" /\ pending' = pending /\ heap' = heap
        /\ Tame' /\ Windows' /\ Dense' /\ live \subseteq live'
    BY DEF Gentle, Moves, Links, list, ctl
  <1>2. Words \subseteq Known /\ Permanent
    BY DEF Safe, Sound
  <1>3. Words' \subseteq Words \cup {Null, Prim}
    BY <1>1 DEF Gentle, Moves, Words, Constants
  <1>4. Words' \subseteq Known'
    BY <1>1, <1>2, <1>3 DEF Known, Constants
  <1>5. Permanent'
    BY <1>1, <1>2 DEF Permanent
  <1>6. Ahead'
    BY <1>1 DEF Ahead
  <1> QED BY <1>1, <1>4, <1>5, <1>6 DEF Sound

LEMMA FresherSound == ASSUME Safe, pc = "run", Inv', NEW C, NEW v, Fresher(C, v) PROVE Sound'
  <1>1. /\ Tame' /\ Windows' /\ Dense' /\ live \subseteq live' /\ Regs' /\ Moves(v)
        /\ v \in Pointers /\ v.at \in C /\ C \subseteq Fresh /\ Links(C)
    BY DEF Fresher, Moves, Links, Inv
  <1>2. PICK push \in BOOLEAN : GcAdd(C, v, push)
    BY DEF Fresher
  <1>3. Words \subseteq Known /\ Permanent /\ Inv
    BY DEF Safe, Sound
  <1>4. pending = Idle
    BY <1>3 DEF Inv, Registry, CtlOK
  <1>5. Slots' \cup Constants \cup Range(globals)' \cup Callees' \subseteq Words \cup {Null, Prim, v}
    BY <1>1 DEF Moves, Words
  <1>6. Words' = Slots' \cup Constants \cup Range(globals)' \cup {pending'.obj} \cup Callees'
    BY DEF Words, Constants
  <1>7. Words \subseteq {Null, Prim} \cup Constants \cup Range(heap)
    BY <1>3, <1>4 DEF Known, Idle
  <1>8. Permanent'
    BY <1>1, <1>3 DEF Permanent
  <1>9. CASE ~Due /\ AppendHeap(v) /\ UNCHANGED ctl
    <2>1. heap' = Append(heap, v) /\ pc' = "run" /\ pending'.obj = Null
      BY <1>4, <1>9 DEF AppendHeap, ctl, Idle
    <2>2. Range(heap) \cup {v} \subseteq Range(heap')
      BY <1>3, <2>1, Listed DEF Range
    <2>3. Range(heap') \subseteq Known' /\ Constants \subseteq Known' /\ {Null, Prim} \subseteq Known'
      BY DEF Known, Constants, Range
    <2>4. Words' \subseteq Known'
      BY <1>5, <1>6, <1>7, <2>1, <2>2, <2>3
    <2>5. Ahead'
      BY <2>1 DEF Ahead
    <2> QED BY <1>1, <1>8, <2>1, <2>4, <2>5 DEF Sound
  <1> DEFINE follow == Followed(Roots(stack', sp', globals'))
  <1>10. CASE /\ pc' = "sweep" /\ at' = Len(heap)
              /\ marked' = [a \in Addr |-> a \in {r.at : r \in follow} \/ Unmarked(C)[a]]
              /\ pending' = [obj |-> v, push |-> push] /\ UNCHANGED list
    <2>1. heap' = heap /\ pc' = "sweep" /\ pending'.obj = v /\ at' = Len(heap)
      BY <1>10 DEF list
    <2>2. Words' \subseteq Known'
      <3>1. Known' = {Null, Prim} \cup Constants \cup Range(heap) \cup {v}
        BY <2>1 DEF Known, Constants
      <3> QED BY <1>5, <1>6, <1>7, <2>1, <3>1
    <2>3. ASSUME NEW i \in 1 .. at', heap'[i] \in Words', heap'[i].type # "error"
          PROVE  marked'[heap'[i].at]
      <3> DEFINE w == heap[i]
      <3>1. /\ w \in Words' /\ w.type # "error" /\ i \in 1 .. Len(heap)
            /\ w \in Pointers /\ w.at \in Addr /\ w.at \in live
        BY <1>3, <2>1, <2>3, Listed
      <3> HIDE DEF w
      <3>2. w # v
        BY <1>1, <1>3, <3>1, FreshApart
      <3>3. w # Null
        BY <3>1, PlainOK
      <3>4. w \in Roots(stack', sp', globals')
        BY <1>1, <1>6, <2>1, <3>1, <3>2, <3>3, Rooted
      <3>5. w \in follow
        BY <3>1, <3>4 DEF Followed, Pointers
      <3>6. marked'[w.at]
        BY <1>10, <3>1, <3>5
      <3> QED BY <2>1, <3>6 DEF w
    <2>4. Ahead'
      BY <2>3 DEF Ahead
    <2> QED BY <1>1, <1>8, <2>1, <2>2, <2>4 DEF Sound
  <1>11. CASE \E r \in follow : r.at \notin live'
    BY <1>1, <1>11, RootsLive
  <1> QED BY <1>2, <1>9, <1>10, <1>11 DEF GcAdd

LEMMA InstructionSound == ASSUME Safe, Inv', Instruction PROVE Sound'
  BY InstructionKind, GentleSound, FresherSound DEF Kind

----------------------------------------------------------------------------
(***************************************************************************)
(* The end of the program, and the collector                               *)
(***************************************************************************)

\* Registered objects are allocated with all they own, and share none of it.
LEMMA EntryTrees ==
    ASSUME Inv, Own
    PROVE  /\ \A i \in 1 .. Len(heap) :
                /\ ~Dead(heap[i]) /\ IsPtr(heap[i]) /\ Tree(heap[i]) \subseteq live
                /\ Tree(heap[i]) = ReachIn(elems, heap[i].at)
                /\ Tree(heap[i]) \subseteq {heap[i].at} \cup Elements
           /\ \A i, j \in 1 .. Len(heap) :
                i # j => Tree(heap[i]) \cap Tree(heap[j]) = {}
  <1>1. elems \in Tables /\ ClosedIn(elems, live) /\ OneSlot(elems) /\ Elements = Elts(elems)
    BY TablesNow, TreesNow DEF Own, ClosedIn
  <1>2. ASSUME NEW i \in 1 .. Len(heap)
        PROVE  /\ ~Dead(heap[i]) /\ IsPtr(heap[i]) /\ Tree(heap[i]) \subseteq live
               /\ Tree(heap[i]) = ReachIn(elems, heap[i].at)
               /\ Tree(heap[i]) \subseteq {heap[i].at} \cup Elements
    <2> DEFINE v == heap[i]
    <2>1. v \in Pointers /\ v.at \in live /\ v.at \in Addr
      BY Listed
    <2> HIDE DEF v
    <2>2. v.type # "wild" /\ IsPtr(v)
      BY <2>1, AddrAssumption DEF Pointers, IsPtr
    <2>3. Tree(v) = ReachIn(elems, v.at)
      BY <2>2, TreesNow
    <2>4. ReachIn(elems, v.at) \subseteq live
      BY <1>1, <2>1, TreeWithin
    <2>5. ReachIn(elems, v.at) \subseteq {v.at} \cup Elements
      BY <1>1, <2>1, BelowLeast DEF ReachIn
    <2> QED BY <2>1, <2>2, <2>3, <2>4, <2>5 DEF Dead, v
  <1>3. ASSUME NEW i \in 1 .. Len(heap), NEW j \in 1 .. Len(heap), i # j
        PROVE  Tree(heap[i]) \cap Tree(heap[j]) = {}
    <2>1. /\ heap[i].at \in Addr \ Elts(elems) /\ heap[j].at \in Addr \ Elts(elems)
          /\ heap[i].at # heap[j].at
      BY <1>1, <1>3, Listed
    <2>2. ReachIn(elems, heap[i].at) \cap ReachIn(elems, heap[j].at) = {}
      BY <1>1, <2>1, DisjointTrees
    <2> QED BY <1>2, <2>2
  <1> QED BY <1>2, <1>3

\* vm_free() frees nothing twice, and nothing that is not allocated.
LEMMA FreesAll == ASSUME Inv, Own, VmFree
                  PROVE  pc = "run" /\ pc' = "freed" /\ FreeTree(Trees(heap)) /\ heap' = << >>
  <1>1. /\ \A i \in DOMAIN heap : ~Dead(heap[i]) /\ Tree(heap[i]) \subseteq live
        /\ \A i, j \in DOMAIN heap : i # j => Tree(heap[i]) \cap Tree(heap[j]) = {}
    BY EntryTrees, Listed
  <1>2. ~DeadTree(heap)
    BY <1>1 DEF DeadTree, Trees
  <1> QED BY <1>1, <1>2 DEF VmFree, Running

LEMMA FreeSound == ASSUME Safe, VmFree PROVE Sound'
  <1>1. pc' = "freed"
    BY FreesAll DEF Safe
  <1> QED BY <1>1 DEF Sound

\* Words that are different from an entry share nothing with it.
LEMMA WordApart == ASSUME Safe, NEW w \in Words, NEW i \in 1 .. Len(heap), w # heap[i]
                   PROVE  Tree(w) \cap Tree(heap[i]) = {}
  <1>1. Inv /\ Own /\ elems \in Tables /\ OneSlot(elems) /\ Elements = Elts(elems)
    BY TablesNow, TreesNow DEF Safe, Own
  <1>2. CASE ~IsPtr(w)
    BY <1>2, TreesNow
  <1>3. CASE IsPtr(w)
    <2> DEFINE a == heap[i].at
    <2>1. a \in Addr /\ a \in HeapAddr /\ a \notin Elements /\ a \in Ats(heap)
      BY <1>1, Listed
    <2>2. w.at \in Addr /\ w.at \notin Elements /\ w \in Constants \cup Range(heap) \cup {pending.obj}
      BY <1>3, WordsLive
    <2>3. Tree(w) = ReachIn(elems, w.at) /\ Tree(heap[i]) = ReachIn(elems, a)
      BY <1>1, <1>3, EntryTrees, TreesNow
    <2> HIDE DEF a
    <2>4. w.at # a
      <3>1. CASE w \in Constants
        <4>1. w.at \in Strings \cup Procs
          BY <3>1 DEF Constants, Obj
        <4> QED BY <2>1, <4>1, AddrAssumption
      <3>2. CASE w \in Range(heap)
        <4>1. PICK j \in DOMAIN heap : w = heap[j]
          BY <3>2 DEF Range
        <4>2. j \in 1 .. Len(heap) /\ j # i
          BY <1>1, <4>1, Listed
        <4> QED BY <1>1, <4>1, <4>2, Listed DEF a
      <3>3. CASE w = pending.obj
        BY <1>1, <1>3, <2>1, <3>3 DEF Inv, Registry, HeapOwned
      <3> QED BY <2>2, <3>1, <3>2, <3>3
    <2>5. ReachIn(elems, w.at) \cap ReachIn(elems, a) = {}
      BY <1>1, <2>1, <2>2, <2>4, DisjointTrees
    <2> QED BY <2>3, <2>5
  <1> QED BY <1>2, <1>3

\* What the collector leaves alone while it sweeps.
LEMMA SweepFacts == ASSUME Safe, Sweeping
                    PROVE  /\ at \in 1 .. Len(heap) /\ at \in Nat /\ Len(heap) \in Nat
                           /\ pc = "sweep" /\ Inv /\ Own /\ Ahead /\ Words \subseteq Known
                           /\ Windows /\ Dense /\ Tame /\ Permanent
  <1>1. pc = "sweep" /\ at > 0
    BY DEF Sweeping
  <1>2. at \in Nat /\ at <= Len(heap) /\ Len(heap) \in Nat
    BY <1>1, Listed DEF Safe, Inv, Registry, CtlOK
  <1> QED BY <1>1, <1>2 DEF Safe, Sound

LEMMA SameWords == ASSUME UNCHANGED <<regs, pending>>
                   PROVE  /\ Words' = Words
                          /\ Windows => Windows'
                          /\ Dense => Dense'
  BY DEF regs, Words, Slots, Callees, Constants, Windows, Frame, Dense

\* The sweep moves on without freeing anything.
LEMMA SweepOnSound ==
    ASSUME Safe, Sweeping, UNCHANGED <<store, list, regs, pc, pending>>, at' = at - 1,
           \A i \in 1 .. at - 1 : marked[heap[i].at] => marked'[heap[i].at]
    PROVE  Sound'
  <1>1. /\ pc' = "sweep" /\ heap' = heap /\ live' = live /\ elems' = elems
        /\ pending' = pending /\ UNCHANGED <<regs, pending>>
    BY SweepFacts DEF store, list
  <1>2. Words' = Words /\ Windows' /\ Dense'
    BY <1>1, SameWords, SweepFacts
  <1>3. Words' \subseteq Known'
    BY <1>1, <1>2, SweepFacts DEF Known, Constants
  <1>4. Tame' /\ Permanent'
    BY <1>1, SweepFacts DEF Tame, Permanent
  <1>5. Ahead'
    <2>1. \A i \in 1 .. at - 1 : i \in 1 .. at
      BY SweepFacts
    <2> QED BY <1>1, <1>2, <2>1, SweepFacts DEF Ahead
  <1> QED BY <1>1, <1>2, <1>3, <1>4, <1>5 DEF Sound

LEMMA SkipSound == ASSUME Safe, SkipError PROVE Sound'
  BY SweepOnSound DEF SkipError

LEMMA UnmarkSound == ASSUME Safe, Unmark PROVE Sound'
  <1>1. /\ Sweeping /\ marked' = [marked EXCEPT ![Entry.at] = FALSE] /\ at' = at - 1
        /\ UNCHANGED <<store, list, regs, pc, pending>>
    BY DEF Unmark
  <1>2. marked \in [Addr -> BOOLEAN]
    BY DEF Safe, Inv, Registry
  <1>3. ASSUME NEW i \in 1 .. at - 1, marked[heap[i].at] PROVE marked'[heap[i].at]
    <2>1. i \in 1 .. Len(heap) /\ at \in 1 .. Len(heap) /\ i # at
      BY <1>1, SweepFacts
    <2>2. heap[i].at # Entry.at /\ heap[i].at \in Addr
      BY <2>1, Listed DEF Safe, Entry
    <2> QED BY <1>1, <1>2, <1>3, <2>2
  <1> QED BY <1>1, <1>3, SweepOnSound

\* The entry gc_sweep() examines is allocated with all it owns.
LEMMA NoSweepFault == ASSUME Inv, Own PROVE ~SweepFault
  <1>1. SUFFICES ASSUME SweepFault PROVE FALSE
    OBVIOUS
  <1>2. at \in 1 .. Len(heap)
    <2>1. pc = "sweep" /\ at > 0
      BY <1>1 DEF SweepFault, Sweeping
    <2> QED BY <2>1, Listed DEF Inv, Registry, CtlOK
  <1>3. ~Dead(Entry) /\ Tree(Entry) \subseteq live
    BY <1>2, EntryTrees DEF Entry
  <1> DEFINE e == Entry
  <1> HIDE DEF e
  <1>4. DOMAIN <<e>> = {1} /\ <<e>>[1] = e
    OBVIOUS
  <1>5. ~DeadTree(<<Entry>>)
    BY <1>3, <1>4 DEF DeadTree, Trees, e
  <1> QED BY <1>1, <1>3, <1>5 DEF SweepFault

\* What SwapRemove() keeps, and where.
LEMMA SwapKeeps == ASSUME NEW h \in Seq(Pointers), NEW i \in 1 .. Len(h)
                   PROVE  /\ \A j \in 1 .. Len(h) : j # i => h[j] \in Range(SwapRemove(h, i))
                          /\ \A j \in 1 .. i - 1 : SwapRemove(h, i)[j] = h[j]
  <1> DEFINE n == Len(h)
             g == SwapRemove(h, i)
  <1>1. /\ n \in Nat /\ DOMAIN g = 1 .. n - 1
        /\ \A j \in 1 .. n - 1 : g[j] = IF j = i THEN h[n] ELSE h[j]
    BY DEF SwapRemove
  <1> HIDE DEF n, g
  <1>2. i \in 1 .. n
    BY DEF n
  <1>3. ASSUME NEW j \in 1 .. n, j # i PROVE \E k \in DOMAIN g : g[k] = h[j]
    <2>1. CASE j = n
      <3>1. i \in 1 .. n - 1
        BY <1>1, <1>2, <1>3, <2>1
      <3> QED BY <1>1, <2>1, <3>1
    <2>2. CASE j # n
      <3>1. j \in 1 .. n - 1
        BY <1>1, <1>3, <2>2
      <3> QED BY <1>1, <1>3, <3>1
    <2> QED BY <2>1, <2>2
  <1>4. \A j \in 1 .. i - 1 : g[j] = h[j]
    BY <1>1, <1>2
  <1> QED BY <1>3, <1>4 DEF n, g, Range

\* The entry the sweep frees is out of the program's reach.
LEMMA ReclaimedUnused == ASSUME Safe, Reclaim
                         PROVE  /\ Sweeping /\ Entry \notin Words
                                /\ Tree(Entry) \cap InUse = {}
  <1>1. Sweeping /\ Entry.type # "error" /\ ~marked[Entry.at]
    BY DEF Reclaim
  <1>2. at \in 1 .. at /\ at \in 1 .. Len(heap)
    BY <1>1, SweepFacts
  <1>3. Entry \notin Words
    BY <1>1, <1>2, SweepFacts DEF Ahead, Entry
  <1>4. \A w \in Words : Tree(w) \cap Tree(Entry) = {}
    BY <1>2, <1>3, WordApart DEF Entry
  <1>5. InUse = UNION {Tree(v) : v \in Words}
    BY DEF InUse, Words, Slots, Callees
  <1> QED BY <1>1, <1>3, <1>4, <1>5

LEMMA ReclaimSound == ASSUME Safe, Reclaim PROVE Sound'
  <1> DEFINE T == Tree(Entry)
  <1>1. /\ Sweeping /\ FreeTree(T) /\ heap' = SwapRemove(heap, at) /\ at' = at - 1
        /\ UNCHANGED <<regs, pending>> /\ pc' = "sweep" /\ pending' = pending
    BY SweepFacts DEF Reclaim
  <1>2. /\ at \in 1 .. Len(heap) /\ Entry \notin Words /\ Inv /\ heap \in Seq(Pointers)
        /\ Entry.at \in HeapAddr /\ T \subseteq {Entry.at} \cup Elements
    BY <1>1, SweepFacts, ReclaimedUnused, EntryTrees, Listed DEF Entry
  <1>3. Words' = Words /\ Windows' /\ Dense'
    BY <1>1, SameWords, SweepFacts
  <1>4. Words' \subseteq Known'
    <2>1. ASSUME NEW w \in Words, w \in Range(heap) PROVE w \in Range(heap')
      <3>1. PICK j \in 1 .. Len(heap) : w = heap[j]
        BY <1>2, <2>1, Listed DEF Range
      <3>2. j # at
        BY <1>2, <3>1 DEF Entry
      <3> QED BY <1>1, <1>2, <3>1, <3>2, SwapKeeps
    <2>2. Known' = {Null, Prim} \cup Constants \cup Range(heap') \cup {pending.obj}
      BY <1>1 DEF Known, Constants, Range
    <2> QED BY <1>1, <1>3, <2>1, <2>2, SweepFacts DEF Known
  <1> HIDE DEF T
  <1>5. Tame'
    BY <1>1, SweepFacts DEF Tame, FreeTree
  <1>6. Permanent'
    <2>1. T \subseteq HeapAddr
      BY <1>2 DEF Inv, Memory
    <2> QED BY <1>1, <2>1, SweepFacts, AddrAssumption DEF Permanent, FreeTree
  <1>7. Ahead'
    <2> SUFFICES ASSUME NEW i \in 1 .. at - 1, heap'[i] \in Words, heap'[i].type # "error"
                 PROVE  marked'[heap'[i].at]
      BY <1>1, <1>3 DEF Ahead
    <2>1. heap'[i] = heap[i] /\ i \in 1 .. at /\ i \in 1 .. Len(heap) /\ i # at
      BY <1>1, <1>2, SwapKeeps
    <2>2. marked[heap[i].at]
      BY <1>1, <2>1, SweepFacts DEF Ahead
    <2>3. heap[i].at \notin T /\ heap[i].at \in Addr
      BY <1>2, <2>1, Listed DEF Entry
    <2> QED BY <1>1, <2>1, <2>2, <2>3 DEF FreeTree, Unmarked
  <1> QED BY <1>1, <1>3, <1>4, <1>5, <1>6, <1>7 DEF Sound

LEMMA RegisterSound == ASSUME Safe, Register PROVE Sound'
  <1> DEFINE v == pending.obj
  <1>1. /\ pc = "sweep" /\ pc' = "run" /\ heap' = Append(heap, v) /\ pending' = Idle
        /\ UNCHANGED <<store, globals, frames>>
        /\ IF pending.push
           THEN stack' = [stack EXCEPT ![sp] = v] /\ sp' = sp + 1
           ELSE UNCHANGED <<stack, sp>>
    BY DEF Register, AppendHeap
  <1>2. /\ Inv /\ Words \subseteq Known /\ Tame /\ Permanent
        /\ pending.push => sp < StackSize
    BY <1>1 DEF Safe, Sound, Inv, Registry, CtlOK
  <1> HIDE DEF v
  <1>3. Moves(v)
    <2>1. /\ sp \in Nat /\ Frame.floor <= sp /\ Frame.base <= Frame.floor /\ StackSize \in Nat
          /\ Frame.base \in Nat /\ Frame.floor \in Nat /\ stack \in [0 .. StackSize - 1 -> Object]
          /\ sp <= StackSize
      BY <1>2, Bases DEF Inv, Regs
    <2>2. \A i \in 0 .. sp - 1 : stack'[i] = stack[i] /\ stack[i] \in Words
      BY <1>1, <2>1, SlotWord
    <2>3. sp' \in Nat /\ Frame.floor <= sp' /\ \A i \in 0 .. Frame.base - 1 : stack'[i] = stack[i]
      BY <1>1, <2>1, <2>2
    <2>4. \A i \in 0 .. sp' - 1 : stack'[i] \in Words \cup {Null, Prim, v}
      <3>1. CASE pending.push
        <4>1. stack'[sp] = v /\ sp' = sp + 1
          BY <1>1, <1>2, <2>1, <3>1
        <4>2. \A i \in 0 .. sp' - 1 : i = sp \/ i \in 0 .. sp - 1
          BY <2>1, <4>1
        <4> QED BY <2>2, <4>1, <4>2
      <3>2. CASE ~pending.push
        BY <1>1, <2>2, <3>2
      <3> QED BY <3>1, <3>2
    <2>5. UNCHANGED frames /\ UNCHANGED globals
      BY <1>1
    <2>6. Dense' /\ Range(globals)' \subseteq Words \cup {Null, Prim, v}
      BY <2>5, SameGlobals
    <2> QED BY <2>3, <2>4, <2>5, <2>6, StackMoves
  <1>4. Words' \subseteq Known'
    <2>1. Range(heap) \cup {v} \subseteq Range(heap')
      BY <1>1, <1>2, Listed DEF Range
    <2>2. Words \subseteq {Null, Prim} \cup Constants \cup Range(heap')
      BY <1>2, <2>1 DEF Known, v
    <2>3. Words' \subseteq Words \cup {Null, Prim, v}
      <3>1. Words' = Slots' \cup Constants \cup Range(globals)' \cup {Null} \cup Callees'
        BY <1>1 DEF Words, Constants, Idle
      <3> QED BY <1>3, <3>1 DEF Moves, Words
    <2>4. Known' = {Null, Prim} \cup Constants \cup Range(heap') \cup {Null}
      BY <1>1 DEF Known, Constants, Range, Idle
    <2> QED BY <2>1, <2>2, <2>3, <2>4
  <1>5. Tame' /\ Permanent' /\ Windows' /\ Dense'
    BY <1>1, <1>2, <1>3 DEF Tame, Permanent, store, Moves
  <1>6. Ahead'
    BY <1>1 DEF Ahead
  <1> QED BY <1>1, <1>4, <1>5, <1>6 DEF Sound

\* Where the bounds of an object are left, the machine stops as it is.
LEMMA BeyondSound == ASSUME Safe, Beyond PROVE Sound'
  <1>1. /\ pc' = "overrun" /\ UNCHANGED <<regs, pending>>
        /\ UNCHANGED <<live, elems, marked, heap, at>>
    BY BeyondStops DEF Overrun, store, list
  <1>2. Words' = Words /\ (Windows => Windows') /\ (Dense => Dense')
    BY <1>1, SameWords
  <1>3. Known' = Known
    BY <1>1 DEF Known, Constants, Range
  <1>4. (Tame => Tame') /\ (Permanent => Permanent') /\ Ahead'
    BY <1>1, <1>2 DEF Tame, Permanent, Ahead
  <1> QED BY <1>1, <1>2, <1>3, <1>4 DEF Sound, Safe

LEMMA CollectSound == ASSUME Safe, Collect PROVE Sound'
  BY SkipSound, UnmarkSound, ReclaimSound, NoSweepFault, RegisterSound DEF Collect, Safe

----------------------------------------------------------------------------
(***************************************************************************)
(* The theorems                                                            *)
(***************************************************************************)

LEMMA InitSound == Init => Sound
  <1> SUFFICES ASSUME Init PROVE Sound
    OBVIOUS
  <1>1. /\ live = Strings \cup Procs /\ elems = [a \in Addr |-> << >>] /\ sp = 0 /\ pc = "run"
        /\ frames = <<[fn |-> Null, base |-> 0, floor |-> 0]>> /\ pending = Idle
        /\ globals = [i \in 0 .. GlobalsSize - 1 |-> Null]
    BY DEF Init
  <1>2. Len(frames) = 1 /\ frames[1].fn = Null /\ frames[1].floor = 0 /\ DOMAIN frames = {1}
    BY <1>1
  <1>3. Words \subseteq Known
    BY <1>1, <1>2 DEF Words, Slots, Callees, Range, Known, Idle
  <1>4. Windows
    <2>1. frames[Len(frames)].floor <= sp
      BY <1>1, <1>2
    <2> QED BY <1>2, <2>1 DEF Windows, Frame
  <1>5. Dense
    BY <1>1 DEF Dense
  <1>6. Tame /\ Permanent /\ Ahead
    BY <1>1 DEF Tame, Permanent, Ahead
  <1> QED BY <1>1, <1>3, <1>4, <1>5, <1>6 DEF Sound

\* After vm_free() the machine does nothing any more.
LEMMA FreedStays == ASSUME Inv, pc = "freed" PROVE ~Next
  <1>1. ~Effect /\ ~Collect
    BY DEF Effect, Collect, SkipError, Unmark, Reclaim, SweepFault, Register, Sweeping
  <1> QED BY <1>1, StepKinds

LEMMA NextSound ==
    ASSUME Features \subseteq {"drop"}, Inv, Own, Sound, Inv', [Next]_vars
    PROVE  Sound'
  <1>1. CASE UNCHANGED vars
    <2>1. UNCHANGED <<regs, pending>> /\ UNCHANGED <<live, elems, marked, heap, pc, at>>
      BY <1>1 DEF vars, regs
    <2>2. Words' = Words /\ (Windows => Windows') /\ (Dense => Dense')
      BY <2>1, SameWords
    <2>3. Known' = Known
      BY <2>1 DEF Known, Constants, Range
    <2>4. (Tame => Tame') /\ (Permanent => Permanent') /\ (Ahead => Ahead')
      BY <2>1, <2>2 DEF Tame, Permanent, Ahead
    <2> QED BY <2>1, <2>2, <2>3, <2>4 DEF Sound
  <1>2. CASE Next
    <2>1. Safe
      BY <1>2, FreedStays DEF Safe
    <2>2. Instruction \/ VmFree \/ Beyond \/ Collect
      BY <1>2 DEF Next, Instruction, Flow
    <2> QED BY <2>1, <2>2, InstructionSound, FreeSound, BeyondSound, CollectSound
  <1> QED BY <1>1, <1>2

LEMMA SoundInvariance == ASSUME Features \subseteq {"drop"}
                         PROVE  Spec => [](Inv /\ Own /\ Sound)
  <1>1. "alias" \notin Features
    OBVIOUS
  <1>2. Spec => [](Inv /\ Own)
    BY <1>1, OwnInvariance
  <1>3. Init => Sound
    BY InitSound
  <1>4. Inv /\ Own /\ Sound /\ Inv' /\ [Next]_vars => Sound'
    BY NextSound
  <1> QED BY <1>2, <1>3, <1>4, PTL DEF Spec

\* In the plain language, and in programs that also pop or replace array elements that are
\* heap objects, no instruction and no collection follows a pointer to memory that is not
\* allocated: gc() visits every word the program works with, whatever instructions come in
\* which order, and what gc_sweep() and vm_free() free is owned by the entry alone.  Such a
\* program can still leave the bounds of an object (SliceUnderrun, CopyOverrun and
\* NameOverrun in VmHeap); the theorem is about every run up to there.
THEOREM NeverDangling == ASSUME Features \subseteq {"drop"} PROVE Spec => []NoDanglingAccess
  <1>1. Spec => [](Inv /\ Own /\ Sound)
    BY SoundInvariance
  <1>2. Sound => NoDanglingAccess
    BY DEF Sound, NoDanglingAccess
  <1> QED BY <1>1, <1>2, PTL

\* In these programs gc_sweep() frees nothing the program can still reach, which is what
\* the comment of gc() promises for all programs: "mark every object that is reachable".
THEOREM CollectsUnreachable ==
    ASSUME Features \subseteq {"drop"} PROVE Spec => CollectsOnlyUnreachable
  <1>1. Spec => [](Inv /\ Own /\ Sound)
    BY SoundInvariance
  <1>2. Inv /\ Own /\ Sound /\ [Next]_vars => [Reclaim => Tree(Entry) \cap InUse = {}]_vars
    <2> SUFFICES ASSUME Inv, Own, Sound, Reclaim PROVE Tree(Entry) \cap InUse = {}
      OBVIOUS
    <2>1. Safe
      BY DEF Safe, Reclaim, Sweeping
    <2> QED BY <2>1, ReclaimedUnused
  <1> QED BY <1>1, <1>2, PTL DEF Spec, CollectsOnlyUnreachable

----------------------------------------------------------------------------
(***************************************************************************)
(* Garbage-collected memory                                                *)
(***************************************************************************)

\* What ManagedSpec calls in use.
Reach == IF pc = "freed" THEN {} ELSE InUse

LEMMA InUseWords == /\ InUse = UNION {Tree(w) : w \in Words}
                    /\ InUse' = UNION {Tree(w)' : w \in Words'}
  BY DEF InUse, Words, Slots, Callees

\* The program can reach allocated memory only.
LEMMA InUseLive == ASSUME Safe PROVE InUse \subseteq live /\ live \subseteq Addr
  <1>1. InUse \subseteq live
    BY InUseWords, WordsLive
  <1> QED BY <1>1 DEF Safe, Inv, Memory

\* An instruction adds what it allocates to what a word owns, and nothing else.
LEMMA WordLinks ==
    ASSUME Safe, NEW C, Links(C)
    PROVE  /\ C = live' \ live /\ live \subseteq live'
           /\ \A w \in Words \cup {Null, Prim} : Tree(w)' \subseteq InUse \cup C
           /\ \A v \in Pointers : v.at \in C => Tree(v)' \subseteq C
  <1>1. /\ elems \in Tables /\ elems' \in Tables /\ C \subseteq Addr /\ C \cap live = {}
        /\ live' = live \cup C
    BY TablesNow, FreshApart DEF Safe, Links
  <1>2. /\ \A x \in Addr \ C : Ats(elems'[x]) \subseteq Ats(elems[x]) \cup C
        /\ \A x \in C : Ats(elems'[x]) \subseteq C
    BY <1>1 DEF Links, Ats
  <1>3. ASSUME NEW w \in Words \cup {Null, Prim} PROVE Tree(w)' \subseteq InUse \cup C
    <2>1. CASE ~IsPtr(w)
      BY <2>1, TreesNow
    <2>2. CASE IsPtr(w)
      <3>1. w \in Words /\ w.at \in Addr
        BY <1>3, <2>2, WordsLive, PlainOK
      <3>2. BelowIn(elems', w.at) \subseteq BelowIn(elems, w.at) \cup C
        BY <1>1, <1>2, <3>1, TreeLinks
      <3>3. Tree(w)' \subseteq Tree(w) \cup C
        BY <2>2, <3>2, TreesNow DEF ReachIn
      <3>4. Tree(w) \subseteq InUse
        BY <3>1, InUseWords
      <3> QED BY <3>3, <3>4
    <2> QED BY <2>1, <2>2
  <1>4. ASSUME NEW v \in Pointers, v.at \in C PROVE Tree(v)' \subseteq C
    <2>1. BelowIn(elems', v.at) \subseteq C /\ IsPtr(v)
      BY <1>1, <1>2, <1>4, TreeLinks, AddrAssumption DEF IsPtr
    <2> QED BY <1>4, <2>1, TreesNow DEF ReachIn
  <1> QED BY <1>1, <1>3, <1>4

\* The words of the machine after an instruction.
LEMMA KindWords ==
    ASSUME Safe, pc = "run", Kind
    PROVE  /\ pc' # "freed"
           /\ \E C : /\ Links(C)
                     /\ \A w \in Words' : \/ w \in Words \cup {Null, Prim}
                                          \/ w \in Pointers /\ w.at \in C
  <1>1. Words' = Slots' \cup Constants \cup Range(globals)' \cup {pending'.obj} \cup Callees'
    BY DEF Words, Constants
  <1>2. pending.obj \in Words /\ Constants \subseteq Words
    BY DEF Words
  <1>3. ASSUME NEW C, Gentle(C)
        PROVE  Links(C) /\ pc' # "freed" /\ Words' \subseteq Words \cup {Null, Prim}
    <2>1. pc' = "run" /\ pending' = pending
      BY <1>3 DEF Gentle, ctl
    <2> QED BY <1>1, <1>2, <1>3, <2>1 DEF Gentle, Moves
  <1>4. ASSUME NEW C, NEW v, Fresher(C, v)
        PROVE  /\ Links(C) /\ pc' # "freed" /\ Words' \subseteq Words \cup {Null, Prim, v}
               /\ v \in Pointers /\ v.at \in C
    <2>1. PICK push \in BOOLEAN : GcAdd(C, v, push)
      BY <1>4 DEF Fresher
    <2>2. pc' # "freed" /\ (pending' = pending \/ pending'.obj = v)
      BY <2>1 DEF GcAdd, ctl
    <2> QED BY <1>1, <1>2, <1>4, <2>2 DEF Fresher, Moves
  <1> QED BY <1>3, <1>4 DEF Kind

LEMMA InstructionWorks ==
    ASSUME Safe, Inv', Instruction
    PROVE  /\ live \subseteq live' /\ live' \subseteq Addr
           /\ Reach' \subseteq Reach \cup (live' \ live)
  <1>1. PICK C : /\ Links(C)
                 /\ \A w \in Words' : \/ w \in Words \cup {Null, Prim}
                                      \/ w \in Pointers /\ w.at \in C
    BY InstructionKind, KindWords
  <1>2. \A w \in Words' : Tree(w)' \subseteq InUse \cup C
    BY <1>1, WordLinks
  <1>3. InUse' \subseteq InUse \cup C
    BY <1>2, InUseWords
  <1>4. Reach' \subseteq Reach \cup C
    <2>1. pc' # "freed" /\ pc # "freed"
      BY InstructionKind, KindWords DEF Safe
    <2> QED BY <1>3, <2>1 DEF Reach
  <1>5. live' \subseteq Addr
    BY DEF Inv, Memory
  <1> QED BY <1>1, <1>4, <1>5, WordLinks

\* What owns nothing of what is freed keeps all it owns.
LEMMA FreedApart ==
    ASSUME Inv, NEW T, FreeTree(T), NEW w, IsPtr(w) => w.at \in Addr, Tree(w) \cap T = {}
    PROVE  Tree(w)' = Tree(w)
  <1>1. /\ elems \in Tables /\ \A a \in Addr : elems'[a] = IF a \in T THEN << >> ELSE elems[a]
        /\ elems' \in Tables
    <2>1. elems \in Tables
      BY TablesNow
    <2>2. << >> \in Seq(Object)
      OBVIOUS
    <2> QED BY <2>1, <2>2 DEF FreeTree, Tables
  <1>2. CASE ~IsPtr(w)
    BY <1>2, TreesNow
  <1>3. CASE IsPtr(w)
    <2> DEFINE a == w.at
    <2>1. a \in Addr /\ Tree(w) = ReachIn(elems, a) /\ Tree(w)' = ReachIn(elems', a)
      BY <1>3, TreesNow
    <2> HIDE DEF a
    <2>2. \A x \in ReachIn(elems, a) : x \in Addr /\ elems'[x] = elems[x]
      BY <1>1, <2>1, ReachClosed
    <2>3. \A x \in ReachIn(elems, a) : /\ Ats(elems'[x]) \subseteq Ats(elems[x])
                                      /\ Ats(elems[x]) \subseteq Ats(elems'[x])
      BY <2>2
    <2>4. BelowIn(elems', a) \subseteq BelowIn(elems, a)
      BY <1>1, <2>1, <2>3, TreeShrinks
    <2>5. BelowIn(elems, a) \subseteq BelowIn(elems', a)
      BY <1>1, <2>1, <2>3, TreeGrows
    <2> QED BY <2>1, <2>4, <2>5 DEF ReachIn
  <1> QED BY <1>2, <1>3

\* What the program can reach stays as it is while the sweep frees an entry.
LEMMA ReclaimReclaims ==
    ASSUME Safe, Reclaim
    PROVE  \E S \in SUBSET (live \ Reach) : live' = live \ S /\ Reach' = Reach
  <1> DEFINE T == Tree(Entry)
  <1>1. /\ Sweeping /\ FreeTree(T) /\ UNCHANGED <<regs, pending>>
        /\ pc = "sweep" /\ pc' = "sweep" /\ T \cap InUse = {}
    BY ReclaimedUnused, SweepFacts DEF Reclaim
  <1>2. T \subseteq live
    BY <1>1, SweepFacts, EntryTrees DEF Entry
  <1> HIDE DEF T
  <1>3. Words' = Words
    BY <1>1, SameWords
  <1>5. \A w \in Words : Tree(w)' = Tree(w)
    <2>1. \A w \in Words : (IsPtr(w) => w.at \in Addr) /\ Tree(w) \cap T = {}
      BY <1>1, InUseWords, WordsLive
    <2> QED BY <1>1, <2>1, FreedApart DEF Safe
  <1>6. InUse' = InUse
    BY <1>3, <1>5, InUseWords
  <1>7. Reach = InUse /\ Reach' = Reach
    BY <1>1, <1>6 DEF Reach
  <1>8. live' = live \ T /\ T \in SUBSET (live \ Reach)
    BY <1>1, <1>2, <1>7 DEF FreeTree
  <1> QED BY <1>7, <1>8

\* The other steps of the collector leave the memory alone; what gc_add() registers the
\* program could reach already.
LEMMA SweepWorks ==
    ASSUME Safe, SkipError \/ Unmark \/ Register
    PROVE  live' = live /\ Reach' \subseteq Reach
  <1>1. UNCHANGED store /\ pc # "freed" /\ pc' # "freed" /\ live' = live /\ elems' = elems
    BY DEF Safe, SkipError, Unmark, Register, Sweeping, store
  <1>2. Words' \subseteq Words \cup {Null}
    <2>1. CASE SkipError \/ Unmark
      BY <2>1, SameWords DEF SkipError, Unmark
    <2>2. CASE Register
      <3>1. /\ pending' = Idle /\ UNCHANGED <<globals, frames>>
            /\ IF pending.push
               THEN stack' = [stack EXCEPT ![sp] = pending.obj] /\ sp' = sp + 1
               ELSE UNCHANGED <<stack, sp>>
        BY <2>2 DEF Register
      <3>2. \A i \in 0 .. sp' - 1 : stack'[i] \in Slots \cup {pending.obj}
        <4>1. stack \in [0 .. StackSize - 1 -> Object] /\ sp \in Nat /\ sp <= StackSize
              /\ StackSize \in Nat
          BY Bases DEF Safe, Inv, Regs
        <4>2. CASE pending.push
          <5>1. \A i \in 0 .. sp' - 1 : i = sp \/ (i \in 0 .. sp - 1 /\ i # sp)
            BY <3>1, <4>1, <4>2
          <5>2. \A i \in 0 .. StackSize - 1 :
                   stack'[i] = IF i = sp THEN pending.obj ELSE stack[i]
            BY <3>1, <4>1, <4>2
          <5>3. sp < StackSize /\ sp' = sp + 1
            BY <2>2, <3>1, <4>2 DEF Register, Safe, Inv, Registry, CtlOK
          <5>4. \A i \in 0 .. sp' - 1 : i \in 0 .. StackSize - 1
            BY <4>1, <5>3
          <5> QED BY <5>1, <5>2, <5>4 DEF Slots
        <4>3. CASE ~pending.push
          BY <3>1, <4>3 DEF Slots
        <4> QED BY <4>2, <4>3
      <3>3. Slots' \subseteq Slots \cup {pending.obj}
        BY <3>2 DEF Slots
      <3>4. Range(globals)' = Range(globals) /\ Callees' = Callees /\ pending'.obj = Null
        BY <3>1 DEF Range, Callees, Idle
      <3> QED BY <3>3, <3>4 DEF Words, Constants
    <2> QED BY <2>1, <2>2
  <1>3. \A w : Tree(w)' = Tree(w)
    BY <1>1, TreesNow
  <1>4. Tree(Null) = {}
    BY PlainOK, TreesNow
  <1>5. InUse' \subseteq InUse
    BY <1>2, <1>3, <1>4, InUseWords
  <1> QED BY <1>1, <1>5 DEF Reach

LEMMA InitManaged == ASSUME Features \subseteq {"drop"}, Init PROVE Managed!Init
  <1>1. Safe
    BY InitInv, InitOwn, InitSound DEF Safe, Init
  <1>2. Reach \subseteq live /\ live \subseteq Addr
    BY <1>1, InUseLive DEF Reach, Safe
  <1> QED BY <1>2 DEF Managed!Init, Reach

LEMMA NextManaged ==
    ASSUME Features \subseteq {"drop"}, Inv, Own, Sound, Inv', [Next]_vars
    PROVE  [Managed!Next]_(Managed!vars)
  <1>1. CASE UNCHANGED vars
    <2>1. /\ UNCHANGED <<regs, pending>> /\ live' = live /\ elems' = elems /\ pc' = pc
      BY <1>1 DEF vars, regs
    <2>2. InUse' = InUse
      BY <2>1, SameWords, InUseWords, TreesNow
    <2> QED BY <2>1, <2>2 DEF Managed!vars
  <1>2. CASE Next
    <2>1. Safe
      BY <1>2, FreedStays DEF Safe
    <2>2. CASE Instruction
      <3>1. Managed!Work
        BY <2>1, <2>2, InstructionWorks DEF Managed!Work, Reach
      <3> QED BY <3>1 DEF Managed!Next
    <2>3. CASE VmFree
      <3>1. pc' = "freed" /\ live' \subseteq live
        BY <2>1, <2>3, FreesAll DEF Safe, FreeTree
      <3>2. Managed!Exit
        BY <3>1 DEF Managed!Exit
      <3> QED BY <3>2 DEF Managed!Next
    <2>4. CASE Reclaim
      <3>1. Managed!Reclaim
        BY <2>1, <2>4, ReclaimReclaims DEF Managed!Reclaim, Reach
      <3> QED BY <3>1 DEF Managed!Next
    <2>5. CASE SkipError \/ Unmark \/ Register
      <3>1. live' = live /\ Reach' \subseteq Reach /\ live \subseteq Addr
        BY <2>1, <2>5, SweepWorks, InUseLive
      <3>2. Managed!Work
        BY <3>1 DEF Managed!Work, Reach
      <3> QED BY <3>2 DEF Managed!Next
    <2>6. CASE Beyond
      <3>1. UNCHANGED <<regs, pending>> /\ live' = live /\ elems' = elems
        BY <2>6, BeyondStops DEF Overrun, store
      <3>2. InUse' = InUse
        BY <3>1, SameWords, InUseWords, TreesNow
      <3>3. pc # "freed" /\ pc' # "freed"
        BY <2>6, BeyondStops DEF Overrun
      <3>4. Managed!vars' = Managed!vars
        BY <3>1, <3>2, <3>3 DEF Managed!vars
      <3> QED BY <3>4
    <2> QED BY <1>2, <2>1, <2>2, <2>3, <2>4, <2>5, <2>6, NoSweepFault
        DEF Next, Instruction, Flow, Collect, Safe
  <1> QED BY <1>1, <1>2

\* The machine implements garbage-collected memory (ManagedHeap): everything the program
\* can reach is allocated, an instruction makes nothing reachable but what it allocates,
\* and gc() reclaims only what cannot be reached, for the plain language and for programs
\* that drop array elements.
THEOREM ImplementsManagedHeap == ASSUME Features \subseteq {"drop"} PROVE Spec => ManagedSpec
  <1>1. Spec => [](Inv /\ Own /\ Sound)
    BY SoundInvariance
  <1>2. Init => Managed!Init
    BY InitManaged
  <1>3. Inv /\ Own /\ Sound /\ Inv' /\ [Next]_vars => [Managed!Next]_(Managed!vars)
    BY NextManaged
  <1> QED BY <1>1, <1>2, <1>3, PTL DEF Spec, ManagedSpec, Managed!Spec

----------------------------------------------------------------------------
(***************************************************************************)
(* The end of a program that drops nothing from its arrays                 *)
(***************************************************************************)

\* The objects gc_sweep() and vm_free() find, and the one they will find.
Registered == Range(heap) \cup {pending.obj}

\* Nothing the program allocated is lost: what is left of it at the end was not there.
Kept == /\ pc = "freed" => live = Strings \cup Procs
        /\ pc # "freed" => live \subseteq Strings \cup Procs \cup UNION {Tree(w) : w \in Registered}

\* Arrays gain elements only, and what an instruction allocates is registered, or in an
\* array that is.
LEMMA GainsKept ==
    ASSUME Safe, Kept, pc' # "freed", NEW C, live' = live \cup C, elems' \in Tables,
           \A a \in Addr : Ats(elems[a]) \subseteq Ats(elems'[a]),
           Registered \subseteq Registered' \cup {Null},
           C \subseteq UNION {Tree(w)' : w \in Registered'}
    PROVE  Kept'
  <1>1. elems \in Tables /\ Inv
    BY TablesNow DEF Safe
  <1>2. ASSUME NEW w \in Registered PROVE Tree(w) \subseteq UNION {Tree(u)' : u \in Registered'}
    <2>1. CASE ~IsPtr(w)
      BY <2>1, TreesNow
    <2>2. CASE IsPtr(w)
      <3>1. w.at \in Addr
        <4>1. CASE w \in Range(heap)
          BY <1>1, <4>1, Listed DEF Range
        <4>2. CASE w = pending.obj
          BY <1>1, <2>2, <4>2, AddrAssumption DEF Inv, Registry, HeapOwned, Addr
        <4> QED BY <1>2, <4>1, <4>2 DEF Registered
      <3>2. BelowIn(elems, w.at) \subseteq BelowIn(elems', w.at)
        <4>1. \A x \in ReachIn(elems, w.at) : x \in Addr
          BY <1>1, <3>1, ReachClosed
        <4> QED BY <1>1, <3>1, <4>1, TreeGrows
      <3>3. Tree(w) \subseteq Tree(w)'
        BY <2>2, <3>2, TreesNow DEF ReachIn
      <3>4. w \in Registered'
        BY <2>2, PlainOK
      <3> QED BY <3>3, <3>4
    <2> QED BY <2>1, <2>2
  <1>3. live \subseteq Strings \cup Procs \cup UNION {Tree(w)' : w \in Registered'}
    BY <1>2 DEF Kept, Safe
  <1>4. (UNION {Tree(w) : w \in Registered})' = UNION {Tree(w)' : w \in Registered'}
    OBVIOUS
  <1> QED BY <1>3, <1>4 DEF Kept

LEMMA RegisteringKept ==
    ASSUME Safe, Kept, "drop" \notin Features, pc = "run", Sound', Registering
    PROVE  Kept'
  <1>1. PICK n, C, v, push : Registers(n, C, v, push)
    BY DEF Registering
  <1>2. /\ Links(C) /\ \A a \in Addr : Ats(elems[a]) \subseteq Ats(elems'[a])
        /\ v \in Pointers /\ v.at \in C /\ C \subseteq ReachIn(elems', v.at) /\ GcAdd(C, v, push)
    BY <1>1 DEF Registers, Allots
  <1>3. pending = Idle /\ heap \in Seq(Pointers) /\ pc' # "fault"
    BY DEF Safe, Sound, Inv, Registry, CtlOK
  <1>4. pc' # "freed" /\ v \in Registered' /\ Range(heap) \subseteq Registered'
    <2>1. CASE AppendHeap(v) /\ UNCHANGED ctl
      <3>1. heap' = Append(heap, v) /\ pc' = "run"
        BY <2>1 DEF AppendHeap, ctl
      <3>2. Range(heap) \cup {v} \subseteq Range(heap')
        BY <1>3, <3>1 DEF Range
      <3> QED BY <3>1, <3>2 DEF Registered, Range
    <2>2. CASE pc' = "sweep" /\ pending' = [obj |-> v, push |-> push] /\ UNCHANGED list
      BY <2>2 DEF Registered, Range, list
    <2> QED BY <1>2, <1>3, <2>1, <2>2 DEF GcAdd
  <1>5. Registered \subseteq Registered' \cup {Null}
    BY <1>3, <1>4 DEF Registered, Idle
  <1>6. C \subseteq UNION {Tree(w)' : w \in Registered'}
    <2>1. IsPtr(v)
      BY <1>2, AddrAssumption DEF Pointers, IsPtr
    <2>2. Tree(v)' = ReachIn(elems', v.at)
      BY <2>1, TreesNow
    <2> QED BY <1>2, <1>4, <2>2
  <1>7. live' = live \cup C /\ elems' \in Tables
    BY <1>2 DEF Links
  <1> QED BY <1>2, <1>4, <1>5, <1>6, <1>7, GainsKept

\* An array the program stores to is a registered object.
LEMMA RewritingKept ==
    ASSUME Safe, Kept, "drop" \notin Features, pc = "run", Rewriting
    PROVE  Kept'
  <1>1. PICK n, C, v : Rewrites(n, C, v)
    BY DEF Rewriting
  <1>2. /\ Links(C) /\ \A a \in Addr : Ats(elems[a]) \subseteq Ats(elems'[a])
        /\ UNCHANGED <<list, ctl>> /\ n \in Nat /\ Operands(n)
    BY <1>1 DEF Rewrites, Allots
  <1>3. PICK k \in 1 .. n : Is(Top(k), "array") /\ C \subseteq ReachIn(elems', Top(k).at)
    BY <1>1 DEF Rewrites
  <1>4. PICK w : w = Top(k) /\ w \in Words /\ w # Wild /\ w \in Object
    BY <1>2, OperandWords, WordsLive
  <1>5. w.type = "array" /\ C \subseteq ReachIn(elems', w.at)
    BY <1>3, <1>4 DEF Is, Object, Pointers, Null, Prim, Wild
  <1>6. IsPtr(w)
    BY <1>4, <1>5, AddrAssumption DEF Object, Pointers, Null, Prim, Wild, IsPtr
  <1>7. w \in Registered
    <2>1. w \in Constants \cup Range(heap) \cup {pending.obj}
      BY <1>4, <1>6, WordsLive
    <2>2. w \notin Constants
      BY <1>5 DEF Constants, Obj
    <2> QED BY <2>1, <2>2 DEF Registered
  <1>8. Registered' = Registered /\ pc' # "freed"
    BY <1>2 DEF Registered, Range, list, ctl
  <1>9. C \subseteq UNION {Tree(u)' : u \in Registered'}
    <2>1. Tree(w)' = ReachIn(elems', w.at)
      BY <1>6, TreesNow
    <2> QED BY <1>5, <1>7, <1>8, <2>1
  <1>10. live' = live \cup C /\ elems' \in Tables
    BY <1>2 DEF Links
  <1> QED BY <1>2, <1>8, <1>9, <1>10, GainsKept

LEMMA SameKept ==
    ASSUME Kept, UNCHANGED store, pc # "freed", pc' # "freed",
           Registered \subseteq Registered' \cup {Null}
    PROVE  Kept'
  <1>1. \A w : Tree(w)' = Tree(w)
    BY TreesNow DEF store
  <1>2. Tree(Null) = {}
    BY PlainOK, TreesNow
  <1>3. (UNION {Tree(w) : w \in Registered})' = UNION {Tree(w) : w \in Registered'}
    BY <1>1
  <1> QED BY <1>2, <1>3 DEF Kept, store

LEMMA InstructionKept ==
    ASSUME Safe, Kept, "drop" \notin Features, Sound', Next, Instruction
    PROVE  Kept'
  <1>1. pc = "run" /\ Kind /\ pc' # "freed"
    BY InstructionKind, KindWords
  <1>2. Registering \/ Rewriting \/ UNCHANGED store
    <2>1. ~VmFree
      BY <1>1, FreesAll DEF Safe
    <2>2. ~Reclaim
      BY <1>1 DEF Reclaim, Sweeping
    <2>3. "alias" \notin Features
      BY DEF Safe
    <2> QED BY <2>1, <2>2, <2>3, Shapes DEF Shape, Safe
  <1>3. CASE UNCHANGED store
    <2>1. \A C, v : ~Fresher(C, v)
      <3> SUFFICES ASSUME NEW C, NEW v, Fresher(C, v) PROVE FALSE
        OBVIOUS
      <3>1. v.at \in Fresh /\ v.at \in live'
        BY DEF Fresher, Links
      <3> QED BY <1>3, <3>1, FreshApart DEF store, Safe
    <2>2. UNCHANGED <<list, ctl>>
      BY <1>1, <2>1 DEF Kind, Gentle
    <2>3. Registered' = Registered
      BY <2>2 DEF Registered, Range, list, ctl
    <2> QED BY <1>1, <1>3, <2>3, SameKept
  <1> QED BY <1>1, <1>2, <1>3, RegisteringKept, RewritingKept

LEMMA FreeKept == ASSUME Safe, Kept, VmFree PROVE Kept'
  <1>1. pc = "run" /\ pc' = "freed" /\ live' = live \ Trees(heap)
    BY FreesAll DEF Safe, FreeTree
  <1>2. pending.obj = Null /\ Inv /\ Own /\ Permanent
    BY <1>1 DEF Safe, Sound, Inv, Registry, CtlOK, Idle
  <1>3. UNION {Tree(w) : w \in Registered} = Trees(heap)
    <2>1. Tree(pending.obj) = {}
      BY <1>2, PlainOK, TreesNow
    <2> QED BY <2>1 DEF Registered, Range, Trees
  <1>4. Trees(heap) \subseteq HeapAddr
    <2>1. \A i \in DOMAIN heap : Tree(heap[i]) \subseteq HeapAddr
      BY <1>2, EntryTrees, Listed DEF Inv, Memory
    <2> QED BY <2>1 DEF Trees
  <1>5. live \subseteq Strings \cup Procs \cup Trees(heap)
    BY <1>1, <1>3 DEF Kept
  <1>6. live' = Strings \cup Procs
    BY <1>1, <1>2, <1>4, <1>5, AddrAssumption DEF Permanent
  <1> QED BY <1>1, <1>6 DEF Kept

\* The sweep takes one entry off the list, and all it owns out of memory.
LEMMA ReclaimKept == ASSUME Safe, Kept, Reclaim PROVE Kept'
  <1> DEFINE T == Tree(Entry)
  <1>1. /\ Sweeping /\ FreeTree(T) /\ heap' = SwapRemove(heap, at)
        /\ pending' = pending /\ pc = "sweep" /\ pc' = "sweep"
    BY SweepFacts DEF Reclaim
  <1>2. at \in 1 .. Len(heap) /\ Inv /\ Own /\ heap \in Seq(Pointers) /\ Entry \notin Words
    BY <1>1, SweepFacts, ReclaimedUnused, Listed
  <1>3. ASSUME NEW w \in Registered, w # Entry
        PROVE  w \in Registered' /\ Tree(w)' = Tree(w)
    <2>1. CASE w \in Range(heap)
      <3>1. PICK j \in 1 .. Len(heap) : w = heap[j]
        BY <1>2, <2>1, Listed DEF Range
      <3>2. j # at
        BY <1>3, <3>1 DEF Entry
      <3>3. w \in Registered'
        BY <1>1, <1>2, <3>1, <3>2, SwapKeeps DEF Registered, Range
      <3>4. w.at \in Addr /\ Tree(w) \cap T = {}
        BY <1>2, <3>1, <3>2, EntryTrees, Listed DEF Entry
      <3> HIDE DEF T
      <3> QED BY <1>1, <1>2, <3>3, <3>4, FreedApart
    <2>2. CASE w = pending.obj
      <3>1. w \in Words /\ w \in Registered'
        BY <1>1, <2>2 DEF Words, Registered
      <3>2. (IsPtr(w) => w.at \in Addr) /\ Tree(w) \cap T = {}
        BY <1>2, <1>3, <3>1, WordsLive, WordApart DEF Entry
      <3> HIDE DEF T
      <3> QED BY <1>1, <1>2, <3>1, <3>2, FreedApart
    <2> QED BY <1>3, <2>1, <2>2 DEF Registered
  <1>4. live' = live \ T
    BY <1>1 DEF FreeTree
  <1>5. (UNION {Tree(w) : w \in Registered})' = UNION {Tree(w)' : w \in Registered'}
    OBVIOUS
  <1>6. live' \subseteq Strings \cup Procs \cup UNION {Tree(w)' : w \in Registered'}
    BY <1>1, <1>3, <1>4 DEF Kept
  <1> QED BY <1>1, <1>5, <1>6 DEF Kept

LEMMA SweepKept == ASSUME Safe, Kept, SkipError \/ Unmark \/ Register PROVE Kept'
  <1>1. UNCHANGED store /\ pc # "freed" /\ pc' # "freed"
    BY DEF SkipError, Unmark, Register, Sweeping, Safe
  <1>2. Registered \subseteq Registered' \cup {Null}
    <2>1. CASE SkipError \/ Unmark
      BY <2>1 DEF SkipError, Unmark, Registered, Range, list
    <2>2. CASE Register
      <3>1. heap' = Append(heap, pending.obj) /\ heap \in Seq(Pointers)
        BY <2>2 DEF Register, AppendHeap, Safe, Inv, Registry
      <3>2. Range(heap) \cup {pending.obj} \subseteq Range(heap')
        BY <3>1 DEF Range
      <3> QED BY <3>2 DEF Registered, Range
    <2> QED BY <2>1, <2>2
  <1> QED BY <1>1, <1>2, SameKept

LEMMA NextKept ==
    ASSUME Features = {}, Inv, Own, Sound, Kept, Inv', Sound', [Next]_vars
    PROVE  Kept'
  <1>1. CASE UNCHANGED vars
    <2>1. UNCHANGED store /\ pc' = pc /\ Registered' = Registered
      BY <1>1 DEF vars, store, Registered, Range
    <2>2. CASE pc = "freed"
      BY <2>1, <2>2 DEF Kept, store
    <2> QED BY <2>1, <2>2, SameKept
  <1>2. CASE Next
    <2>1. Safe /\ "drop" \notin Features
      BY <1>2, FreedStays DEF Safe
    <2>2. \/ Instruction \/ VmFree \/ Beyond
          \/ SkipError \/ Unmark \/ Reclaim \/ Register
      BY <1>2, NoSweepFault DEF Next, Instruction, Flow, Collect
    <2>3. CASE Beyond
      <3>1. UNCHANGED store /\ pc # "freed" /\ pc' # "freed" /\ Registered' = Registered
        BY <2>3, BeyondStops DEF Overrun, Registered, Range, list
      <3> QED BY <2>1, <3>1, SameKept
    <2> QED BY <1>2, <2>1, <2>2, <2>3, InstructionKept, FreeKept, ReclaimKept, SweepKept
  <1> QED BY <1>1, <1>2

\* In the plain language vm_free() gives back all the memory the program allocated: every
\* object was registered by gc_add(), or is owned by one that was, and stays so until the
\* sweep or vm_free() frees it.
THEOREM TeardownFreesAll == ASSUME Features = {} PROVE Spec => []TeardownClean
  <1>1. Spec => [](Inv /\ Own /\ Sound)
    BY SoundInvariance
  <1>2. Init => Kept
    <2>1. Init => pc # "freed" /\ live = Strings \cup Procs
      BY DEF Init
    <2> QED BY <2>1 DEF Kept
  <1>3. Inv /\ Own /\ Sound /\ Kept /\ Inv' /\ Sound' /\ [Next]_vars => Kept'
    BY NextKept
  <1>4. Kept => TeardownClean
    BY DEF Kept, TeardownClean
  <1> QED BY <1>1, <1>2, <1>3, <1>4, PTL DEF Spec
=============================================================================
