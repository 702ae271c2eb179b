------------------------------- MODULE VmHeap -------------------------------
(***************************************************************************)
(* The memory of the pepper virtual machine: operand stack, frames,        *)
(* globals and constants (vm.c, vm.h), the object store (object.c) and the *)
(* mark-and-sweep collector over the list of registered objects (gc.c).    *)
(*                                                                         *)
(* The running program is arbitrary: a step executes any instruction whose *)
(* operands the compiler put above the locals of the current frame.  A     *)
(* handler is one action, the collection its gc_add() starts is a loop of  *)
(* its own (pc = "sweep"), one step per entry of the heap list.  The       *)
(* payload of an object is abstracted away; what is kept is its type, its  *)
(* elements, its mark, and whether its memory is allocated.  Two accesses  *)
(* are undefined behaviour, and the machine records them and stops: one    *)
(* through a pointer to memory that is not allocated (pc = "fault"), and   *)
(* one outside the bounds of an object that is (pc = "overrun").           *)
(***************************************************************************)
EXTENDS Integers, Sequences, FiniteSets, Functions

CONSTANTS
    HeapAddr,     \* addresses malloc() can return
    Strings,      \* addresses of the string constants of the program
    Procs,        \* addresses of its compiled functions
    None,         \* no address
    StackSize, FramesSize, GlobalsSize, \* bounds for 256, 64 and 64 of vm.h
    HeapCap,      \* initial capacity of the heap list, 256 in vm_new()
    MaxLocals, MaxElems,  \* bounds on locals and arguments, on array elements
    TestMode,     \* TRUE: compiled with -DTEST_MODE, every gc_add() collects
    Features      \* what the program does beyond the plain language, see below

(***************************************************************************)
(* Program features under which the memory of the machine is exposed:      *)
(*   null_global  a global is left or set to null before a later one is set*)
(*   late_local   a function has locals besides its parameters             *)
(*   borrow       an array element that is a heap object is read by index  *)
(*   alias        an array holding heap objects is sliced                  *)
(*   drop         an element that is a heap object is popped or replaced   *)
(*   negate       unary minus is applied to something other than a number  *)
(***************************************************************************)
AllFeatures == {"null_global", "late_local", "borrow", "alias", "drop", "negate"}

Addr == HeapAddr \cup Strings \cup Procs

\* struct object: a type and, for the types above OBJ_BUILTIN, a pointer.  Integers,
\* booleans and built-ins are one type here; a wild object is an uninitialised slot
\* or a pointer that arithmetic destroyed.
Pointers  == [type : {"error", "string", "array", "function"}, at : Addr]
Null      == [type |-> "null", at |-> None]
Prim      == [type |-> "prim", at |-> None]
Wild      == [type |-> "wild", at |-> None]
Object    == Pointers \cup {Null, Prim, Wild}
Obj(k, a) == [type |-> k, at |-> a]
Constants == {Obj("string", a) : a \in Strings} \cup {Obj("function", a) : a \in Procs}

ASSUME AddrAssumption ==
    /\ HeapAddr \cap (Strings \cup Procs) = {}
    /\ Strings \cap Procs = {}
    /\ None \notin Addr
ASSUME SizeAssumption ==
    /\ StackSize \in Nat \ {0} /\ FramesSize \in Nat \ {0} /\ GlobalsSize \in Nat
    /\ HeapCap \in Nat \ {0} /\ MaxLocals \in Nat /\ MaxElems \in Nat
    /\ TestMode \in BOOLEAN /\ Features \subseteq AllFeatures

VARIABLES
    live,     \* allocated addresses
    elems,    \* address -> objects of the array there
    marked,   \* address -> gc_meta.marked
    heap,     \* vm->heap->values, the registered objects
    cap,      \* vm->heap->cap
    stack,    \* vm->stack, the slots above the stack pointer included
    sp,       \* vm->stack_pointer
    globals,  \* vm->globals
    frames,   \* vm->frames[0 .. frame_index]
    pc,       \* "run", "sweep", "freed" after vm_free(), "fault", "overrun"
    at,       \* sweep: next heap entry to examine
    pending   \* sweep: the object gc_add() will append; pushed after it or not

store == <<live, elems>>
list  == <<heap, cap>>
regs  == <<stack, sp, globals, frames>>
ctl   == <<pc, at, pending>>
vars  == <<live, elems, marked, heap, cap, stack, sp, globals, frames, pc, at, pending>>

Idle == [obj |-> Null, push |-> FALSE]

\* A popped slot keeps its object, which late locals see again.  Without them no slot
\* above the stack pointer is read before it is written: it counts as uninitialised,
\* and a read would fault.
Cut(st, top) == [i \in DOMAIN st |->
    IF i >= top /\ "late_local" \notin Features THEN Wild ELSE st[i]]

\* vm_new(): globals null, the stack as malloc() left it, one frame running the program.
Init ==
    /\ live = Strings \cup Procs
    /\ elems = [a \in Addr |-> << >>]
    /\ marked = [a \in Addr |-> FALSE]
    /\ heap = << >> /\ cap = HeapCap
    /\ \E v \in {Wild, Null} : stack = Cut([i \in 0 .. StackSize - 1 |-> v], 0)
    /\ sp = 0
    /\ globals = [i \in 0 .. GlobalsSize - 1 |-> Null]
    /\ frames = <<[fn |-> Null, base |-> 0, floor |-> 0]>>
    /\ pc = "run" /\ at = 0 /\ pending = Idle

----------------------------------------------------------------------------
(***************************************************************************)
(* Objects                                                                 *)
(***************************************************************************)

IsPtr(v) == v.at # None
Is(v, k) == v.type \in {k, "wild"}
Dead(v)  == v.type = "wild" \/ (IsPtr(v) /\ v.at \notin live)
Ats(vs)  == {vs[i].at : i \in DOMAIN vs} \ {None}      \* addresses a sequence points to

Elements == UNION {Ats(elems[a]) : a \in Addr}           \* addresses arrays point to

\* Addresses some machine word holds.  malloc() is modelled as returning none of them,
\* so that a stale pointer stays recognisable for as long as anything holds it.
Held == Ats(stack) \cup Ats(globals) \cup Ats(heap) \cup {pending.obj.at}
        \cup {frames[i].fn.at : i \in DOMAIN frames} \cup Elements
Fresh == HeapAddr \ (live \cup Held)

\* What the array at address a owns: its elements, their elements, and so on.
Closed(S) == \A x \in S : Ats(elems[x]) \subseteq S
Below(a)  == {x \in Elements : Ats(elems[a]) # {} /\
                 \A S \in SUBSET Elements : Ats(elems[a]) \subseteq S /\ Closed(S) => x \in S}
\* The address of v and all it owns: the walk of free_object() and copy_object().
Tree(v)   == IF IsPtr(v) THEN {v.at} \cup Below(v.at) ELSE {}
Trees(vs) == UNION {Tree(vs[i]) : i \in DOMAIN vs}
DeadTree(vs) == (\E i \in DOMAIN vs : Dead(vs[i])) \/ ~(Trees(vs) \subseteq live)

\* copy_object() of each object of vs: m maps <<i, a>> to the copy of a made for vs[i].
Copies(vs) ==
    Injection({p \in (DOMAIN vs) \X Addr : p[2] \in Tree(vs[p[1]])}, Fresh)
Copy(m, i, v)  == IF IsPtr(v) THEN Obj(v.type, m[<<i, v.at>>]) ELSE v
CopiedBy(m, a) == CHOOSE p \in DOMAIN m : m[p] = a
ElemsWith(m)   == [a \in Addr |->
    IF a \notin Range(m) THEN elems[a]
    ELSE LET p == CopiedBy(m, a)
         IN  [j \in DOMAIN elems[p[2]] |-> Copy(m, p[1], elems[p[2]][j])]]

\* Allocates the copies of m; the marks of new objects are clear.
MakeCopies(m) == live' = live \cup Range(m)
Unmarked(new) == [a \in Addr |-> marked[a] /\ a \notin new]

\* Allocates the copies of m and a new object at address a with elements es.
Make(m, a, es) ==
    /\ live' = live \cup Range(m) \cup {a}
    /\ elems' = [ElemsWith(m) EXCEPT ![a] = es]

NoCopies == << >>

----------------------------------------------------------------------------
(***************************************************************************)
(* The collector                                                           *)
(***************************************************************************)

\* Mutants of ScannedGlobals and Roots: the loops start at 1.
ScannedFromOne(g)   == {g[i] : i \in {j \in DOMAIN g : j > 0 /\ \A k \in 0 .. j : g[k] # Null}}
RootsFromOne(st, top, g) == {st[i] : i \in 1 .. top - 1} \cup Constants
                            \cup {g[i] : i \in {j \in DOMAIN g : \A k \in 0 .. j : g[k] # Null}}

\* The globals gc() visits: it stops at the first null one.
ScannedGlobals(g) == {g[i] : i \in {j \in DOMAIN g : \A k \in 0 .. j : g[k] # Null}}
\* The objects gc() hands to gc_mark().
Roots(st, top, g) == {st[i] : i \in 0 .. top - 1} \cup Constants \cup ScannedGlobals(g)
\* Of those, the ones gc_mark() follows to write a mark.
Followed(roots)   == {v \in roots : v.type \in {"string", "array", "function", "wild"}}

DueWhenOver == TestMode \/ Len(heap) > cap      \* mutant of Due: collects too late
Due == TestMode \/ 5 * Len(heap) >= 4 * cap     \* size >= cap * 0.8

\* append_to_object_list(): doubles the capacity when the list is full.
AppendHeap(v) ==
    /\ heap' = Append(heap, v)
    /\ cap' = IF Len(heap) = cap THEN 2 * cap ELSE cap

\* gc_add() of the new object v on the machine its handler leaves behind; new are the
\* addresses the handler allocated.  With push, v is pushed after gc_add() returned.
\* The mark phase of gc() faults on an object whose memory is gone.
GcAdd(new, v, push) ==
    LET follow == Followed(Roots(stack', sp', globals'))
    IN  \/ /\ ~Due
           /\ AppendHeap(v)
           /\ marked' = Unmarked(new)
           /\ UNCHANGED ctl
        \/ /\ Due /\ \A r \in follow : r.at \in live'
           /\ marked' = [a \in Addr |-> a \in {r.at : r \in follow} \/ Unmarked(new)[a]]
           /\ pc' = "sweep" /\ at' = Len(heap)
           /\ pending' = [obj |-> v, push |-> push]
           /\ UNCHANGED list
        \/ /\ Due /\ \E r \in follow : r.at \notin live'
           /\ pc' = "fault"
           /\ UNCHANGED <<marked, list, at, pending>>

Fault   == pc' = "fault" /\ UNCHANGED <<store, marked, list, regs, at, pending>>
Overrun == pc' = "overrun" /\ UNCHANGED <<store, marked, list, regs, at, pending>>

\* One iteration of the loop of gc_sweep(), from the last entry down to the first:
\* errors are skipped, marked entries unmarked, the others freed.
Entry    == heap[at]
Sweeping == pc = "sweep" /\ at > 0

\* Mutants of SkipError and Unmark: the index or the mark stays as it is.
SkipErrorStays ==
    /\ Sweeping /\ Entry.type = "error"
    /\ UNCHANGED vars
UnmarkSkips ==
    /\ Sweeping /\ Entry.type # "error" /\ ~Dead(Entry) /\ marked[Entry.at]
    /\ at' = at - 1
    /\ UNCHANGED <<store, marked, list, regs, pc, pending>>

SkipError ==
    /\ Sweeping /\ Entry.type = "error"
    /\ at' = at - 1
    /\ UNCHANGED <<store, marked, list, regs, pc, pending>>

Unmark ==
    /\ Sweeping /\ Entry.type # "error" /\ ~Dead(Entry) /\ marked[Entry.at]
    /\ marked' = [marked EXCEPT ![Entry.at] = FALSE]
    /\ at' = at - 1
    /\ UNCHANGED <<store, list, regs, pc, pending>>

SwapKeep(s, i) == [s EXCEPT ![i] = s[Len(s)]]      \* mutant of SwapRemove
\* heap->values[i] = heap->values[--heap->size]
SwapRemove(s, i) == [j \in 1 .. Len(s) - 1 |-> IF j = i THEN s[Len(s)] ELSE s[j]]

FreeTree(T) ==
    /\ live' = live \ T
    /\ elems' = [a \in Addr |-> IF a \in T THEN << >> ELSE elems[a]]
    /\ marked' = Unmarked(T)

ReclaimEntryOnly ==      \* mutant of Reclaim: the elements stay allocated
    /\ Sweeping /\ Entry.type # "error" /\ ~DeadTree(<<Entry>>) /\ ~marked[Entry.at]
    /\ FreeTree({Entry.at})
    /\ heap' = SwapRemove(heap, at)
    /\ at' = at - 1
    /\ UNCHANGED <<cap, regs, pc, pending>>

Reclaim ==
    /\ Sweeping /\ Entry.type # "error" /\ ~DeadTree(<<Entry>>) /\ ~marked[Entry.at]
    /\ FreeTree(Tree(Entry))
    /\ heap' = SwapRemove(heap, at)
    /\ at' = at - 1
    /\ UNCHANGED <<cap, regs, pc, pending>>

\* The entry, or an element freed along with it, is not allocated any more.
SweepFault ==
    /\ Sweeping /\ Entry.type # "error"
    /\ Dead(Entry) \/ (~marked[Entry.at] /\ DeadTree(<<Entry>>))
    /\ Fault

\* gc_add() appends the new object, OPCODE_SLICE pushes it.
Register ==
    /\ pc = "sweep" /\ at = 0
    /\ AppendHeap(pending.obj)
    /\ IF pending.push
       THEN stack' = [stack EXCEPT ![sp] = pending.obj] /\ sp' = sp + 1
       ELSE UNCHANGED <<stack, sp>>
    /\ pc' = "run" /\ pending' = Idle
    /\ UNCHANGED <<store, marked, globals, frames, at>>

----------------------------------------------------------------------------
(***************************************************************************)
(* The instruction handlers of vm_run()                                    *)
(***************************************************************************)

Top(n) == stack[sp - n]      \* the n-th operand from the top, 1 is the top
Frame  == frames[Len(frames)]

\* The instruction bytes are those of the function of the current frame.
Running     == pc = "run" /\ ~Dead(Frame.fn)
Operands(n) == Running /\ sp - n >= Frame.floor
Room        == sp < StackSize          \* bound: no handler checks STACK_SIZE

FetchFault == pc = "run" /\ Dead(Frame.fn) /\ Fault

\* The n operands on top are popped and v is pushed.
Result(n, v) ==
    /\ stack' = Cut([stack EXCEPT ![sp - n] = v], sp - n + 1)
    /\ sp' = sp - n + 1
Popped ==
    /\ stack' = Cut(stack, sp - 1)
    /\ sp' = sp - 1

\* A handler whose result is no new object.
Plain(n, v) ==
    /\ Result(n, v)
    /\ UNCHANGED <<store, marked, list, globals, frames, ctl>>

\* A handler that replaces n operands by a new object without elements.
New(n, k) == \E a \in Fresh :
    /\ Make(NoCopies, a, << >>)
    /\ Result(n, Obj(k, a))
    /\ UNCHANGED <<globals, frames>>
    /\ GcAdd({a}, Obj(k, a), FALSE)

Const == \E c \in Constants : Running /\ Room /\ Plain(0, c)

\* OPCODE_TRUE, FALSE, NULL and GET_BUILTIN, and OPCODE_CONST of an integer.
Immediate == \E v \in {Prim, Null} : Running /\ Room /\ Plain(0, v)

\* OPCODE_POP; OPCODE_JUMP_NOT_TRUE pops its condition likewise.
Pop ==
    /\ Operands(1) /\ Popped
    /\ UNCHANGED <<store, marked, list, globals, frames, ctl>>

SetGlobal == \E i \in DOMAIN globals :
    /\ Operands(1) /\ Popped
    /\ "null_global" \in Features
         \/ (Top(1) # Null /\ \A j \in 0 .. i - 1 : globals[j] # Null)
    /\ globals' = [globals EXCEPT ![i] = Top(1)]
    /\ UNCHANGED <<store, marked, list, frames, ctl>>

GetGlobal == \E i \in DOMAIN globals : Running /\ Room /\ Plain(0, globals[i])

SetLocal == \E i \in Frame.base .. Frame.floor - 1 :
    /\ Operands(1)
    /\ stack' = Cut([stack EXCEPT ![i] = Top(1)], sp - 1) /\ sp' = sp - 1
    /\ UNCHANGED <<store, marked, list, globals, frames, ctl>>

GetLocal == \E i \in Frame.base .. Frame.floor - 1 :
    Running /\ Room /\ Plain(0, stack[i])

\* vm_do_call_function(): the locals above the arguments are whatever the stack held.
CallFunction == \E args, locals \in 0 .. MaxLocals :
    /\ Operands(args + 1)
    /\ Is(Top(args + 1), "function")
    /\ "late_local" \in Features \/ locals <= args
    /\ sp - args + locals <= StackSize
    /\ Len(frames) < FramesSize          \* bound: FRAMES_SIZE is not checked
    /\ IF Dead(Top(args + 1)) THEN Fault ELSE
       LET base == sp - args
       IN  /\ frames' = Append(frames, [fn |-> Top(args + 1), base |-> base,
                                        floor |-> base + locals])
           /\ stack' = Cut(stack, base + locals) /\ sp' = base + locals
           /\ UNCHANGED <<store, marked, list, globals, ctl>>

\* Mutant of Return: the result goes above the callee, not in its place.
ReturnAbove(v) ==
    /\ Len(frames) > 1
    /\ stack' = Cut([stack EXCEPT ![Frame.base] = v], Frame.base + 1)
    /\ sp' = Frame.base + 1
    /\ frames' = SubSeq(frames, 1, Len(frames) - 1)
    /\ UNCHANGED <<store, marked, list, globals, ctl>>

\* Only a function returns: a return at top level is left out.
Return(v) ==
    /\ Len(frames) > 1
    /\ stack' = Cut([stack EXCEPT ![Frame.base - 1] = v], Frame.base)
    /\ sp' = Frame.base
    /\ frames' = SubSeq(frames, 1, Len(frames) - 1)
    /\ UNCHANGED <<store, marked, list, globals, ctl>>
ReturnValue == Operands(1) /\ Return(Top(1))
ReturnNull  == Running /\ Return(Null)

\* Arithmetic, AND, OR and comparison of numbers and booleans, in place of the left one.
BinaryPrim == Operands(2) /\ {Top(1), Top(2)} = {Prim} /\ Plain(2, Prim)

DivideByZero == Operands(2) /\ {Top(1), Top(2)} = {Prim} /\ New(2, "error")

CompareStrings ==
    /\ Operands(2) /\ Is(Top(1), "string") /\ Is(Top(2), "string")
    /\ IF Dead(Top(1)) \/ Dead(Top(2)) THEN Fault ELSE Plain(2, Prim)

Concat ==
    /\ Operands(2) /\ Is(Top(1), "string") /\ Is(Top(2), "string")
    /\ IF Dead(Top(1)) \/ Dead(Top(2)) THEN Fault ELSE New(2, "string")

Bang == Operands(1) /\ Plain(1, Prim)

\* vm_do_minus_operation() negates the word of any object, a pointer included.
Minus ==
    /\ Operands(1)
    /\ "negate" \in Features \/ ~IsPtr(Top(1))
    /\ Plain(1, IF IsPtr(Top(1)) THEN Wild ELSE Top(1))

Args(n) == [i \in 1 .. n |-> Top(n + 1 - i)]      \* the n operands on top, in order

\* Mutant of Array: the operands themselves become the elements.
ArrayShares == \E n \in 0 .. MaxElems : \E a \in Fresh :
    /\ Operands(n) /\ (n > 0 \/ Room) /\ ~DeadTree(Args(n))
    /\ Make(NoCopies, a, Args(n))
    /\ Result(n, Obj("array", a))
    /\ UNCHANGED <<globals, frames>>
    /\ GcAdd({a}, Obj("array", a), FALSE)

Array == \E n \in 0 .. MaxElems :
    /\ Operands(n) /\ (n > 0 \/ Room)
    /\ IF DeadTree(Args(n)) THEN Fault
       ELSE \E m \in Copies(Args(n)) : \E a \in Fresh \ Range(m) :
            /\ Make(m, a, [i \in 1 .. n |-> Copy(m, i, Args(n)[i])])
            /\ Result(n, Obj("array", a))
            /\ UNCHANGED <<globals, frames>>
            /\ GcAdd(Range(m) \cup {a}, Obj("array", a), FALSE)

\* The operands are popped, and the new object is pushed only after gc_add().
Slice(k, es) == \E a \in Fresh :
    /\ Make(NoCopies, a, es)
    /\ IF Due THEN stack' = Cut(stack, sp - 3) /\ sp' = sp - 3
              ELSE Result(3, Obj(k, a))
    /\ UNCHANGED <<globals, frames>>
    /\ GcAdd({a}, Obj(k, a), TRUE)

\* build_slice_from_array(): the elements themselves, not copies of them.  For a start
\* before the first element see SliceUnderrun.
SliceArray ==
    /\ Operands(3) /\ {Top(1), Top(2)} \subseteq {Prim, Null} /\ Is(Top(3), "array")
    /\ IF Dead(Top(3)) THEN Fault
       ELSE LET es == elems[Top(3).at]
            IN  /\ "alias" \in Features \/ Ats(es) = {}
                /\ \E i \in 1 .. Len(es) + 1 : \E j \in i - 1 .. Len(es) :
                       Slice("array", SubSeq(es, i, j))

SliceString ==
    /\ Operands(3) /\ {Top(1), Top(2)} \subseteq {Prim, Null} /\ Is(Top(3), "string")
    /\ IF Dead(Top(3)) THEN Fault ELSE Slice("string", << >>)

\* A start more than the size before the end stays negative, and the loops of the two
\* functions begin there, before the first element (unless the end is no further).
SliceUnderrun ==
    /\ Operands(3) /\ Top(2) = Prim /\ Top(1) \in {Prim, Null}
    /\ Top(3).type \in {"array", "string"} /\ ~Dead(Top(3))
    /\ Overrun

\* An index that is no integer, or a left-hand side that is no array or string.
SliceError ==
    /\ Operands(3)
    /\ {Top(1), Top(2)} # {Null} \/ Top(3).type \notin {"array", "string"}
    /\ Slice("error", << >>)

\* The element itself is pushed: it stays the property of the array.
IndexGet ==
    /\ Operands(2) /\ Top(1) = Prim /\ Is(Top(2), "array")
    /\ IF Dead(Top(2)) THEN Fault
       ELSE \E i \in DOMAIN elems[Top(2).at] :
            /\ "borrow" \in Features \/ ~IsPtr(elems[Top(2).at][i])
            /\ Plain(2, elems[Top(2).at][i])

IndexGetChar ==
    /\ Operands(2) /\ Top(1) = Prim /\ Is(Top(2), "string")
    /\ IF Dead(Top(2)) THEN Fault ELSE New(2, "string")

\* Index out of bounds, index that is no integer, or nothing to index.
IndexGetError ==
    /\ Operands(2) /\ (Top(1) # Prim \/ ~Dead(Top(2)))
    /\ New(2, "error")

\* Mutant of IndexSet: the value itself is stored.
IndexSetShares ==
    /\ Operands(3) /\ Top(2) = Prim /\ Is(Top(3), "array") /\ ~Dead(Top(3))
    /\ \E i \in DOMAIN elems[Top(3).at] :
            /\ elems' = [elems EXCEPT ![Top(3).at][i] = Top(1)]
            /\ Result(3, Top(1))
            /\ UNCHANGED <<live, marked, list, globals, frames, ctl>>

\* The slot is overwritten with a copy of the value; what it held is not freed.
IndexSet ==
    /\ Operands(3) /\ Top(2) = Prim /\ Is(Top(3), "array")
    /\ IF Dead(Top(3)) \/ DeadTree(<<Top(1)>>) THEN Fault
       ELSE \E i \in DOMAIN elems[Top(3).at], m \in Copies(<<Top(1)>>) :
            /\ "drop" \in Features \/ ~IsPtr(elems[Top(3).at][i])
            /\ MakeCopies(m) /\ marked' = Unmarked(Range(m))
            /\ elems' = [ElemsWith(m) EXCEPT ![Top(3).at][i] = Copy(m, 1, Top(1))]
            /\ Result(3, Top(1))
            /\ UNCHANGED <<list, globals, frames, ctl>>

IndexSetError ==
    /\ Operands(3) /\ Top(2) = Prim /\ Top(3).type = "array" /\ ~Dead(Top(3))
    /\ New(3, "error")

----------------------------------------------------------------------------
(***************************************************************************)
(* Calls of built-in functions (builtins.c).  vm_do_call_builtin() copies  *)
(* the argument slots into a list of its own, replaces callee and arguments*)
(* by the result and registers it.                                         *)
(***************************************************************************)
Builtin(n) == Operands(n + 1) /\ Top(n + 1) = Prim

\* len, print, int and str_contains: no new object.  print walks all of its arguments.
BuiltinPlain == \E n \in 0 .. MaxLocals :
    /\ Builtin(n)
    /\ \/ DeadTree(Args(n)) /\ Fault
       \/ /\ \A i \in 1 .. n : ~Dead(Args(n)[i])
          /\ \E v \in {Prim, Null} : Plain(n + 1, v)

\* type and file_get_contents, and the error of any built-in.
BuiltinNew == \E n \in 0 .. MaxLocals, k \in {"string", "error"} :
    Builtin(n) /\ New(n + 1, k)

\* str_split: an array of new strings, at least the one after the last delimiter.
StrSplit ==
    /\ Builtin(2) /\ Is(Top(1), "string") /\ Is(Top(2), "string")
    /\ IF Dead(Top(1)) \/ Dead(Top(2)) THEN Fault
       ELSE \E n \in 1 .. MaxElems : \E m \in Injection(1 .. n, Fresh) :
            \E a \in Fresh \ Range(m) :
                /\ live' = live \cup Range(m) \cup {a}
                /\ elems' = [x \in Addr |->
                       IF x = a THEN [i \in 1 .. n |-> Obj("string", m[i])]
                       ELSE IF x \in Range(m) THEN << >> ELSE elems[x]]
                /\ Result(3, Obj("array", a))
                /\ UNCHANGED <<globals, frames>>
                /\ GcAdd(Range(m) \cup {a}, Obj("array", a), FALSE)

\* array_pop: the array shrinks and a copy of its last element is returned.
ArrayPop ==
    /\ Builtin(1) /\ Is(Top(1), "array")
    /\ IF Dead(Top(1)) THEN Fault
       ELSE LET es == elems[Top(1).at]
                v  == es[Len(es)]
            IN  /\ es # << >>
                /\ "drop" \in Features \/ ~IsPtr(v)
                /\ IF DeadTree(<<v>>) THEN Fault
                   ELSE \E m \in Copies(<<v>>) :
                        /\ MakeCopies(m)
                        /\ elems' = [ElemsWith(m) EXCEPT
                                        ![Top(1).at] = SubSeq(es, 1, Len(es) - 1)]
                        /\ Result(2, Copy(m, 1, v))
                        /\ UNCHANGED <<globals, frames>>
                        /\ IF IsPtr(v) THEN GcAdd(Range(m), Copy(m, 1, v), FALSE)
                           ELSE UNCHANGED <<marked, list, ctl>>

\* array_push: a copy of the value is appended.
ArrayPush ==
    /\ Builtin(2) /\ Is(Top(2), "array")
    /\ IF Dead(Top(2)) \/ DeadTree(<<Top(1)>>) THEN Fault
       ELSE \E m \in Copies(<<Top(1)>>) :
            /\ Len(elems[Top(2).at]) < MaxElems          \* bound
            /\ MakeCopies(m) /\ marked' = Unmarked(Range(m))
            /\ elems' = [ElemsWith(m) EXCEPT
                            ![Top(2).at] = Append(elems[Top(2).at], Copy(m, 1, Top(1)))]
            /\ Result(3, Prim)
            /\ UNCHANGED <<list, globals, frames, ctl>>

\* copy_object() makes the copy of an error with its text as the format: a conversion in
\* it (file_get_contents puts the name of a file there) reads arguments there are none of.
CopiesError(vs) ==
    /\ ~DeadTree(vs)
    /\ \/ \E i \in DOMAIN vs : vs[i].type = "error"
       \/ \E a \in Trees(vs) : \E j \in DOMAIN elems[a] : elems[a][j].type = "error"
CopyOverrun ==
    /\ \/ \E n \in 0 .. MaxElems : Operands(n) /\ CopiesError(Args(n))
       \/ /\ Operands(3) /\ Top(2) = Prim /\ Top(3).type = "array" /\ ~Dead(Top(3))
          /\ elems[Top(3).at] # << >> /\ CopiesError(<<Top(1)>>)
       \/ /\ Builtin(1) /\ Top(1).type = "array" /\ ~Dead(Top(1))
          /\ elems[Top(1).at] # << >>
          /\ CopiesError(<<elems[Top(1).at][Len(elems[Top(1).at])]>>)
       \/ /\ Builtin(2) /\ Top(2).type = "array" /\ ~Dead(Top(2)) /\ CopiesError(<<Top(1)>>)
    /\ Overrun

\* The error of file_get_contents holds the name of the file, which may be longer than
\* the 64 bytes make_error_object() sets aside; vsnprintf() may write 64 more.
NameOverrun ==
    /\ Builtin(1) /\ Top(1).type = "string" /\ ~Dead(Top(1))
    /\ Overrun

\* OPCODE_HALT ends vm_run(); vm_free() frees the heap list with all its values.
VmFree ==
    /\ Running /\ Len(frames) = 1
    /\ IF /\ ~DeadTree(heap)
          /\ \A i, j \in DOMAIN heap : i # j => Tree(heap[i]) \cap Tree(heap[j]) = {}
       THEN /\ FreeTree(Trees(heap))
            /\ heap' = << >>
            /\ pc' = "freed"
            /\ UNCHANGED <<cap, regs, at, pending>>
       ELSE Fault

----------------------------------------------------------------------------
Push    == Const \/ Immediate \/ GetGlobal \/ GetLocal
Store   == SetGlobal \/ SetLocal \/ Pop
Flow    == CallFunction \/ ReturnValue \/ ReturnNull \/ FetchFault \/ VmFree
Operate == BinaryPrim \/ DivideByZero \/ CompareStrings \/ Concat \/ Bang \/ Minus
Index   == Array \/ SliceArray \/ SliceString \/ SliceError \/ IndexGet \/ IndexGetChar
           \/ IndexGetError \/ IndexSet \/ IndexSetError
Call    == BuiltinPlain \/ BuiltinNew \/ StrSplit \/ ArrayPop \/ ArrayPush
Collect == SkipError \/ Unmark \/ Reclaim \/ SweepFault \/ Register
Beyond  == SliceUnderrun \/ CopyOverrun \/ NameOverrun

Next == Push \/ Store \/ Flow \/ Operate \/ Index \/ Call \/ Beyond \/ Collect

Spec     == Init /\ [][Next]_vars
FairSpec == Spec /\ WF_vars(Collect)

----------------------------------------------------------------------------
TypeOK ==
    /\ live \subseteq Addr
    /\ elems \in [Addr -> Seq(Object)]
    /\ marked \in [Addr -> BOOLEAN]
    /\ heap \in Seq(Pointers) /\ cap \in Nat \ {0}
    /\ stack \in [0 .. StackSize - 1 -> Object] /\ sp \in 0 .. StackSize
    /\ globals \in [0 .. GlobalsSize - 1 -> Object]
    /\ frames \in Seq([fn : Pointers \cup {Null}, base : Nat, floor : Nat])
    /\ pc \in {"run", "sweep", "freed", "fault", "overrun"}
    /\ at \in Nat
    /\ pending \in [obj : Pointers \cup {Null}, push : BOOLEAN]


\* The frames partition the stack from the bottom: callee slot, locals, operands.
FramesOK ==
    /\ frames # << >>
    /\ \A i \in DOMAIN frames :
         /\ frames[i].base <= frames[i].floor /\ frames[i].floor <= StackSize
         /\ i > 1 => frames[i].base > 0

\* What gc_add() still has to do is known exactly while a collection is on.
CtlOK ==
    /\ pc = "run" => pending = Idle
    /\ pc = "sweep" => /\ IsPtr(pending.obj) /\ at <= Len(heap)
                       /\ pending.push => sp < StackSize

\* No instruction and no collection follows a pointer to memory that is not allocated:
\* what the comment of gc() promises, "mark every object that is reachable", is enough
\* for programs that keep to the plain language.  This is about how long objects live.
\* The bounds of an object are another matter, and also a plain program leaves them, by
\* the steps of Beyond: nothing is said of what comes after one.
NoDanglingAccess == pc # "fault"

\* An address belongs to the heap list or to one array, never to both: gc_sweep() frees
\* an entry, free_object() the elements of one.  The entries are distinct objects that
\* are allocated, none of them a constant, and none an element; the object gc_add() is
\* about to append is neither yet.
HeapOwned ==
    /\ \A i, j \in DOMAIN heap : i # j => heap[i].at # heap[j].at
    /\ Ats(heap) \subseteq live
    /\ Ats(heap) \cap Elements = {}
    /\ Ats(heap) \cup Elements \subseteq HeapAddr
    /\ IsPtr(pending.obj) => /\ pending.obj.at \in live \cap HeapAddr
                             /\ pending.obj.at \notin Ats(heap) \cup Elements

\* Every element of an array is allocated and is an element of that array alone: all
\* that builds or extends an array copies (vm_build_array, array_push, OPCODE_INDEX_SET).
SoleOwner == pc # "fault" =>
    /\ \A a \in live : Ats(elems[a]) \subseteq live
    /\ \A a, b \in live : \A i \in DOMAIN elems[a], j \in DOMAIN elems[b] :
         IsPtr(elems[a][i]) /\ elems[a][i].at = elems[b][j].at => a = b /\ i = j

\* No array contains itself, at any depth: INDEX_SET and array_push store copies, so that
\* the recursions of free_object(), copy_object() and print_object() end.
NoCycles == \A a \in Elements : a \notin Below(a)

\* During a sweep the entries above the index are examined: unmarked, or errors.
SweptUnmarked == pc = "sweep" =>
    \A i \in at + 1 .. Len(heap) : heap[i].type = "error" \/ ~marked[heap[i].at]

\* A mark that a collection left behind keeps garbage for one more collection: between
\* instructions at most one registered object carries one, the object registered by the
\* last collection, which was marked on the stack before it was appended.
OneStaleMark == pc \in {"run", "freed"} =>
    \A i, j \in DOMAIN heap :
        heap[i].type # "error" /\ heap[j].type # "error"
            /\ marked[heap[i].at] /\ marked[heap[j].at] => i = j

\* gc() and gc_add() leave the marks as the next collection expects them: the sweep takes
\* back what the mark phase set, entry by entry, and one mark at most outlives it.
Marks == SweptUnmarked /\ OneStaleMark

\* The memory the program can reach: stack, constants, all globals, the function being
\* run, the object being registered, and the elements of all those.
InUse == UNION {Tree(v) : v \in {stack[i] : i \in 0 .. sp - 1} \cup Constants
                     \cup Range(globals) \cup {pending.obj}
                     \cup {frames[i].fn : i \in DOMAIN frames}}

Managed == INSTANCE ManagedHeap WITH
    allocated <- live, inUse <- IF pc = "freed" THEN {} ELSE InUse

\* The machine implements garbage-collected memory for the plain language: gc() frees
\* nothing the program can reach, and no instruction brings freed or abandoned memory
\* back into its reach.
ManagedSpec == Managed!Spec

\* gc.c:85: "traverse VM constants, stack and globals and mark every object that is
\* reachable": the sweep frees nothing the program can still reach.
CollectsOnlyUnreachable == [][Reclaim => Tree(Entry) \cap InUse = {}]_vars

\* The slots and globals the collector traverses point to allocated memory: there is
\* nothing else that "mark every object that is reachable" (gc.c:85) can mean.
NoDanglingRoot == pc = "run" =>
    \A v \in Roots(stack, sp, globals) : IsPtr(v) => v.at \in live

\* object.c:162: freeing an array leaves its elements allocated, for the collector.
ElementsOutliveArray ==
    [][Reclaim /\ Entry.type = "array" => Ats(elems[Entry.at]) \subseteq live']_vars

\* When nothing was popped from or replaced in an array, vm_free() gives back all the
\* memory the program allocated: every object is registered, or owned by one that is.
TeardownClean == pc = "freed" => live = Strings \cup Procs

\* The heap list grows only as a last resort: right after a collection that could not
\* bring it below its capacity.
GrowsAfterSweep == [][cap' # cap => pc = "sweep"]_vars

\* Every collection ends: the index of gc_sweep() goes down with every entry it
\* examines, freed or not.
CollectionEnds == pc = "sweep" ~> pc # "sweep"
=============================================================================
