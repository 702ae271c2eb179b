# Pepper: specifications, checks and proofs

TLA+ specifications of the Pepper interpreter (`src/`): its lexer and parser feed a
single-pass compiler whose byte code a stack machine executes over memory of its own,
kept by a mark-and-sweep collector. The specifications are translated from the C
sources. `PROJECT.json` names the lines each definition stands for.

All paths below are relative to the repository; `vm.c` is `src/src/vm.c`, and so on.

## 1. The system

Pepper is one process with one thread. What is hard about it is not scheduling but
*reachability*: which objects the machine can still get at when a collection runs, who owns
an array's elements, which jump a placeholder becomes, and how many temporaries are on the
stack when control arrives somewhere. A program takes many steps before a mistake in any of
these shows, and it shows far from its cause.

| component | state | operations | used by |
|---|---|---|---|
| lexer (`lexer.c`) | position, line, column | `gettoken` | parser |
| parser (`parser.c`) | current and next token, error list | statements, Pratt expressions | compiler |
| symbol table (`symbol_table.c`) | chained hash table per scope, number of names | define, define built-in, resolve, enclose | compiler |
| compiler (`compiler.c`) | stack of scopes, each with code and its last two instructions; constants | compile program, statement, expression; patch jumps; enter, leave scope | runner |
| op codes (`opcode.c`) | the byte buffer of a scope | encode, read and list instructions; grow the buffer | compiler, machine |
| machine (`vm.c`) | stack, frames, globals, constants, heap list | one handler per op code; `vm_new`, `vm_run`, `vm_free` | runner |
| objects (`object.c`) | allocated objects, lists | make, copy, free, append | machine, built-ins |
| collector (`gc.c`) | marks, heap list | `gc_add`, `gc`, `gc_mark`, `gc_sweep` | machine |
| built-ins (`builtins.c`) | list of arguments | `print`, `len`, `array_push`, ... | machine |
| runner (`pepper.c`) | REPL: symbol table, constants and globals kept across lines | `repl`, `run_script` | user |

How they interact. The compiler walks the tree and emits code; names become slots through
the symbol table, whose table count and the stack of compiler scopes go up and down
together. The machine executes the code: a handler pops its operands, makes its result and
hands it to `gc_add()`, which may run a collection *within* the handler, when some operands
are popped and the result may or may not be pushed. The collector's roots are the stack
below the stack pointer, the constants and the globals; frames are not roots. Elements of
an array are not on the heap list: they live and die with the array, so everything that
stores into an array copies. In the REPL one table, one list of constants and one array of
globals go from line to line while compiler and machine are made anew.

What makes each component correct:

* **Memory**: nothing reachable is freed, no pointer to freed memory is followed, nothing is
  freed twice, every allocation is given back in the end; arrays contain no cycles;
  collections end and come before the list grows.
* **Symbol table**: lexical scoping; slots dense from zero, since the machine reserves
  `size` slots for locals; a slot compiled once keeps its meaning on later REPL lines.
* **Compiler and machine together**: what runs is what the tree means, one stack height
  per instruction on every path, no jump out of the code or placeholder left, loops that
  end on their own do end.
* **Op codes**: the bytes are the instructions the compiler means, whatever is taken back
  and patched afterwards; the buffer never overflows; operands are not taken for opcodes.
* **Parser**: precedence and associativity; no token dropped; an error reported before
  memory is mishandled; the way back to the next statement; an end on every input.
* **Lexer**: the longest lexemes, at their positions, and none of an earlier line.
* **REPL**: a line means what it means after the lines before it, and a line that fails
  leaves names, constants and globals the next ones can live with.

`PROJECT.json` lists the hazards, each with its line and the properties that cover it.

## 2. What is modelled

### Memory: `ManagedHeap`, `VmHeap`, `MCVmHeap`; `VmHeapProofs`, `OwnershipProofs`, `ReachabilityProofs`

`VmHeap` is the machine with its handlers, its objects and its collector. It runs *any*
program: every instruction is possible whenever the compiler could have put its operands
above the locals of the current frame (`Frame.floor`). One handler is one action. A
collection is a loop of its own (`pc = "sweep"`, index `at` counting down), one action per
entry of the heap list, and `Register` is the append with which `gc_add()` ends.

| TLA+ | C |
|---|---|
| `live` | what is allocated and not freed |
| `elems`, `marked` | `object_list.values` of an array, `gc_meta.marked` |
| `heap`, `cap` | `vm->heap->values`, `vm->heap->cap` |
| `stack`, `sp`, `globals`, `frames` | fields of `struct vm`; a frame's `floor` is the base pointer plus `num_locals` |
| `at`, `pending` | `i` of `gc_sweep()`, the argument of `gc_add()` |
| `Tree(v)` | what `free_object()` and `copy_object()` walk |
| `Copies`, `Make`, `MakeCopies` | `copy_object()`: fresh addresses for a whole tree |
| `Roots`, `Followed`, `GcAdd` | the mark phase of `gc()` and the calls around it |
| `SkipError`, `Unmark`, `Reclaim`, `SweepFault` | the cases of the loop body of `gc_sweep()` |
| `SliceUnderrun`, `CopyOverrun`, `NameOverrun` (`Beyond`) | a slice that starts before its array or string; the text of an error as a format; a file name longer than its error has room for |

Payloads are abstracted: an object is a type and an address; integers, booleans and
built-ins are one type, `prim`. Two kinds of access are undefined behaviour, and the machine stops
after either. One follows a pointer to memory that is not allocated (`pc = "fault"`); this is
about how long objects live, which is what the module is for. `malloc()` never returns an address
that something still points to, so that a stale pointer stays recognisable; real
allocators do reuse such addresses, which would turn a fault into a wrong object.

The other leaves the bounds of an object that *is* allocated (`pc = "overrun"`). Plain programs do
this too, in the three steps of `Beyond`:

* `SliceUnderrun`: the functions behind `build_slice()` (`vm.c:388`, `vm.c:407`) do not clamp a negative
  start. `[1, 2][-5:]` begins at -3 and reads `source->values[-3]`.
* `CopyOverrun`: `copy_object()` passes the text of an error as the format of
  `make_error_object()` (`object.c:122`).
* `NameOverrun`: `make_error_object()` sets aside 64 bytes for all expansions and lets `vsnprintf()` write
  64 more (`object.c:84-90`), while the error of `file_get_contents` has the name of a file in it
  (`builtins.c:179`).

Whether such a step is defined depends on numbers and texts the model leaves out, so each
is a possible outcome beside the defined one. Nothing is said of a program after it: **the
properties of memory hold up to the first such access**, for they say what the collector and the owners of
elements do, and that no index is out of bounds is not among them.

The constant `Features` says which constructs a program uses that give it pointers the
collector does not expect (`null_global`, `late_local`, `borrow`, `alias`, `drop`, `negate`; each is
explained at its definition). With `Features = {}` a program keeps to the plain language,
where no pointer dangles; with a feature, the properties that fail are findings or are
stated in the hazards. Splitting by feature keeps every claim sharp: a property that holds
for the plain language is not blurred by a construct known to break it. It also bounds the claim: no
property of a run with `Features = {}` speaks about a hazard that takes a feature.

`ManagedHeap` is what a program expects of garbage-collected memory: it reaches only what
it reached before or what was made for it, reaching implies allocated, and reclaiming takes
only what it cannot reach. `VmHeap!ManagedSpec` is that specification with `inUse`
instantiated by all the program can reach.

### Symbol table: `LexicalScopes`, `SymbolTable`, `MCSymbolTable`, `SymbolTableProofs`

`SymbolTable` has the chained hash tables of the open scopes and what the compiler and the
REPL do with them: `DefineBuiltin` (one iteration of `define_builtins()`), `Define`,
`Enter`, `Leave`, and `NewLine`, which keeps the outermost table and drops the others, at
whatever depth the line before ended, with an error or not. `LexicalScopes` says what
scoping means, without tables: a scope starts from a copy of the names around it, its own
declarations hide them, and slots count up from zero. `ResolvesLexically` is the refinement.

Names are those the macro `hash()` is defined for (first letter lower-case).

### Front end: `Syntax`, `Grammar`, `Parser`, `Parsing`, `MCParsing`

`Syntax` has the constructors of syntax trees that parser, compiler and reference
evaluator share. `Parser` is `parser.c`: each parsing function is an operator from a
parser to the parser it leaves behind and what it built; the record `p` is
`struct parser` (its tokens, where it stands, the number of errors), plus `undefined`,
which says that memory was freed twice or through a pointer never set, and `status`, which
is `"crashed"` once NULL has been dereferenced. The error paths are all there: what is
skipped, what is freed, and what half-built thing goes back to the caller. `Parsing` is the
loop of `parse_program()`, one turn a step. Tokens are their texts; positions and the
wording of messages are left out.

`Grammar` is the reference and goes the other way: from a tree to the tokens that stand for
it, with parentheses exactly where the precedences ask for them. `RoundTrip` says that the
parser undoes it.

### Lexer: `Lexer`, `Lexemes`, `MCLexer`, `LexerProofs`

`GetToken` is `gettoken()`, on the buffer the REPL reads its lines into, where what an earlier,
longer line left stands behind the terminator. `NextToken` is the parser's one token of
look-ahead, `ReadLine` is `fgets()` and a new lexer. The loops over space, strings and words, and
the call by which `gettoken()` starts again after a comment, are stated by where they end:
`TokenStart` is the first character that is no space and in no comment (`Commented`),
`StringEnd` and `RunEnd` are the last characters of a string and of a word. No operator is
recursive, which is what lets `LexerProofs` reason about all of them.

A lone `|` or `&` assigns nothing to its token: the type of the older token in that struct stays,
and if that was a string its `start` and `end` stay too (the field `body`), so that the
parser copies the older string once more. `Walk` is the set of characters that
`parse_string_literal()` stands on while it copies one.

`Lexemes` is the reference: a declarative definition of what a lexeme is, and a line cut into
the longest ones.

### Byte code: `Encoding`, `MCEncoding`, `EncodingProofs`

The buffer of one scope and everything the compiler does to it: `Emit` (`EmitPlain`,
`EmitJump`; the growth of the buffer included), `RemoveLast`, `ReplaceLast`,
`ChangeOperand`, and the walk over a loop's body in steps of its own (`StartWalk`,
`WalkOn`). The order of the operations is arbitrary within what the compiler can ask for. A
variable `code` keeps, besides the bytes, the instructions they are meant to be; the properties
compare the two. In `MCEncoding`, `Listing` is `instruction_to_str()`, read back from the bytes.

### Control: `Values`, `Compiler`, `Machine`, `Execution`, `Activations`, `Language`, `ControlFlow`, `MCControlFlow`; `ExecutionProofs`, `ActivationProofs`

`Compiler` is `compile_program()` and all below it as operators on a record that holds the
scopes, the constants and the error of a `struct compiler`: emission, the two-deep memory of
the last instructions, removal and replacement, jump placeholders and their patching. It
starts from the state of an earlier compiler as well (`CompilerWithState`), reports an
unknown name, exits on the assignment to a built-in, and crashes on an expression that is
missing.
`Machine` is `vm_run()`: one action for each group of op codes that work alike, on the code
the compiler made. An instruction without a defined effect (an operand below the stack, a
call of no function, a jump out of the code, an unpatched placeholder, a slot beyond the
stack or a frame beyond the last) is no step at all, so being stuck is a violation.
`Execution` starts `Machine` on some code (`NewMachine` is `vm_new()`) and runs it (`Run`);
`heights` records the height of the stack above the frame at every instruction ever reached.
It also has a *verifier* of code, which the repository has not: `Points` follows
every path from the entry of each function, whatever the values would be, and `Verified` says that on each of
them every instruction finds its operands above the locals, at one height per instruction, that
jumps stay within the function, and that locals, globals and constants exist. It states what
`vm_run()`, which checks nothing, expects of `compiler.c`.
`Activations` is what the machine promises to the compiler, without a stack: a sequence of
calls, each with variables and operands of its own. An instruction works on those of the last call;
a call moves its arguments into a new one, a return hands its value to the one before. Variables that
are no parameters begin with any value, as they do in the code. `CallsApart` says that `Machine` implements it, each
call reading its variables and operands off the one stack (`Activation`): from its base on, up to
the callee below the next frame. What the abstract machine does only under a condition the real
one does not test (`Has`, an index of a variable the function has, a first call that is the
program's) the real one meets because the code is verified.
`Language` is a reference evaluator: a fold over statements with
a flow (`next`, `break`, `continue`, `return`), with neither code nor stack.
`ControlFlow` composes them: the initial states compile each program of the constant
`Programs`, and the steps run it.

Positions are counted in instructions; `Encoding` has them in bytes.

### Session: `Repl`, `MCRepl`

`Repl` composes `Compiler`, `Machine` and `Language` over the lines of a session. A line ends
in one of the ways of `repl()`: `ParseError`, `CompileError`, `Exit`, or `StartLine`, some
`Execute` steps, and `Answer`. What is kept between lines is what the code keeps: the names
and constants, which a compiler adds to even when it fails later in the line, and the
globals, which are copied into each machine and out again after it has halted. `meaning`
carries the reference evaluator along. The globals of a session start out uninitialised
(`Stale`), as the array in `repl()` does; a read of one that was never written is the
action `Stray`, after which the session is not followed.

## 3. The runs

| run | question | result |
|---|---|---|
| `plain` | With a collection at every allocation, does a plain program ever follow a pointer to freed memory? | no (`NoDanglingAccess`; its accesses may leave the bounds of an object, `Beyond`); no array contains itself, and the machine implements `ManagedHeap` |
| `arrays` | With arrays of two elements, nested ones included, who owns what? | every element has one owner; `vm_free()` gives back everything |
| `exposed` | What of the collector's bookkeeping survives a program that does anything it likes? | the list stays duplicate-free and apart from elements, marks are consistent |
| `threshold` | Does the release build, which collects at 80 %, collect before it grows? | yes, and every collection ends |
| `gap` | `gc.c:85`: is every reachable object marked? | no: the scan of globals stops at the first null one |
| `scopes` | Do hash chains and the walk outwards implement lexical scoping, across REPL lines? | yes, with dense slots and stable bindings |
| `control` | Do compiled programs do what they mean, is their code in order on every path (`CodeVerified`), do calls leave each other's part of the stack alone (`CallsApart`), and does anything but the limits of the machine stop them? | yes, yes and yes, for all 1101 programs, and no |
| `iflet` | `compiler.c:535`: does a loop pop null or the value of the last turn? | not if the turn ends in an `if` whose block is empty or ends in `let`; the verifier refuses that code |
| `parsing` | Is what the grammar writes parsed back, and what does the parser do with anything else? | it is; other input ends in a reported error or in a tree with every token, apart from a semicolon for an operand |
| `lexing` | Is a line cut into its longest lexemes, at the right positions, whatever the buffer held? | yes, for lines whose strings are closed; positions as long as no string has a newline |
| `encoding` | Do the bytes stay the code that is meant, through growth, removal, patching and the walk over a loop? | yes, for code shorter than the placeholders |
| `session` | Does each line of a session mean what it should after the lines before it, failed ones included? | yes, but for lines that use a name a failed line left defined |

The runs that expect a violation show disagreements between the code and its own comments;
each is in `findings`.

### Disagreements outside the runs

The project was also checked under the configurations below, each of which has a
counterexample to the one property it names. They are kept for whoever changes the code
there; `tlc -config <cfg> <module>` shows each in less than a minute. No configuration has the
feature `drop`, where elements that are heap objects are replaced and popped: what holds there is
proved (`NeverDangling`, `ImplementsManagedHeap`).

| configuration | the code or its comments | what happens |
|---|---|---|
| `MCVmHeap_locals.cfg` (`NoDanglingRoot`) | `gc.c:85` marks what is reachable on the stack | locals other than parameters start as what earlier calls left in their slots, freed objects included |
| `MCVmHeap_elements.cfg` (`ElementsOutliveArray`) | `object.c:162` says that elements outlive their array | they are freed with it |
| `MCControlFlow_return.cfg` (`AgreesWithSource`) | `compiler.c:238` has the value of a `return` optional | without one nothing is compiled, control falls through |
| `MCControlFlow_stray.cfg` (`NeverStuck`) | `break` and `continue` leave placeholders for the loop around them | without a loop the placeholder is the target of the jump |
| `MCControlFlow_redefine.cfg` (`AgreesWithSource`) | `let` defines a name | of a built-in it stores into a slot of the operands |
| `MCParsing_clean.cfg` (`CompilesWhatIsClean`) | `parser.c:714` ignores a semicolon in the place of an expression | no error, and the compiler dereferences NULL |
| `MCParsing_crash.cfg` (`NeverCrashes`) | after an error the parser skips and goes on (`parser.c:839`) | within an operand it first reads the type of NULL |
| `MCParsing_names.cfg` (`ParametersAreNames`) | `parser.c:639`: parameters are names | any token is taken for one |
| `MCLexer_positions.cfg` (`PositionsTrue`) | tokens carry their line (`lexer.c:73`) | newlines in strings are not counted |
| `MCEncoding_marks.cfg` (`JumpsGoWhereMeant`) | a jump whose position is found goes there | if the position equals a placeholder, the walk patches it again |
| `MCRepl_globals.cfg` (`GlobalsAreInitialised`) | `vm.c:81` has the globals null | those of a session come from an uninitialised array |
| `MCRepl_constants.cfg` (`ConstantsFit`) | constants are copied into an array of 64 | those of a session accumulate beyond it |

### Bounds

* `VmHeap`: three or four heap addresses, a stack of three slots, up to two frames, at most
  two elements. This is what the interesting cases take: an array, its element and an object
  made from them; an operand below, one being replaced and one on top; a caller and a callee.
  Every allocation collects in the `TEST_MODE` build, so a collection meets every
  arrangement of few objects, and marks, ownership and freeing concern at most two
  objects at a time. `Room` and `FramesSize` bound the stack and the calls: no handler
  checks `STACK_SIZE`, and what lies beyond is undefined. Constant functions and strings are
  empty in `arrays`, where they would only multiply states. Heap addresses are
  interchangeable, hence the symmetry set; `threshold` checks liveness and has none.
* `SymbolTable`: four names in two chains, two of them built-ins (each shares its chain with
  a variable), three scopes, three names of its own in a scope. Insertion and lookup
  concern two keys of one chain and one of another.
* `ControlFlow`: the programs of `MCControlFlow` combine `for` and `while` with every pair of
  statements in a body (`break`, `continue`, output, increments, `let`, `if` with and
  without `else`), loops in loops, loops in `if`s, functions that return out of a
  loop, recursion, and statements taken from the repository's tests. Loops make two or three
  turns: first, middle and last turn differ. A stack of 24 slots and six frames are more
  than any of them needs, but for seven that recurse for ever in different ways and are there
  to meet the limits.
* `Parsing`: trees with every operator and every construct in each place of each other one,
  and three deep for the operators, whose precedences decide between two neighbours at a
  time; every sequence of up to four tokens out of three sets; and every program made of four large
  ones by dropping, doubling or replacing one token, with and without a statement behind it.
* `Lexer`: all texts of up to four characters out of ten, up to five out of those that
  matter within strings and within words, with words of at most four characters instead of
  64; all short lines behind two longer ones, for what the buffer still holds; and all short ends of a line
  that begins with a string, for a lone `|` that repeats its token.
* `Encoding`: bytes of five values instead of 256, so that two-byte operands and their
  truncation are within reach; one opcode of each shape; seven bytes of code, which is two
  jumps and one more, or the last byte before the buffer (of four) grows and the first one
  after. The placeholders (23 and 22) lie beyond the code, as 9999 does in all but very
  long programs.
* `Repl`: all sessions of up to three out of sixteen lines and longer ones that begin with a
  definition and end in a call, two globals. A defect that crosses lines takes one that defines,
  one that fails or redefines, and one that uses.

### Deadlock

`CHECK_DEADLOCK FALSE` stands where the system stops: the machine after `OPCODE_HALT`,
`vm_free()`, a fault or an overrun, the parser and the lexer at the end of the input, the compiler when
its code has the size of the bound, a session after its last line. Where stopping early
would be an error a property excludes it: `StuckOnlyAtLimits` in `control`, `NeverStuck`
in `session`; every parser or lexer state that is not at its end has a step by definition.

### Fairness

* `WF_vars(Collect)` (`threshold`): `gc_sweep()` is a loop in the only thread; nothing can
  preempt it.
* `WF_vars(Next)` (`control`): `vm_run()` dispatches one instruction after another until
  `OPCODE_HALT`.

The loop of the parser needs no fairness to be shown to end: `EachTurnConsumes` bounds its
turns by the tokens behind it, which is stronger than that it ends.

## 4. What is proved

`VmHeapProofs` proves, for all values of the constants — any number of addresses, any stack,
frame, list and array size, both builds, and **any** set of features:

* `TypesHold`: registers, stack, frames, heap list and elements keep their types;
* `RegisteredOwned`: the heap list has no duplicates, only allocated addresses, no
  constants and no elements of arrays. So the sweep never meets an entry through another;
* `NoCyclicArrays`: no array contains itself at any depth, so `free_object()`,
  `copy_object()` and `print_object()` end.

The argument. `TypeOK` is not inductive: a frame's `floor` must stay on the stack for a
store to stay in range (`FramesOK`), and a collection that will push must leave room
(`CtlOK`). `HeapOwned` is not inductive either: that a copy is off the list and in no array
needs that every address of a copied tree gets a distinct fresh one. `NoCycles` becomes
inductive as `Acyclic`: any non-empty set of elements has a member none of whose elements
is in it. The invariant `Inv` puts
them together: `Regs` (registers and frames), `Memory` (types of the store, elements known,
no cycles) and `Registry` (`HeapOwned` and `CtlOK`). One lemma per action, or per group of
actions with one shape: `Grows` for handlers that allocate, `Shrinks` for those that free,
`Quiet` for the rest, `GcAddKeeps` for the three outcomes of `gc_add()`. The lemmas
`BelowOK`, `TreeOK`, `CopyElems` and `CopiesAcyclic` say what trees and their copies are:
`Below` is defined as a least closed set, so that no induction over data is needed.

It also proves, again for any features, what the bookkeeping of `gc.c` promises:
`MarksTakenBack` (what a sweep has passed is unmarked, and at most one mark outlives it) and
`GrowsOnlyAfterSweep`. `Marks` is inductive on top of `Inv`. Every handler has one of four effects on the marks (`Effect`):
it leaves them but for fresh objects, it hands one object to `gc_add()` (`Adds`), or it frees; what
the mark phase marks is then unmarked again entry by entry, because the heap list has no duplicates.

`OwnershipProofs` proves `ElementsSolelyOwned` for every program that slices no array of heap objects
(the feature `alias`; `MCVmHeap_exposed.cfg` does not claim `SoleOwner`, since a slice has elements of another
array). `Own` says it without types: what an address in use has as elements is in use, and no address is in two slots
(`OneSlot`). Each handler changes the elements in one of few ways, which are the
lemmas of the module: a fresh tree, a copy put into a slot, a last element taken out, two
halves of a string. `Shape` then says of any step which of these shapes it has, so that the later
modules need not look at the handlers again: it registers an object (`Registering`), rewrites an
array in place (`Rewriting`), frees (`VmFree`, `Reclaim`), or leaves the store alone.

`ReachabilityProofs` proves what a reader most wants of a garbage collector, for the plain language and for
programs that pop or replace heap objects in arrays (`Features \subseteq {"drop"}`):

* `NeverDangling`: no handler, no collection and no `vm_free()` follows a pointer to memory that is not
  allocated, up to the first access outside the bounds of an object (`Beyond`), which plain programs
  can make;
* `CollectsUnreachable`: the sweep frees nothing the program can reach, in whatever state the
  program is when the collection comes;
* `ImplementsManagedHeap`: the refinement of `ManagedHeap`, step by step;
* `TeardownFreesAll`: `vm_free()` leaves nothing but the constants, in the plain language (a
  dropped element leaks).

The hypothesis on `Features` is as wide as the code allows: each other feature has a
counterexample (`null_global` in the run `gap`, `late_local` in `MCVmHeap_locals.cfg`, a borrowed element
in `MCVmHeap_elements.cfg`; an alias frees twice, a negated pointer is none). The invariant is `Sound`. Its parts are
the reasons why the roots of `gc()` suffice, none of which the code states:

* words of the program point to registered objects, to constants, or to the one object being registered
  (`Words \subseteq Known`): elements are never in a slot of the stack, and a heap object that is
  in none is an element of one that is;
* no uninitialised slot is read, and no array has one for an element (`Tame`);
* `Windows`: the function a frame runs stays in the slot below the frame's locals, although
  the callee is long popped as an operand. That slot is on the stack, so `gc()` marks it; the operands of one frame end
  below the callee of the next;
* `Dense`: no null global comes before one in use, so that the scan of `gc.c` does not stop early;
* `Ahead`: during a sweep the entries still to come that the program can reach are marked. This is what
  the mark phase establishes, what `Unmark` keeps, and what `Reclaim` needs.

`Own` gives the other half: what an unreachable entry frees besides itself is its own, hence
unreachable as well. For the steps the proof sorts instructions by `Kind`: the
words shrink (`Gentle`) or gain one fresh object (`Fresher`), which is also what refining
`ManagedHeap!Work` takes. For `TeardownFreesAll` the invariant `Kept` says that all memory in use is a
constant or in the tree of a registered object, in the plain language, in which no element ever loses its array.

`SymbolTableProofs` proves, for any names, any hash function, any list of distinct built-ins
and any depth:

* `TablesTyped` and `SlotsDense`: the slots of a scope's names are exactly the numbers below
  its size, the number `compiled_function.num_locals` is made from;
* `BindingsKept`: no step gives another symbol to a name that has one, `define_builtins()`
  running again on each line of the REPL included;
* `ScopingImplemented`: `SymbolTable` implements `LexicalScopes`, that is, hashing,
  chaining and the walk along `t->outer` are lexical scoping.

Its invariant adds `Provided` to `TypeOK` and `DenseIndices`: a built-in's name has, in the
outermost table, its own symbol or none, and has it once `define_builtins()` has passed it.
Without it a second `define_builtins()` might overwrite a variable. All rests on `GetInsert`
(`hashmap_insert()` changes what `hashmap_get()` finds for that key only), which
splits into a chain that has the key (`OverwriteOK`) and one that has not (`PrependOK`), and on
`ResolveStep`, the recursion of `symbol_table_resolve()`. Each action refines one action of
`LexicalScopes` (`DefineBuiltinRefines` to `NewLineRefines`).

`EncodingProofs` proves, for any base, opcodes and widths, placeholders, initial capacity above
three, and bound on the size of the code:

* `TypeCorrect`, `NeverOverrun` (the code never exceeds the buffer), `WalkAligned` (the walk over
  a loop's body stands on the first byte of an instruction, always) and `LastIsLast` (the
  last instruction the compiler remembers is the last one);
* `CodeIsEncoded`: as long as the code stays below the smaller placeholder, the bytes are the
  instructions the compiler means, jumps patched by a walk included. The hypothesis is needed:
  `MCEncoding_marks.cfg` shows what happens without it.

The invariant `Layout` puts the instructions one behind the other, without gap, each opcode
where `code` says, and ties `last`, `previous` and the walk to them; it is inductive by itself. `Coded`
adds the operands, and that the operand of a jump that waits for its target is a
placeholder, which no position can equal. Positions are compared across the whole sequence,
so the proof first shows that they increase along it (`Ordered` in `Layout`), which gives that a
write to the operand of one instruction touches no other.

`LexerProofs` proves, for any alphabet, any keywords, any bound on the length of a word, and any
sequence of lines of any length:

* `LexerTyped`: the lexer stays within one position of the end of its buffer;
* `NothingStale`: as long as strings are closed, the parser never stands on what an earlier line left;
* `PlacesTrue`: until a string with a newline in it has been read, every token knows the line and
  column it begins at, however the newlines, comments and spaces before it were skipped;
* `CopyingStops`: copying a string ends at its closing quote, whatever backslashes are in it;
* `LongestTaken`: the tokens of a line are its longest lexemes (`Lexemes`), all of them and in order, with
  their types, however many comments are between them.

The lemmas up to `GetTokenOK` say what one call of `gettoken()` finds from any position: a
character that is not space before any terminator (`Finds`), line and column (`Places`), the type and
what stays of the old token (`Sorts`); `ReadOK` says what that means for the next call. The
properties are about the token the parser stands on, but it was read two calls before,
so the invariant is about three positions at once: the current token, the next one and the
lexer (`Placed`, `Inside`, `Located`), and what is known of the lexer holds only if the *next* token is no
open, or folded, string either. `Stored` says what `fgets()` leaves in the buffer: the
line, a terminator, and, at the very end, a terminator again, without which an open string would
have no end to run to. `Bodied` says that the text of a string, including one that a lone `|` repeats, is followed by
the end of the buffer or a quote with no backslash before it: the fact that keeps an escape from
straddling the end (`WalkStops`).

`LongestTaken` relates two definitions that work differently: `Lexemes` cuts the text of a line into
the longest words of a given form, blank ones included; `gettoken()` skips, looks at a
character or two and runs to an end. First, the cut is a recursive function on the positions of the line; that there is one is
shown with a least number for which there is none (`CutExists`), which needs no induction over data. Then, the
word the lexer reads is the longest lexeme at its start, kind by kind (`StringEnds`, `WordEnds`,
`OtherEnds`: at each further character no form fits any more), and its type is the word's (`TypeAgrees`). What is skipped is
blank in the cut, space by space and comment by comment (`CutSkips`, down to the last position for which it could fail). `NextOK` puts these together:
where the lexer stands, the cut that is left begins with the token read next. The invariant
`Listing` says so for the three positions of parser and lexer; it is about lines whose lexemes
all have a token (`Closed`).

`ExecutionProofs` proves, for any code that passes the verifier, and for a stack, frames and globals of
any size:

* `ExecutionTyped`: the machine stays at instructions of its code, and each frame begins above that of its
  caller. That `sp` and the number of frames stay below their sizes, which is part of `TypeOK`, is
  no result: `Machine` has no step beyond them, where `vm.c` tests nothing (`StuckOnlyAtLimits`
  says that nothing else stops it);
* `HeightsFixed`: one height of the stack per instruction, on every path and in every call, and
  an empty stack at the end;
* `OperandsOwn`: no instruction takes a local, or a slot of the caller, for an operand;
* `LoopsPopOwn`: nor does the pop with which a turn of a loop begins, the property that
  the run `iflet` refutes of code that is not verified.

The verifier looks at one function at a time, without values; the machine has many calls
at once. What connects them is the invariant `Pointed`: each active call stands at a point of
the verifier, with the height it has (`Level`), and a call that waits stands at an `OPCODE_CALL`, at
the height *before* it pushed callee and arguments. So an `OPCODE_RETURN` (`ReturnOK`) has the same effect on the
caller as any instruction that replaces operands by a value (`StraightOK`), however the
callee has left its own slots; and a height, once seen, can only be seen again, since a place has
one point (`RunRecorded`). A call needs that no value is a function that is the main program
(or else `OPCODE_HALT` would not mean an empty stack): `Keeps` says that all slots and globals are
in some set of values that are harmless and closed under taking elements of
arrays. Stating it as "there is such a set" keeps induction over the depth of arrays out of the proof.

`ActivationProofs` proves `CallsKeptApart`: on verified code, and a stack of any size, the machine implements
`Activations`. No invariant is added to those of `ExecutionProofs`; what is new is where things lie. `WaitingOK`: a
waiting call's variables and operands end below the callee, which is below the base of the
next frame, hence of every later one. So a step that writes no slot below the base of the last frame (`Kept`)
changes nothing of the calls before it (`TurnApart`); a call cuts the operands of the caller in two, its arguments being the upper part, and
they are the first variables of the callee without having moved (`CallApart`); a return writes the one slot above the operands the
caller is left with (`ReturnApart`). On top of these three there is a lemma for each group of
instructions, which shows that the values taken from the end of the stack are the last operands of the last call
(`OperandsOK`) and that what is pushed is appended to them (`YieldsOK`).

That the code of a program passes the verifier is checked (`CodeVerified`), for the programs of
`control`; `Compiler` is recursive on trees. Together they say more than the run alone: for each of those programs, the
theorems hold with the sizes of the code (256 slots, 64 frames) and on paths that
its inputs never take.

The assumptions are those declared with the constants: letters, digits and the symbols of the language are
different characters, a line contains no NUL (what follows one is never read), keywords are words; heap addresses, string constants
and functions are disjoint, `None` is no address and no symbol, sizes are natural numbers,
the hash of a name is a bucket, built-ins are distinct.

## 5. What is only model-checked

* Liveness (`CollectionEnds`, `Finishes`): outside the reach of the prover. So is ENABLED, which
  `StuckOnlyAtLimits` and `NeverStuck` are stated with.
* `Compiler`, `Language`, `Parser` and `Grammar` are recursive on trees and token sequences: what
  they compute is compared on the families of programs and token sequences of the
  MC modules. All that rests on them (`AgreesWithSource`, `CodeVerified` and `StuckOnlyAtLimits` in `control`, and
  `session` and `parsing`) is checked, not proved. `Lists` is recursive on the bytes in the same way. The machine of `session`
  starts from globals of earlier lines, for which `ExecutionProofs` says nothing.

## 6. What is not modelled, and what comes next

Not modelled:

* **Captured variables**: functions in functions, whose outer locals resolve to a slot that
  is then read in the wrong frame. `scopes` covers the resolution; the programs of `control`
  nest no functions.
* **`OPCODE_INDEX_SET`, strings and built-ins with values**: `Machine` prints and does arithmetic;
  index assignment is compiled, and what it does to memory is in `VmHeap`, but it is not executed with
  values. The values the built-ins compute are left out.
* **Integer literals**: their value is given to the parser; that more than 18 digits overflow
  is not followed.
* **`read_file()`**: one loop over stdio calls that overwrites what it has read once a script is longer than
  its buffer (`pepper.c:176`); and the loop of `repl()` at the end of the standard
  input, which spins without state.
* `copy_instructions()` and `flatten_instructions_array()`, which only tests call; printing
  and formatting; `sizes.c` (prints sizes of types); `util.h` (prints a message and exits).

* **What follows undefined behaviour**: it is not followed beyond its first occurrence. For a slice that
  begins before its array this means that `VmHeap` stops (`SliceUnderrun`) and that `Machine` has
  no step (`Values`: `Takes`); for a hash of a name that begins with an upper-case letter or an underscore,
  which the lexer takes for a name and whose bucket may lie outside the table, that
  `SymbolTable` and its theorems do not have such names.

Next, in this order: captured variables (nested functions in `ControlFlow`, with `Language`
closing over the frame); `INDEX_SET` and array values in `Machine`, checked against `VmHeap`'s
ownership; and the start of `Execution` from the globals of a session, which would carry its theorems over to
`Repl`.
