# Verification of PackCC

TLA+ models of PackCC 3.1.0 (`src/src/packcc.c`), the TLC configurations that
check them, and theorems about them that TLAPS proves.

PackCC is one C file with two programs in it. The *generator* reads a PEG
grammar, links and checks its rules and writes a C parser. The *generated
parser*, whose text is in string literals of `generate`, is a packrat parser
with left recursion: it memoizes what each rule gave at each position, grows
left-recursive matches from a seed, records actions as thunks and executes them
when the match is complete. Both programs are sequential. What is hard in them
is not interleaving but long histories: state that is saved at one position and
restored at another, memos that outlive the match that made them, left
recursions that meet one another, buffers that are shifted under positions, and
errors halfway through a rule.

## 1. The system

### Generated parser

| Component | State | Operations | What makes it correct |
|---|---|---|---|
| Packrat engine (7021-7344, 7652-7782) | `ctx->pos`, `cur`, `buffer`; `lrtable` (a head and memos for each position), `lrstack`, answers, lr entries and heads | `pcc_apply_rule`, the `pcc_evaluate_rule_*` functions, `pcc_refill_buffer`, `pcc_commit_buffer`, `pcc_parse`, `pcc_create`, `pcc_destroy` | a call matches what the grammar means at its position; memos are stable and for their position; positions stay in the buffer; no pointer dangles, each object is freed once; a call ends |
| Thunks, captures, actions (5964-6060, 6518-6679, 7187-7196, 7349-7364) | the thunks of each chunk and of the context, the capture ranges | append leaf and node, revert, record a capture, `pcc_do_action`, error actions | the actions on the path of the match run, once each, in order, with the texts captured before them |
| Memo table (6850-7030) | arrays with offset, length and capacity; owned answers and heads | get, set, hold, resize, shift, finalize | it is a map; the objects in it are freed once, and none that is in use |
| Memory recycler (6456-6511) | pools, free list, unused rest | supply, recycle, finalize | elements in use are distinct, lie in their pool, and none is lost |
| Marker variables (6064-6450) | the current entry, the stack of saved ones | save, restore, shift; copies in answers | where a match fails, the values of its beginning come back |

The engine owns the other four. An evaluation function calls `pcc_apply_rule`
for each reference, and that calls evaluation functions: one recursion through
both. `pcc_parse` runs it for the first rule, executes the thunks, then
`pcc_commit_buffer` drops the consumed text and shifts the table and the marker
entries. Memos are shared between all activations at a position, and, unless
the commit drops them, between calls of `pcc_parse`.

### Generator

| Component | State | Operations | What makes it correct |
|---|---|---|---|
| Reading of grammars (1390-1475, 3920-4395) | the stack of inputs, `finfo`, settings, markers, rules, error counts | `parse_file_` with its directives, recursively for imports | each file is read once, rules come in order, no error is lost, version constraints mean what they say |
| Parser of rule expressions (3491-3900) | the rule under construction with the lists of its variables, captures and code blocks; nodes | `parse_primary` ... `parse_rule` | what is read is what is written; each node has one owner; the lists are those of the rule's nodes; positions come back with the input |
| Rule table and references (2765-2987, 4397-4434) | the hash table, reference counts, marks | `make_rulehash`, `link_references`, `mark_rules_if_used`, removal | names find their definitions; exactly the needed rules are kept; no reference dangles |
| Checks (2989-3237) | tables of variables and captures per branch | `verify_rule_variables`, `verify_captures`, `verify_marker_variables` | an action sees what some way to it has passed |
| Code generator (4455-5257, 7652-7742) | labels, the outcome each function claims | `generate_code` and the functions for each node | the code compiles and does what the expression means |
| Lexical layer (1617-1983) | buffer, line and column | match a token, refill, commit | positions in messages; where quotations, comments and code blocks end |
| Characters (712-963, 4455-4649, 7203-7231) | | check, decode and count UTF-8, unescape, generate the test of a string or class | all decoders agree; a generated test accepts what the literal says |
| Code blocks in the output (584-672, 1015-1139, 1985-2562) | the stream with its number of lines | `stream__write_code_block` and the functions below it | `#line` directives give each line of code its line in the grammar; references are replaced or reported; comments, quotations and directives are left as they are |
| Options, boilerplate (5259-7651, 7869-8278) | text | | |

The generator runs them in the order of the table; a failed check is counted
and stops only the writing of the parser.

## 2. Modules

`parse`, `generate` and the parser they lead to are modelled by these modules. A
definition has the name of the C function where there is one, and the comment
names the code otherwise. Operators like `Shifted_OneLess` in front of a
definition are slips of the pen: each is a plausible error in the code, and the
property it belongs to fails when the definition is replaced with it.

**The engine.** `PackratRuntime` is the machine that executes generated code:
each statement of an evaluation function is a step, and so are the parts of
`pcc_apply_rule` before and after the evaluation of a rule (`ApplyMemoized`,
`ApplyRecursive`, `Involve`, `ReturnSeed`, `GrowNext`, ...). The C stack is the
variable `frames`; chunks, answers, lr entries and heads live in heaps whose
addresses are never used again, so that a use after free is a reference to a
dead object. The shift of the memo table is the one of the code, on absolute
indices. `PackratSafety` holds the properties that any grammar must have,
`PackratInvariant` and `PackratOwnership` the inductive invariant in two parts,
`PackratProofs` and `PackratOwnershipProofs` its proof; the
second also has what follows for left recursion and memos.
`PegReference` says what a grammar means, by recursion over expressions and
positions with no memo and no code, and `PackratMeaning` compares. `CodeGen` is
the code generator: from the expression of a rule to the statements that
`PackratRuntime` executes, with labels, saved locals and claimed outcomes.
`CodeFlow` adds what a C compiler checks. `PackratMarkers` is the parser of a
grammar with marker variables: a step of it is a step of `PackratRuntime` together
with what the generator emits for the markers beside that statement, a save before
a predicate, a restore behind every `ctx->cur = p`, copies into chunks and thunks.
So what is proved of `PackratRuntime` holds of it. `MCPackrat` and `MCCodeGen` take
grammars, compile them with `CodeGen` and run them, `MCCodeGen` with markers.

**Data structures.** `LrTable` is `pcc_lr_table` with its arrays, `LrTableSpec` the
row of entries it implements, `LrTableSafety` what the accessors show and its
properties, `LrTableProofs` their proofs; `MemoryRecycler` implements `Allocator`;
`ArrayGrowth` is the doubling of capacities in `size_t`, which both use. `MarkerRecord` is the record
of marker values together with everything of a parser that touches it: what
rules do between is left open, so that it stands for all grammars
(`MarkerRecordProofs` has its proofs); `PackratMarkers` uses its operations.

**The generator's front end.** `GrammarReading` is `parse_file_` on grammars that are
sequences of items: imports, settings, versions (`GrammarReadingProofs` has its proofs). The rules themselves are read in
`ExpressionReading`, whose input is a sequence of tokens: the calls from `parse_rule`
down to `parse_primary` are a stack of frames, each step is what a function does
between two calls, nodes live in a heap whose addresses are not used again, and
a function that fails takes the input back and destroys what it holds.
`RuleLinks` extends it with the rest of `parse` up to the removal of unused rules,
and `RuleChecks` extends that with the verification; so one run goes from a text
to checked rules. `RuleSafety` says what holds of it for any text and any hash values
(`NodesOwned`, `ListsOfRule`, `DefinitionFound`, `KeptAreNeeded`), `RuleProofs` proves it,
and `MCParse` compares with what its texts were written from.

**The generator's characters.** `Characters` has the functions without state:
UTF-8, escape sequences, and the tests that are generated for strings and
classes, as records that say which codes they compare with and where an `||`
stands. `InputState` is `input_state_t`: each `match_` operator takes an input state
and gives the one after the call. `Lexing` drives it as the parse functions do: it
matches what may come next, notes places and goes back to them, skips what is
illegal, flushes the buffer, reads literals and code blocks and generates the
tests. The functions with their exact order of calls are in `ExpressionReading`,
on tokens; `Lexing` allows every order that keeps three rules of theirs (stated at
its head), and so covers the directives too. `LexingSafety` says what its lines and
columns are (`PositionsRight`) and that all who decode the text of a literal agree (`DecodersAgree`);
`LexingProofs` proves both. A loop of the C code that goes
through a text is a recursive function here, with the place as its argument; proofs
can use it, unlike a recursive operator.
`CodeText` is what becomes of a code block: the functions that match comments,
quotations and directives in a string, the calls of `stream__write_text` that
`stream__write_code` makes (`Parts`), the bytes that stand for a reference
(`StandsFor`) and the stream with its lines and `#line` directives. `Lexing` writes
the block it has read, as the code of a directive, an action or a predicate, so that
one run goes from the place of a block in the grammar to its lines in the parser.

## 3. Runs

All runs check for deadlock. What ends in the code (a parser at the end of its
input, a reader that is done) has a step that does nothing.

| Run | Question | Bounds |
|---|---|---|
| `MCPackrat` | positions, pointers, ownership, leaks, left-recursion bookkeeping, stability of memos, the inductive invariant; are results, memos and executed actions those that the grammar means; does each call end | nine grammars, all inputs of up to 5 letters, up to 4 calls, and `pcc_destroy` |
| `MCCodeGen` | labels, claimed outcomes, saved positions, meaning of the generated code, markers that actions see and later calls begin with | some five hundred expressions of three levels, inputs of up to 3 letters, 2 calls; error actions around what may fail, alone, in loops, options, lookaheads and one another; captures that are matched again; predicates that set a marker to one of two values, reject after setting it, or ask for its value |
| `MCLrTable` | ownership and pointers in the memo table; it is a map, and does not grow with what is shifted away | 2 rules, 3 positions, 3 objects, capacities up to 7 |
| `MCMemoryRecycler` | separation, loss, pool sizes; it is an allocator | 7 pointers, memory of 16, a `size_t` of 6 bits |
| `MCMarkerRecord` | roll-back of markers, with memos, growth and several calls | one rule that is applied once, one that is left-recursive and memoized; input of 2, depth 2 |
| `MCParse` | reading, ownership of nodes, lists, hashing, linking, removal, visibility, error counts | expressions of up to five levels; four files with each token missing and with each of seven tokens inserted anywhere; all grammars of up to 3 small rules, colliding names |
| `MCLexing` | positions, ends of literals and code blocks, agreement of decoders, meaning of literals, lines and references of written code blocks | files of up to 3 pieces out of 9, code blocks of up to 3 out of 12, literals of up to 3 out of 13 and 9 illegal ones, blocks of up to 3 out of 14 that are written as three kinds of code; with and without `-a` |
| `MCGrammarReading` | imports, errors, settings, constraints on versions | 3 files of up to 4 items, two directories; 6 operators and 5 versions |

In `MCCodeGen` only the first call is compared for the grammars with references,
since a memo hit brings in markers that are not rolled back, and a rule that is
applied again does not compare with a marker. In `MCPackrat` what a call computes is compared only for the grammars in
`MCCompared`: those whose meaning is beyond dispute, on the first call, or on
every call for the tokenizer `Tok`, which leaves nothing behind its matches. The
others reach the remaining statements and the corners of left recursion, and
only what holds for every grammar is asked of them. In `MCMarkerRecord` the
properties about complete roll-back are asked as long as no answer was used
again (the history variable `recalled`); `NothingAhead` is asked always.

*Why these bounds are enough.* The engine's hard cases need a position with two
rules on it and a place behind it: two letters and three positions reach all
branches of `pcc_apply_rule`, and 5 leave room for three turns of a growth and
for a second call after a commit. `MaxDepth` bounds the C stack; a call beyond it ends the
program in the phase `crash`, which no state of a passing run comes to (18 of the
20 frames are never reached) and in which `MCPackratMutual` would end. In the table the
capacities double twice and the offset passes the half that makes it compact.
The recycler makes three pools and runs out of memory. Marker entries come to
three positions (0, 1 and 2), so that a restore skips one, and a shift keeps one. Three
rules make all shapes of cycles and a rule that is reached over two ways; with
hash values at the table's end, probes wrap. Every function of the expression
parser fails at every place that a single wrong token can make it fail at, some
with nodes of several levels in hand. Three files make circles with a
third that is met from both. Three pieces make a CR before a LF with the flush
between lines, an escape before a quote, a range with both bounds and a hyphen at
each end; a nested brace, one that is hidden, and the one that closes; in written
code, a reference between a line end and what follows it, and a directive or a
comment with a line on each side. `Lexing` notes
places in the files of `MCTurned` only, those with line ends; elsewhere a place has
no line to come back to.

*Runs that end in a counterexample.* `MCPackratAhead`, `MCPackratMutual`,
`MCMarkerRecordHit` and `MCLexingHyphen` check one statement of the repository
each and find it violated; section 6 describes them. `PROJECT.json` lists these four.
Three more configurations stand beside them, one for each module that
has statements of this kind left; `tlc -continue -config MCPackratClaims.cfg MCPackrat` finds both of its
properties violated within seconds, and so for `MCLexingClaims.cfg` and `MCCodeGenClaims.cfg`.

*Fairness.* Only `ParseEnds` needs any: `FairSpec` asks that the running parser
takes its next step (weak fairness of statements, applications, returns and the
end of a call). That is what a sequential program does while it is executed.
That the program calls `pcc_parse` again is not assumed.

## 4. Proofs

Eight modules hold theorems and lemmas; each is for all values of the constants.

**`PackratProofs`.** For every set of rules, every code of their evaluation
functions, well-formed or not (`RuntimeAssumption`: it consists of statements whose
captures exist), and every input of bounded length: `IInv` is invariant, and with it `TypeOK`, `InBuffer`,
`MemoAhead` (a memo ends at its position or ahead, within the buffer) and `CallsInOrder`. So `ctx->cur` never leaves the buffer and the
three subtractions of `size_t` in the engine, `a->pos - ctx->pos`,
`p - ctx->pos` and `buffer.n -= ctx->cur`, never wrap.

None of these is inductive alone. That a memo is ahead depends on where its
activation began; that the activation began in order, on the positions of the
memos it may take; and the position after a return, on which of its frames hold
answers. `IInv` is therefore `TypeOK`, `InBuffer`, `Calls` (the frames are sorted by
position, each has its chunk and, by its mode, an answer, a head and a program
counter in its code) and `Links` (what each heap's objects refer to exists and
ends within the buffer, table entries refer to answers made at their position
or behind, and the walk over `lrstack` stays inside). The shift at a commit moves
memos to lower positions, which is why `TableLinked` says *or behind it*: with
equality it would not be invariant, and indeed is not (`MCPackratAhead`). The
proof has a lemma for each action, above lemmas on sequences and on each heap.

**`PackratOwnershipProofs`.** It begins with lemmas on single changes of the heaps.
Under the same assumption as above: `NoDangling` and `EachFreedOnce`.
No pointer that the parser may still follow leads to a destroyed object, each chunk
is destroyed once, and `pcc_destroy` leaves nothing behind. The hard part is
`pcc_commit_buffer`: it destroys the table entries of what was consumed, with their
answers, chunks, lr entries and heads, while answers at later positions live on and
may refer to what was found by others. That this is safe is a matter of direction:
what is owned at a position points to the same position or behind it, never in front.
`OInv` says so of every kind of pointer (thunks of a chunk, seed and head of an lr
entry, head of a position), and beside it who owns what: an entry its answers and heads,
an answer its chunk or lr entry, an activation the chunk that it builds. Its predicates
have the heaps as parameters, and each lemma is about one change: a new answer that
takes over the chunk of an activation that returns, an answer that exchanges what it
owns with a new one, a seed or a head that is set, the shift of the table. The lemma of
an action composes the changes that the action makes. Only `IInv` knows that positions of
activations are ordered, on which the direction rests, so `OInv` is inductive only
together with it; `Inductive` is both.

In the same module, under the same assumption: `MarkersOfCalls` and `MemoStable`.
The first adds one conjunct to `Inductive`, that the memo of each first
application under way is its own answer (`Marked`): only `ApplyFirst` writes a memo,
where there was none, and what destroys memos runs when no call is under way. That
`lrstack` has the entries of these calls in their order is in `OInv` already. The second
follows from `Inductive` step by step: an answer is changed only by the activation it
belongs to, and while that is a first application the answer is a marker and no result.

**`LrTableProofs`.** For every number of indices, of rules and of objects, and every way of growing that
gives the array the length it needs (`LrTableAssumption`; `MCLrTable` has the way of the
code): `ObjectsSound`, `Bounded`, and `LrTable` implements `LrTableSpec`, the form in which
`PackratRuntime` uses the table. The array and its offset are what makes this hard: a
pointer below the offset or behind the length leads to an entry that is destroyed, or was
never written, and both come back into use, by a resize and by a move to the front.
`TableInv` is `Shape` (the offset is at most half of the array, by which a move is due in
time and the array stays small), `Led` (pointers within the table are null or lead to
entries not destroyed, no two to the same, and every such entry is led to) and `Shared` (an
object is owned by one entry, or it is an answer that was replaced, once). All operations
are one of two changes: an entry is used (`Used`), or the table is cut in front (`Cut`,
which the end is too), and `TouchShown` and `CutShown` say what is seen of each index then.

**`MarkerRecordProofs`.** For every set of rules and values, every input and depth:
`RolledBack`, `NothingAhead` and `ShiftLeavesOne`. `RecordInv` has two parts.
`Settled` holds always: the values of an entry, in the record or in an answer, were set
at the position of the entry or behind it, which is all that `NothingAhead` needs, and a
rule that grows has an answer. `Kept` holds until an answer is used again: the entries
are in strict order (`Ordered`), choices and rules began in the order in which they nest
(`Nested`), and for each open choice the last entry that is not ahead of it holds the
values it has to go back to (`Remembered`). A predicate at a position records for
that position only, and going back to a choice changes nothing that is recorded for
the ones around it (`RestoreRecorded`): these two facts are the proof. Once an answer
was used again the current entry may stand anywhere among those in the stack, `Ordered` is
lost, and roll-back with it (`MCMarkerRecordHit`). The proof also shows that
until then the second of the two comments in `pcc_marker_variable_set_record__shift` (6393) has no case: at a
commit no entry is ahead of the buffer, and one at most is left.

**`MemoryRecyclerProofs`.** For every element size, memory and width of `size_t`:
`IInv`, the conjunction of `TypeOK`, `Apart`, `NoneLost` and `SlotsFit`, is
invariant; the recycler implements `Allocator`; and a pool is made only when
nothing is free (`GrowsWhenFull`). The hard part is that what is cut from a pool is in no other
pool, in the unused rest of none and not listed; the sizes of pools fit because
the memory that was given bounds the number of elements before the doubling can
wrap.

**`GrammarReadingProofs`.** For every set of files, whatever is in them and whatever
they import (`ContentsAssumption` says what an item carries): no file is read twice
(`ReadOnce`), every error that was printed is in the count that decides whether a
parser is written (`ErrorsKept`), and the recursion of `parse_file_` is not deeper than
there are files. The invariant `RInv` says why: entries of `finfo` have different
files, inputs on the stack have different files, and each of these has its entry;
and the counters of the inputs, summed up from the root, give the number of errors
printed. The sums are needed because `parse_file_` adds a file's errors to those of
the importing one only when it ends.

Also that each setting is the one of the root's first directive for it
(`SettingsOfRoot`): what an imported file sets is dropped, and a second directive
reports an error and changes nothing. `RootRead` says it of the part of the root that
has been read, at whatever depth the reader is, and `MarkersApart` that the names of
markers, which are compared by prefixes, are entered once.
And constraints on versions are reported if and only if they are not met (`VersionCounts`, an action
property), for numbers of any length: `compare_digits`, by length and then by the first digit that
differs, is the order of the numbers that the digits write (`DigitsCompared`), because
`input_state__match_version` admits no leading zero (`IsVersion`, assumed of what files and
constraints say and of `Packcc`). What is compared is what the file declares: `VersionsRead` says
for each entry of `finfo` that its version is the first one in what has been read of its file, and that
this is all in front of `%%` when the file is no input any more.

Last, that the rules come out in the order of the text in which every `%import` is replaced with
the file where it is met first (`ExpandedInPlace`); the first of them is the one a parse
starts from. `Expansion` says it of the files alone, without a stack: it unfolds the text one
level of imports after another, as often as there are places in all files. That this is
enough is a proof of its own: each unfolding leaves fewer places to what is still unfolded below it
(`FewerBehind`, `FewerInside`), so `Expansion` does not change when it is unfolded once
more (`ExpansionUnfolds`). With that, `InPlace` is an invariant: the rules read so far,
followed by what the inputs on the stack still lead to, from the current one out to the root, are the
expansion of the root. An import that begins to be read takes its place in front of the
rest of its importer, one that was met before takes none, and a file that ends leaves
its importer to go on. It is assumed that there are finitely many files, that `absent` and
`denied`, which opening answers with, are no files, and that an item's path is a path.

**`RuleProofs`.** For every text and every hash function with values in `Nat`
(`HashAssumption`; a name is no literal, no code block and no token of the grammar's
own, `TokenAssumption`; the faults in a token are counted, `FaultsAssumption`): four
theorems, which follow the rules from the text to the removal of the unused ones.

* `NodesOwned`: no failure at any depth, and no removal of a rule, loses a node or
  destroys one twice. `NodeInv` says it with the heap as a forest: its roots are the
  nodes that the calls of the parse functions, the result of the last call and the rules
  hold (`Roots`, `Apart`), and every other node that is not destroyed is below one node, at one place
  (`Forest`). What a function knows of the node it holds depends on where it waits
  (`StackOK`). `destroy_node` removes a whole tree; that this is what lies
  below a root and nothing else is a lemma about forests.
* `DefinitionFound`: by `TableInv` each occupied slot holds the first rule with its name,
  and it is the slot where probing for that name ends. The table is never full, so
  probing does end, whichever names collide.
* `KeptAreNeeded`: `LinksInv` gives the rule each reference leads to, `RefInv` counts the
  references of the rules that are linked and not removed, and `MarkInv` is about the walk of
  `mark_rules_if_used`: what is marked lies in every set that is closed under references, and
  what a marked rule leads to is marked, or is met when the walk goes on. So at its
  end the marked rules are the least closed set.
* `ListsOfRule`: the variables, captures and code blocks of a rule without errors are
  those of its nodes, in order, each with its own index. This is not invariant while a
  rule is read: a sequence that fails is destroyed, and leaves its entries in the lists.
  Such a rule is `Doomed`. What has failed has taken the input back to a place where a
  primary or a prefix stands that does not begin a rule (`Stuck`), no function
  that waits can go on there, so all of them return and the loop of `parse_file_` reports an error. Hence
  `Sound` or `Doomed`, at every step (`ReadInv`). To know where a failure goes back
  to, `CallsInv` says of each call which function made it (`Follows`) and where it began
  (`Placed`).

**`LexingProofs`.** For every set of files, of bytes behind a literal and of syntax
characters (`LexingAssumption`: files are sequences of bytes, bytes stand behind a literal, and the
characters that are matched by themselves are no line ends), and every order of calls that `Lexing`
allows: `PositionsRight` and `DecodersAgree`. For the first,
the invariant `LexInv` says two things. The input is `Sound`: its
buffer holds the file's bytes at its place, its line number and the beginning of its line are those
of that place, and `charnum` is 0, or at least the number of characters of the line in front of the
buffer. And each noted place is one that the input may go back to (`Places`): line, beginning
and `charnum` fit it, and it lies in the buffer, which only grows until it is
flushed, when nothing is noted. Each `match_` function has a lemma, by which it leads
from a sound input to a sound one that is `Ahead`, or back to the same place when it
fails (`Tried`). What makes this delicate is that some functions take a byte without
looking for a line end: `input_state__match_character_any` is right only where `match_eol`
has just failed, or behind a backslash and the like, and the lemmas carry that fact
(`NoEol`) through the loops. A loop is an induction over its function (`LoopOf`).
The column needs one fact more: in a `Readable` file `count_characters`, which counts from
the first bytes of characters on, counts every byte that does not continue one
(`CountOfPart`), because `is_valid_utf8_string` accepts only files that are made of whole characters
(`ValidIsWhole`), and lines begin with whole ones. That the column is not also exact for a
line that began in front of the buffer is shown by `MCLexingClaims`.

`DecodersAgree` rests on a lemma about every sequence of bytes (`AgreedOfAll`). The
checker of literals and `count_characters` go byte by byte, the decoder of a generated parser goes
character by character; `InStep` says where they meet: behind each character that the parser has
seen, the checker is between characters, `count_characters` has counted as many and
expects no more bytes of the last one, and each character seen is what its code
is encoded to (`EncodedAgain`, by the number of its bytes). Where the parser sees no
character, the checker has rejected the text by its end (`CheckedAsSeen`): the first byte begins
none, a byte does not continue it, it is cut off, or its code has a shorter form. It is
stated for the value of a literal, which is a sequence of bytes in every state
(`ValueInv`): `unescape_string` makes bytes of bytes, and no escape sequence gives a
code that does not fit, which is where surrogate pairs come in (`PairedType`).

Where such a proof needs induction (over depth, over slots, along a walk or a text), it takes the
least number for which a statement fails, since the library's induction theorems cannot be used.

*Only model-checked:* what a parse computes (an induction over expressions, and
recursive operators); the order of growths (`GrowthInOrder`), which some grammars violate
(section 6); liveness; `CodeGen`; `PackratMarkers`; that a text is read as it was
written, that its errors are counted, and which variables and captures an action sees (`TextRead`, `ErrorsCounted`, `UsesSeen`: inductions over expressions);
where literals and code blocks end, what a literal matches and what is written of a code
block (`EndsFound`, `MatchesAsWritten`, `CodeWritten`), which compare with the
pieces that the files of `MCLexing` are made of, and with recursive operators on them.

## 5. What is not modelled

* Characters in the engine: a letter is one there. What a character is, is in
  `Characters`, where the tests of generated code are run on bytes.
* `ExpressionReading` has tokens, without blanks and comments, and reports without
  their places; places are in `Lexing`. What follows an illegal escape sequence in
  a literal is not decoded, since such a grammar is rejected.
* The footer, and `update_code_flags`. Code blocks of directives are left out of
  `GrammarReading`; how they are written is in `CodeText`.
* The C code of actions, error actions and predicates: a predicate is any
  Boolean, an action is logged with what it is given. Macros of the user
  (`PCC_ERROR`, allocators) do what their defaults do.
* Other texts: type definitions, constant code, debug output, paths and their
  escapes; the command line. They keep no state that the parser depends on. Code
  blocks are written with `-l`, without which the directives are missing; a zero byte
  in one, which ends it, is left out.
* Failing allocations: they end the program.

## 6. What the code does otherwise than the documents say

Ten disagreements have a configuration that ends in a counterexample. The first four are runs
of `PROJECT.json` with one property each; section 3 says how the others are run:

| Configuration, property | Statement | What happens |
|---|---|---|
| `MCPackratAhead`, `MemoForItsPosition` | a memo is for its position (5670) | the table is indexed by absolute positions and shifted as if relative: memos behind a match are found too early by the next call |
| `MCPackratMutual`, `ReevaluatedOnce` | indirect left recursion is supported | `pcc_rule_set__remove` keeps `n`: an involved rule is re-evaluated in itself without end |
| `MCMarkerRecordHit`, `RolledBackAfterReuse` | markers are rolled back | not what a memo hit brought in |
| `MCLexingHyphen`, `HyphenAtTheEnd` | a `-` that is last in a class stands for itself (4624) | behind an escape sequence it is lost, and the code of the class ends in `||`: the byte that is looked at lies behind the value, where a shortened value leaves old ones. `[\t-]` does not compile |
| `MCPackratClaims`, `ActionsOfMatch` | actions are not executed where matching fails | those in a negative lookahead are |
| `MCCodeGenClaims`, `MarkedAsMeant` | markers are rolled back when subsequent matching fails (README.md:461) | a growth takes the position of its last but one turn and leaves the markers of the last (7333): behind `L <- L 'a' &{ @x = 1; } / 'b' &{ @x = 2; }` on `ba`, an action sees 2 |
| `MCLexingClaims`, `ColumnOfLine` | `charnum` is the number of characters in the current line that are flushed (410) | `input_state__commit_buffer` adds all it flushes, the lines before too (1672): in a grammar whose second rule is indented by two, an error in it is reported 11 columns too far right when the first line has 10 characters |
| `MCPackratClaims`, `ResultIsPeg` | direct and indirect left recursion is supported (README.md:10) | a rule that took part in a left recursion and is applied again at the position once that is over has an answer that keeps its left-recursion marker with an old seed (7306-7315): with `Ends <- Starts 'a' / 'b'`, `Starts <- Ends 'b' / Ends / 'a'` the rule `Again <- Ends 'b' 'b' / Starts` takes one letter of `aab`, all of which `Starts` matches |
| `MCLexingClaims`, `UnicodeOnlyInUtf8` | `\u20AC` and surrogate pairs are recognized in strings and classes if `-a` is not specified (README.md:199, 211, 223) | `unescape_string` (837) does not know the option: with `-a`, `"\u20AC"` is the string of the three bytes of that character in UTF-8 all the same |
| `MCCodeGenClaims`, `CodeWellFormed` | a code that is generated compiles: the labels that a rule's code jumps to are in it | around an element that always succeeds, the code of an error action jumps to a label of its caller (5180), which emits none for an element that cannot fail: `'a'* ~{ }` does not compile |

Others were met while the modules were written. The models do what the code
does, and the grammars or the conditions of the runs leave these cases out:

* A rule that took part in a left recursion: `MemoIsPeg` leaves out such rules
  (`Involvable`), for what `ResultIsPeg` in `MCPackratClaims` shows. The walk that begins at the marker of such an
  answer also gives the old head to calls at earlier positions. There a growth may then begin inside another at the same position and
  take the head away when it ends (7331): `Z <- A`, `A <- &A Y 'a' / 'q' S / 'b' / Y 'a'`,
  `Y <- X / 'b'`, `X <- X 'x' / A 'c' / 'd'`, `S <- A 'x' / X 'a'` on `qdac`. So `GrowthInOrder`
  is checked for the grammars of `MCPackrat` and does not hold for all.
* A turn of a loop that matches nothing ends it before it is counted (4701):
  `('a'*)+ 'b'` does not match `b`, although `+` asks for one occurrence (README.md:259).
  The expressions of `MCCodeGen` repeat nothing empty with a lower bound.
* A capture is a slot of its rule and an action keeps a pointer to it (5010): in
  `(<.> {1})*` every execution sees the last text.
* What a predicate sets at the very position a failing match began at stays
  (6368): `&{@x=7;} 'a' 'b' / 'a' 'c'` on `ac`. `RolledBack` leaves out such matches,
  and the predicates of `MCCodeGen` stand behind a character.
* A rule that compares with a marker (`@x`) is memoized without the value it was compared with:
  applied again at the position, it is taken although the marker is another now.
* A memo hit can lower the position of the current marker entry, and then a
  commit leaves an entry ahead of it, contrary to the comment at 6392.
* In circular imports a constraint is checked against 0.0.0 when the `%version` of
  the file has not been read yet (4307). `VersionCounts` is about files that
  were read to their end.
* A version that is the last thing of a file is compared together with stale bytes
  behind the buffer (3965). `VersionCounts` asks for a line end.
* A marker whose name is a prefix of an earlier one is taken for a duplicate (4170).
* With `-a`, a literal with `\u` sequences is left out of `MatchesAsWritten`, legal or not:
  the manual says of them only that they are none (`UnicodeOnlyInUtf8`).
* With `-a`, the upper bound of a range is taken without its escape: `[+-\^]` is the
  range from `+` to the backslash, and a `^` (4543). `MatchesAsWritten` leaves such
  classes out.
* An escape sequence that is cut off by the end of its literal is completed with
  the bytes that happen to follow in memory (822, 848): `"\x4"` may be accepted.
* `[^]` matches any character in UTF-8 mode and the character `^` with `-a`
  (4500, 4607).
* A name behind `@` is compared with the markers over its own length (2321): when `ab` is
  declared, `@a` is taken for it, and an undeclared marker goes unreported.
* Characters are not counted from a NUL on (1003), so columns behind one in a line are too
  small. `PositionsRight` asks for columns in files without NULs.
* In a code block, a line end behind nothing but spaces is written as any other byte (2139-2147): the
  line that follows keeps its indentation, and when the line end is a CR alone it is
  not counted. `CodeWritten` does not ask for the indentation of such lines.
* Spaces between a comment and a directive behind it are dropped, which changes
  nothing for C.

## 7. Plan

A proof that is in reach: for which grammars growths are in order (`GrowthInOrder`).
