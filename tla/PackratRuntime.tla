--------------------------- MODULE PackratRuntime ---------------------------
(***************************************************************************)
(* The parser that packcc generates, as a machine: pcc_parse, the          *)
(* left-recursive packrat algorithm of pcc_apply_rule with its memo table, *)
(* left-recursion stack and heads, the pcc_evaluate_rule_* functions with  *)
(* the statements the generator emits into them, the thunks and their      *)
(* execution by pcc_do_action, and pcc_commit_buffer.                      *)
(*                                                                         *)
(* The C call stack is the sequence `frames'; one frame stands for an      *)
(* activation of pcc_apply_rule together with the evaluation function it   *)
(* is running.  Objects reached through pointers live in heaps, sequences  *)
(* whose index is the address; NULL is 0 and no address is ever reused, so *)
(* that a use after free is visible as a reference to a dead object.       *)
(*                                                                         *)
(* The table is indexed the way its accessors index it (o is taken care of *)
(* in LrTable): entry i is what lr_table__get_*(i) reads.                  *)
(***************************************************************************)
EXTENDS Naturals, Sequences, FiniteSets

CONSTANTS
  Rule,        \* the rules for which an evaluation function was generated
  StartRules,  \* the candidates for the first rule of the grammar
  Code,        \* Code[r]: the statements of pcc_evaluate_rule_<r>
  Slot,        \* the C locals of the blocks in an evaluation function
  CaptIndex,   \* the numbers of the captures of a rule
  Char,        \* the input characters
  MarkerText,  \* the text of each value that the marker variables may have
  Inputs,      \* the inputs a parser may be given
  MaxPos,      \* bound: the length of the longest input
  MaxParse,    \* bound: how often the program calls pcc_parse
  MaxDepth     \* bound: how many frames fit on the C stack

NULL == 0

(***************************************************************************)
(* A statement of generated code.  `to' is the statement a C goto leads    *)
(* to; the fields a statement does not use hold a default.                 *)
(***************************************************************************)
Ops == {"match", "mcapt", "pos", "apply", "savep", "saven", "setp", "revert",
        "zero", "inc", "ifge", "ifatp", "goto", "capt", "act", "err", "pred",
        "npred", "mvar", "ret", "fail"}

Instr == [op: Ops, chars: Seq(SUBSET Char), rule: Rule, slot: Slot,
          num: Nat, to: Nat]

ASSUME RuntimeAssumption ==
  /\ StartRules \subseteq Rule
  /\ Code \in [Rule -> Seq(Instr)]
  /\ \A r \in Rule : \A k \in DOMAIN Code[r] :
       Code[r][k].op \in {"capt", "mcapt"} =>
         Code[r][k].num \in CaptIndex
  /\ \A v \in DOMAIN MarkerText : MarkerText[v] \in Seq(SUBSET Char)
  /\ \A w \in Inputs : w \in Seq(Char) /\ Len(w) <= MaxPos
  /\ MaxPos \in Nat /\ MaxParse \in Nat /\ MaxDepth \in Nat

Idx == 0 .. MaxPos

(* Definitions whose name holds an underscore state a slip in the definition   *)
(* that follows them; nothing uses them but the runs that show a property is   *)
(* able to fail.                                                                *)

VARIABLES
  input,    \* what PCC_GETCHAR delivers, in order
  start,    \* the first rule of the grammar
  phase,    \* where pcc_parse and the program around it are
  parses,   \* the number of calls of pcc_parse made
  pos,      \* ctx->pos: input position of the first buffered character
  cur,      \* ctx->cur: parsing position in the buffer
  bufn,     \* ctx->buffer.n: number of buffered characters
  table,    \* ctx->lrtable
  lrstack,  \* ctx->lrstack: addresses of lr entries
  frames,   \* the C call stack
  chunks,   \* heap of pcc_thunk_chunk_t
  answers,  \* heap of pcc_lr_answer_t
  entries,  \* heap of pcc_lr_entry_t
  heads,    \* heap of pcc_lr_head_t
  walk,     \* a and i of the loop over lrstack in pcc_apply_rule
  thunks,   \* ctx->thunks
  work,     \* what pcc_do_action still has to visit
  log       \* the actions this call of pcc_parse executed (observed only)

bufferVars == <<pos, bufn>>
heapVars   == <<chunks, answers, entries, heads>>
actVars    == <<thunks, work, log>>
lrVars     == <<table, lrstack, answers, entries, heads>>
envVars    == <<input, start, parses>>
vars == <<input, start, phase, parses, pos, cur, bufn, table, lrstack, frames,
          chunks, answers, entries, heads, walk, thunks, work, log>>

-----------------------------------------------------------------------------
(* The objects.  answer.at, answer.rule and chunk.rule are history: they   *)
(* say for which rule and input position the object was made.              *)

ThunkRec  == [type: {"leaf", "node"}, chunk: Nat, act: Nat, s: Nat, e: Nat]
Span      == [s: Nat, e: Nat]
ChunkRec  == [rule: Rule, pos: Nat, thunks: Seq(ThunkRec),
              capts: [CaptIndex -> Span], live: BOOLEAN]
AnswerRec == [type: {"LR", "CHUNK"}, pos: Nat, lr: Nat, chunk: Nat,
              rule: Rule, at: Nat, live: BOOLEAN]
EntryRec  == [rule: Rule, seed: Nat, head: Nat, live: BOOLEAN]
HeadRec   == [rule: Rule, invol: Seq(Rule), eval: Seq(Rule), live: BOOLEAN]
TableRec  == [head: Nat, memos: [Rule -> Nat], held: SUBSET Nat,
              heads: SUBSET Nat]
FrameRec  == [rule: Rule, p: Nat, mode: {"eval", "first", "grow"},
              ans: Nat, head: Nat, chunk: Nat, pc: Nat,
              ploc: [Slot -> Nat], nloc: [Slot -> Nat], iloc: [Slot -> Nat]]
LogRec    == [kind: {"action", "error"}, act: Nat, s: Nat, e: Nat,
              capts: [CaptIndex -> Span]]

Phases == {"idle", "calling", "running", "involve", "acting", "error",
           "commit", "eof", "exit", "destroyed", "crash"}

\* A node thunk points to the thunks of chunk c; a leaf thunk keeps a range of
\* its own but points to the captures of the chunk c it belongs to.
NodeThunk(c) == [type |-> "node", chunk |-> c, act |-> 0, s |-> 0, e |-> 0]
LeafThunk(c, act, s, e) == [type |-> "leaf", chunk |-> c, act |-> act, s |-> s, e |-> e]

NewChunk(r, at) ==
  [rule |-> r, pos |-> at, thunks |-> <<>>,
   capts |-> [k \in CaptIndex |-> [s |-> 0, e |-> 0]], live |-> TRUE]

NewAnswer(type, r, at, end, lr, c) ==
  [type |-> type, pos |-> end, lr |-> lr, chunk |-> c, rule |-> r, at |-> at,
   live |-> TRUE]

NoEntry == [head |-> NULL, memos |-> [r \in Rule |-> NULL], held |-> {},
            heads |-> {}]

Dead(o) == [o EXCEPT !.live = FALSE]

\* pcc_thunk_chunk__destroy: the chunk and the thunks it holds; the chunks its
\* node thunks point to belong to answers and stay.
FreeChunk(cs, c) ==
  IF c = NULL THEN cs ELSE [cs EXCEPT ![c] = [Dead(@) EXCEPT !.thunks = <<>>]]

-----------------------------------------------------------------------------
(* Rule sets: arrays without duplicates.                                    *)

Member(s, r) == \E k \in 1 .. Len(s) : s[k] = r

RuleSetAdd(s, r) == IF Member(s, r) THEN s ELSE Append(s, r)

RuleSetRemove_Nothing(s, r) == s

\* The elements behind the first occurrence of r move one place down; the
\* array keeps its length, so that its last element stays where it is.
RuleSetRemove(s, r) ==
  LET k == CHOOSE k \in 1 .. Len(s) :
             s[k] = r /\ \A j \in 1 .. (k - 1) : s[j] # r
  IN [j \in 1 .. Len(s) |->
        IF j < k \/ j = Len(s) THEN s[j] ELSE s[j + 1]]

-----------------------------------------------------------------------------
(* The buffer.                                                              *)

Larger(a, b)  == IF a < b THEN b ELSE a
Smaller(a, b) == IF a < b THEN a ELSE b

\* buffer.n after pcc_refill_buffer(ctx, k)
Refilled(k) == Larger(bufn, Smaller(cur + k, Len(input) - pos))

\* The k-th character from the parsing position on is there and is in S.
CharIn(k, S) == /\ pos + cur + k <= Len(input)
                /\ input[pos + cur + k] \in S

Matches(cs) == \A k \in 1 .. Len(cs) : CharIn(k, cs[k])

\* How many characters the comparison asks the buffer for: it goes on as long as
\* they match.
Examined(cs) ==
  Cardinality({k \in 1 .. Len(cs) : \A j \in 1 .. (k - 1) : CharIn(j, cs[j])})

-----------------------------------------------------------------------------
(* Frames.                                                                  *)

Top == frames[Len(frames)]
Stmt == Code[Top.rule][Top.pc]
At(op) == /\ phase = "running"
          /\ frames # <<>>
          /\ Top.pc \in DOMAIN Code[Top.rule]
          /\ Stmt.op = op
Jump(pc) == frames' = [frames EXCEPT ![Len(frames)].pc = pc]
Fall == Jump(Top.pc + 1)
Popped == SubSeq(frames, 1, Len(frames) - 1)

NewFrame_InBuffer(r, p, mode, a, h, c, at) ==
  [rule |-> r, p |-> at, mode |-> mode, ans |-> a, head |-> h, chunk |-> c,
   pc |-> 1, ploc |-> [x \in Slot |-> at], nloc |-> [x \in Slot |-> 0],
   iloc |-> [x \in Slot |-> 0]]

NewFrame(r, p, mode, a, h, c, at) ==
  [rule |-> r, p |-> p, mode |-> mode, ans |-> a, head |-> h, chunk |-> c,
   pc |-> 1, ploc |-> [x \in Slot |-> at], nloc |-> [x \in Slot |-> 0],
   iloc |-> [x \in Slot |-> 0]]

\* c = rule(ctx): enter the evaluation function with ctx->cur = at, on top of
\* the frames fs and with the chunks cs.  A call the stack has no room for ends
\* the process.
Evaluate(fs, cs, r, p, mode, a, h, at) ==
  IF Len(fs) >= MaxDepth
  THEN phase' = "crash" /\ frames' = fs /\ chunks' = cs
  ELSE /\ phase' = "running"
       /\ chunks' = Append(cs, NewChunk(r, at))
       /\ frames' = Append(fs, NewFrame(r, p, mode, a, h, Len(cs) + 1, at))

\* The end of pcc_apply_rule: a null chunk makes it return false and the caller
\* jump; otherwise a node thunk for c joins the caller's thunks.  With no frame
\* left the caller is pcc_parse.
Deliver(fs, cs, c) ==
  IF fs = <<>>
  THEN /\ frames' = fs
       /\ chunks' = cs
       /\ thunks' = IF c = NULL THEN thunks ELSE Append(thunks, NodeThunk(c))
       /\ work' = thunks'
       /\ phase' = IF c = NULL THEN "error" ELSE "acting"
  ELSE LET f == fs[Len(fs)] IN
       /\ frames' = [fs EXCEPT ![Len(fs)].pc =
                       IF c = NULL THEN Code[f.rule][f.pc].to ELSE f.pc + 1]
       /\ chunks' = IF c = NULL THEN cs
                    ELSE [cs EXCEPT ![f.chunk].thunks = Append(@, NodeThunk(c))]
       /\ phase' = "running"
       /\ UNCHANGED <<thunks, work>>

-----------------------------------------------------------------------------
Init ==
  /\ input \in Inputs
  /\ start \in StartRules
  /\ phase = "idle"
  /\ parses = 0
  /\ pos = 0 /\ cur = 0 /\ bufn = 0
  /\ table = [i \in Idx |-> NoEntry]
  /\ lrstack = <<>> /\ frames = <<>>
  /\ chunks = <<>> /\ answers = <<>> /\ entries = <<>> /\ heads = <<>>
  /\ walk = [ans |-> NULL, i |-> 0]
  /\ thunks = <<>> /\ work = <<>> /\ log = <<>>

(* pcc_parse: without a character to read it returns 0.                     *)
ParseBegin ==
  /\ phase = "idle"
  /\ parses < MaxParse
  /\ bufn' = Refilled(1)
  /\ phase' = IF bufn' >= cur + 1 THEN "calling" ELSE "eof"
  /\ parses' = parses + 1
  /\ log' = <<>>
  /\ UNCHANGED <<input, start, pos, cur, table, lrstack, frames, heapVars, walk,
                 thunks, work>>

-----------------------------------------------------------------------------
(* Statements that match input and move the parsing position.               *)

\* The comparison of the characters from the parsing position on with a string
\* (one set per character) or with a character class (one set).
Compare(cs) ==
  /\ bufn' = Refilled(Examined(cs))
  /\ cur' = IF Matches(cs) THEN cur + Len(cs) ELSE cur
  /\ Jump(IF Matches(cs) THEN Top.pc + 1 ELSE Stmt.to)
  /\ UNCHANGED <<envVars, phase, pos, table, lrstack, heapVars, walk, actVars>>

MatchChars == At("match") /\ Compare(Stmt.chars)

\* Matching the text of a capture: it is read from the buffer where the range
\* the capture recorded lies now.
CapturedText(c) ==
  [k \in 1 .. (IF c.e > c.s THEN c.e - c.s ELSE 0) |-> {input[pos + c.s + k]}]

MatchCapture ==
  At("mcapt") /\ Compare(CapturedText(chunks[Top.chunk].capts[Stmt.num]))

\* Matching the string of a marker variable; which value it has is the subject of
\* PackratMarkers.
CompareMarker(v) == At("mvar") /\ Compare(MarkerText[v])
MatchMarker == \E v \in DOMAIN MarkerText : CompareMarker(v)

\* A statement that does nothing but move to another one.
Control(op, pc) ==
  /\ At(op)
  /\ Jump(pc)
  /\ UNCHANGED <<envVars, phase, bufferVars, cur, table, lrstack, heapVars, walk,
                 actVars>>

MatchPosition ==
  Control("pos", IF pos + cur = Stmt.num THEN Top.pc + 1 ELSE Stmt.to)

GotoStmt == Control("goto", Stmt.to)

BreakIfEmpty_Never == Control("ifatp", Top.pc + 1)

\* if (ctx->cur == p) break;
BreakIfEmpty ==
  Control("ifatp", IF cur = Top.ploc[Stmt.slot] THEN Stmt.to ELSE Top.pc + 1)

\* The loop condition i < max, and if (i < min) after the loop.
BranchOnCount ==
  Control("ifge", IF Top.iloc[Stmt.slot] >= Stmt.num THEN Stmt.to
                                                     ELSE Top.pc + 1)

\* A programmable predicate, &{ ... } or !{ ... }, is the user's C code: it may
\* accept or reject.
Predicate == \E op \in {"pred", "npred"} :
               Control(op, Top.pc + 1) \/ Control(op, Stmt.to)

-----------------------------------------------------------------------------
(* Statements that save and restore positions in the locals of a block.     *)

SetTop(f) ==
  /\ frames' = [frames EXCEPT ![Len(frames)] = f]
  /\ UNCHANGED <<envVars, phase, bufferVars, cur, table, lrstack, heapVars, walk,
                 actVars>>

SavePosition ==
  At("savep") /\ SetTop([Top EXCEPT !.ploc[Stmt.slot] = cur, !.pc = @ + 1])

SaveThunkCount ==
  At("saven") /\ SetTop([Top EXCEPT
                           !.nloc[Stmt.slot] = Len(chunks[Top.chunk].thunks),
                           !.pc = @ + 1])

CountZero == At("zero") /\ SetTop([Top EXCEPT !.iloc[Stmt.slot] = 0, !.pc = @ + 1])

CountNext == At("inc") /\ SetTop([Top EXCEPT !.iloc[Stmt.slot] = @ + 1,
                                             !.pc = @ + 1])

\* ctx->cur = p;
RestorePosition ==
  /\ At("setp")
  /\ cur' = Top.ploc[Stmt.slot]
  /\ Fall
  /\ UNCHANGED <<envVars, phase, bufferVars, table, lrstack, heapVars, walk,
                 actVars>>

\* A statement that changes the chunk of the running function.
SetChunkOf(op, chunk) ==
  /\ At(op)
  /\ chunks' = [chunks EXCEPT ![Top.chunk] = chunk]
  /\ Fall
  /\ UNCHANGED <<envVars, phase, bufferVars, cur, lrVars, walk, actVars>>

CutTo(ths, n) == IF Len(ths) > n THEN SubSeq(ths, 1, n) ELSE ths

\* pcc_thunk_array__revert(ctx, &(chunk->thunks), n);
RevertThunks ==
  SetChunkOf("revert", [chunks[Top.chunk] EXCEPT
                          !.thunks = CutTo(@, Top.nloc[Stmt.slot])])

RecordCapture ==
  SetChunkOf("capt", [chunks[Top.chunk] EXCEPT
                        !.capts[Stmt.num] = [s |-> Top.ploc[Stmt.slot],
                                             e |-> cur]])

\* An action makes a leaf thunk for the text from the chunk's start to here.
ThunkAction ==
  SetChunkOf("act", [chunks[Top.chunk] EXCEPT
                       !.thunks = Append(@, LeafThunk(Top.chunk, Stmt.num,
                                                      chunks[Top.chunk].pos, cur))])

\* What the user's code sees of an action at s .. e and the captures of chunk c,
\* as positions in the input.
Placed(x) == IF x.e > x.s THEN [s |-> pos + x.s, e |-> pos + x.e]
                          ELSE [s |-> 0, e |-> 0]
Executed(kind, act, s, e, c) ==
  [kind |-> kind, act |-> act, s |-> pos + s, e |-> pos + e,
   capts |-> [k \in CaptIndex |-> Placed(chunks[c].capts[k])]]

\* An error action is executed at once; matching then fails.
ErrorAction ==
  /\ At("err")
  /\ log' = Append(log, Executed("error", Stmt.num, chunks[Top.chunk].pos, cur,
                               Top.chunk))
  /\ Fall
  /\ UNCHANGED <<envVars, phase, bufferVars, cur, table, lrstack, heapVars, walk,
                 thunks, work>>

-----------------------------------------------------------------------------
(* pcc_apply_rule: the look-up.                                             *)

Applying == phase = "calling" \/ At("apply")
Applied  == IF phase = "calling" THEN start ELSE Stmt.rule
Here     == pos + cur
MemoHere == table[Here].memos[Applied]
HeadHere == table[Here].head

\* While a seed grows here, a rule that is neither memoized nor involved fails.
Blocked == /\ HeadHere # NULL
           /\ MemoHere = NULL
           /\ Applied # heads[HeadHere].rule
           /\ ~Member(heads[HeadHere].invol, Applied)

\* While a seed grows here, a rule of the head's eval set is evaluated anew.
Reevaluated == /\ HeadHere # NULL
               /\ ~Blocked
               /\ Member(heads[HeadHere].eval, Applied)

ApplyBlocked ==
  /\ Applying /\ Blocked
  /\ Deliver(frames, chunks, NULL)
  /\ UNCHANGED <<envVars, bufferVars, cur, lrVars, walk, log>>

ApplyReevaluate ==
  /\ Applying /\ Reevaluated
  /\ heads' = [heads EXCEPT ![HeadHere].eval = RuleSetRemove(@, Applied)]
  /\ Evaluate(frames, chunks, Applied, Here, "eval", NULL, HeadHere, cur)
  /\ UNCHANGED <<envVars, bufferVars, cur, table, lrstack, answers, entries, walk,
                 actVars>>

\* A memoized result: the parsing position moves to its end.
ApplyMemoized ==
  /\ Applying /\ ~Blocked /\ ~Reevaluated
  /\ MemoHere # NULL
  /\ answers[MemoHere].type = "CHUNK"
  /\ cur' = answers[MemoHere].pos - pos
  /\ Deliver(frames, chunks, answers[MemoHere].chunk)
  /\ UNCHANGED <<envVars, bufferVars, lrVars, walk, log>>

\* A left recursion: the rule is being evaluated at this position already (or
\* was, as an involved rule).  Its lr entry gets a head if it has none, and the
\* walk over lrstack begins.
ApplyRecursive ==
  /\ Applying /\ ~Blocked /\ ~Reevaluated
  /\ MemoHere # NULL
  /\ answers[MemoHere].type = "LR"
  /\ cur' = answers[MemoHere].pos - pos
  /\ walk' = [ans |-> MemoHere, i |-> Len(lrstack)]
  /\ phase' = "involve"
  /\ IF entries[answers[MemoHere].lr].head = NULL
     THEN /\ heads' = Append(heads, [rule |-> Applied, invol |-> <<>>,
                                     eval |-> <<>>, live |-> TRUE])
          /\ entries' = [entries EXCEPT ![answers[MemoHere].lr].head =
                                           Len(heads) + 1]
          /\ table' = [table EXCEPT ![Here].heads = @ \cup {Len(heads) + 1}]
     ELSE UNCHANGED <<heads, entries, table>>
  /\ UNCHANGED <<envVars, bufferVars, lrstack, frames, chunks, answers, actVars>>

\* One turn of the walk: the lr entries above the one that has the head already
\* get it, and their rules become involved.
WalkHead == entries[answers[walk.ans].lr].head

Involve ==
  /\ phase = "involve"
  /\ walk.i > 0
  /\ entries[lrstack[walk.i]].head # WalkHead
  /\ entries' = [entries EXCEPT ![lrstack[walk.i]].head = WalkHead]
  /\ heads' = [heads EXCEPT ![WalkHead].invol =
                               RuleSetAdd(@, entries[lrstack[walk.i]].rule)]
  /\ walk' = [walk EXCEPT !.i = @ - 1]
  /\ UNCHANGED <<envVars, phase, bufferVars, cur, table, lrstack, frames, chunks,
                 answers, actVars>>

\* The end of the walk: the recursive application yields the seed so far.
Involved ==
  /\ phase = "involve"
  /\ walk.i > 0 => entries[lrstack[walk.i]].head = WalkHead
  /\ Deliver(frames, chunks, entries[answers[walk.ans].lr].seed)
  /\ UNCHANGED <<envVars, bufferVars, cur, lrVars, walk, log>>

\* The first application: memoize a left-recursion marker, then evaluate.
ApplyFirst ==
  /\ Applying /\ ~Blocked /\ ~Reevaluated
  /\ MemoHere = NULL
  /\ entries' = Append(entries, [rule |-> Applied, seed |-> NULL, head |-> NULL,
                                 live |-> TRUE])
  /\ lrstack' = Append(lrstack, Len(entries) + 1)
  /\ answers' = Append(answers, NewAnswer("LR", Applied, Here, Here,
                                          Len(entries) + 1, NULL))
  /\ table' = [table EXCEPT ![Here].memos[Applied] = Len(answers) + 1]
  /\ Evaluate(frames, chunks, Applied, Here, "first", Len(answers) + 1, NULL, cur)
  /\ UNCHANGED <<envVars, bufferVars, cur, heads, walk, actVars>>

-----------------------------------------------------------------------------
(* pcc_apply_rule: what follows c = rule(ctx).                              *)

Returning(mode) == (At("ret") \/ At("fail")) /\ Top.mode = mode
Result       == IF Stmt.op = "ret" THEN Top.chunk ELSE NULL
AfterReturn  == IF Stmt.op = "ret" THEN chunks ELSE FreeChunk(chunks, Top.chunk)
Reached      == pos + cur

WithChunk_NewTwice(as, a, c) ==
  Append([as EXCEPT ![a] = [@ EXCEPT !.type = "CHUNK", !.lr = NULL, !.chunk = c]],
         [as[a] EXCEPT !.type = "CHUNK", !.lr = NULL, !.chunk = c])

\* pcc_lr_answer__set_chunk: the former data move to a new answer behind a, for
\* destruction only.
WithChunk(as, a, c) ==
  Append([as EXCEPT ![a] = [@ EXCEPT !.type = "CHUNK", !.lr = NULL, !.chunk = c]],
         as[a])

\* An answer that only owns its data joins those kept in the entry of position p.
Held(p) == [table EXCEPT ![p].held = @ \cup {Len(answers) + 1}]

OwnEntry == answers[Top.ans].lr
OwnHead  == entries[OwnEntry].head
PopLR_Oldest == Tail(lrstack)
PopLR    == SubSeq(lrstack, 1, Len(lrstack) - 1)

\* The result of a re-evaluation is held but not memoized.
ReturnReevaluated ==
  /\ Returning("eval")
  /\ answers' = Append(answers, NewAnswer("CHUNK", Top.rule, Top.p, Reached, NULL,
                                          Result))
  /\ table' = Held(Top.p)
  /\ Deliver(Popped, AfterReturn, Result)
  /\ UNCHANGED <<envVars, bufferVars, cur, lrstack, entries, heads, walk, log>>

\* No left recursion met: the marker becomes the memoized result.
ReturnPlain ==
  /\ Returning("first")
  /\ OwnHead = NULL
  /\ lrstack' = PopLR
  /\ answers' = WithChunk([answers EXCEPT ![Top.ans].pos = Reached], Top.ans, Result)
  /\ table' = Held(Top.p)
  /\ Deliver(Popped, AfterReturn, Result)
  /\ UNCHANGED <<envVars, bufferVars, cur, entries, heads, walk, log>>

\* Involved in the left recursion of another rule: the result becomes the seed
\* of the marker, and the marker stays.
ReturnInvolved ==
  /\ Returning("first")
  /\ OwnHead # NULL
  /\ heads[OwnHead].rule # Top.rule
  /\ lrstack' = PopLR
  /\ answers' = Append([answers EXCEPT ![Top.ans].pos = Reached],
                       NewAnswer("CHUNK", Top.rule, Top.p, Reached, NULL, Result))
  /\ entries' = [entries EXCEPT ![OwnEntry].seed = Result]
  /\ table' = Held(Top.p)
  /\ Deliver(Popped, AfterReturn, Result)
  /\ UNCHANGED <<envVars, bufferVars, cur, heads, walk, log>>

\* The head of a left recursion whose seed failed.
ReturnNoSeed ==
  /\ Returning("first")
  /\ OwnHead # NULL
  /\ heads[OwnHead].rule = Top.rule
  /\ Result = NULL
  /\ lrstack' = PopLR
  /\ answers' = WithChunk([answers EXCEPT ![Top.ans].pos = Reached], Top.ans, NULL)
  /\ entries' = [entries EXCEPT ![OwnEntry].seed = NULL]
  /\ table' = Held(Top.p)
  /\ Deliver(Popped, AfterReturn, NULL)
  /\ UNCHANGED <<envVars, bufferVars, cur, heads, walk, log>>

\* One more turn of the growing loop: back to the start of the rule, with every
\* involved rule to be evaluated anew.
GrowTurn(a, h) ==
  /\ cur' = Top.p - pos
  /\ heads' = [heads EXCEPT ![h].eval = heads[h].invol]
  /\ Evaluate(Popped, AfterReturn, Top.rule, Top.p, "grow", a, h, Top.p - pos)

\* The head of a left recursion has a seed: growing begins.
ReturnSeed ==
  /\ Returning("first")
  /\ OwnHead # NULL
  /\ heads[OwnHead].rule = Top.rule
  /\ Result # NULL
  /\ lrstack' = PopLR
  /\ answers' = WithChunk([answers EXCEPT ![Top.ans].pos = Reached], Top.ans, Result)
  /\ entries' = [entries EXCEPT ![OwnEntry].seed = Result]
  /\ table' = [Held(Top.p) EXCEPT ![Top.p].head = OwnHead]
  /\ GrowTurn(Top.ans, OwnHead)
  /\ UNCHANGED <<envVars, bufferVars, walk, actVars>>

Grew_NotLonger == Result # NULL
Grew_Never     == FALSE

Grew == Result # NULL /\ Reached > answers[Top.ans].pos

\* The evaluation got further than the last one: it becomes the result.
GrowNext ==
  /\ Returning("grow")
  /\ Grew
  /\ answers' = [WithChunk(answers, Top.ans, Result) EXCEPT ![Top.ans].pos = Reached]
  /\ table' = Held(Top.p)
  /\ GrowTurn(Top.ans, Top.head)
  /\ UNCHANGED <<envVars, bufferVars, lrstack, entries, walk, actVars>>

Unheaded(p) == [table EXCEPT ![p].head = NULL]

\* It did not: the last result stands and the head is taken away.
GrowEnd ==
  /\ Returning("grow")
  /\ ~Grew
  /\ table' = Unheaded(Top.p)
  /\ cur' = answers[Top.ans].pos - pos
  /\ Deliver(Popped, FreeChunk(AfterReturn, Result), answers[Top.ans].chunk)
  /\ UNCHANGED <<envVars, bufferVars, lrstack, answers, entries, heads, walk, log>>

-----------------------------------------------------------------------------
(* The end of pcc_parse.                                                    *)

\* pcc_do_action: the leaves of the thunk tree in order.
DoAction ==
  /\ phase = "acting"
  /\ work # <<>>
  /\ IF Head(work).type = "leaf"
     THEN /\ log' = Append(log, Executed("action", Head(work).act, Head(work).s,
                                       Head(work).e, Head(work).chunk))
          /\ work' = Tail(work)
     ELSE /\ work' = chunks[Head(work).chunk].thunks \o Tail(work)
          /\ UNCHANGED log
  /\ UNCHANGED <<envVars, phase, bufferVars, cur, table, lrstack, frames, heapVars,
                 walk, thunks>>

ActionsDone ==
  /\ phase = "acting"
  /\ work = <<>>
  /\ phase' = "commit"
  /\ UNCHANGED <<envVars, bufferVars, cur, table, lrstack, frames, heapVars, walk,
                 actVars>>

\* PCC_ERROR is the user's: it leaves the program or returns.
SyntaxError ==
  /\ phase = "error"
  /\ phase' \in {"exit", "commit"}
  /\ UNCHANGED <<envVars, bufferVars, cur, table, lrstack, frames, heapVars, walk,
                 actVars>>

\* Destroying the table entries I: their answers with what those own, their heads.
Destroyed(I) ==
  LET as == UNION {table[i].held \cup {table[i].memos[r] : r \in Rule} : i \in I}
      Owned(type) == {a \in as \cap DOMAIN answers : answers[a].type = type}
      cs == {answers[a].chunk : a \in Owned("CHUNK")}
      es == {answers[a].lr : a \in Owned("LR")}
      hs == UNION {table[i].heads : i \in I}
  IN /\ answers' = [a \in DOMAIN answers |->
                      IF a \in as THEN Dead(answers[a]) ELSE answers[a]]
     /\ chunks'  = [c \in DOMAIN chunks |->
                      IF c \in cs THEN FreeChunk(chunks, c)[c] ELSE chunks[c]]
     /\ entries' = [e \in DOMAIN entries |->
                      IF e \in es THEN Dead(entries[e]) ELSE entries[e]]
     /\ heads'   = [h \in DOMAIN heads |->
                      IF h \in hs THEN Dead(heads[h]) ELSE heads[h]]

Shifted_OneLess(n) ==
  [i \in Idx |-> IF i + n - 1 \in Idx THEN table[i + n - 1] ELSE NoEntry]
Shifted_Backwards(n) == [i \in Idx |-> IF i >= n THEN table[i - n] ELSE NoEntry]

\* What lr_table__shift makes of the table, seen through its accessors.
Shifted(n) == [i \in Idx |-> IF i + n \in Idx THEN table[i + n] ELSE NoEntry]

\* pcc_commit_buffer, and the reverting of ctx->thunks behind it.
Commit ==
  /\ phase = "commit"
  /\ bufn' = bufn - cur
  /\ pos' = pos + cur
  /\ Destroyed({i \in Idx : i < cur})
  /\ table' = Shifted(cur)
  /\ cur' = 0
  /\ thunks' = CutTo(thunks, 0)
  /\ phase' = "idle"
  /\ UNCHANGED <<envVars, lrstack, frames, walk, work, log>>

\* pcc_destroy, once the program has had enough.
Destroy ==
  /\ phase \in {"idle", "eof"}
  /\ Destroyed(Idx)
  /\ table' = [i \in Idx |-> NoEntry]
  /\ phase' = "destroyed"
  /\ UNCHANGED <<envVars, bufferVars, cur, lrstack, frames, walk, actVars>>

\* The program has ended.
Ended == phase \in {"exit", "crash", "destroyed"} /\ UNCHANGED vars

-----------------------------------------------------------------------------
Statement ==
  \/ MatchChars \/ MatchCapture \/ MatchMarker \/ MatchPosition \/ GotoStmt \/ BreakIfEmpty
  \/ BranchOnCount \/ Predicate \/ SavePosition \/ SaveThunkCount \/ CountZero
  \/ CountNext \/ RestorePosition \/ RevertThunks \/ RecordCapture
  \/ ThunkAction \/ ErrorAction

Apply ==
  \/ ApplyBlocked \/ ApplyReevaluate \/ ApplyMemoized \/ ApplyRecursive
  \/ Involve \/ Involved \/ ApplyFirst

Return ==
  \/ ReturnReevaluated \/ ReturnPlain \/ ReturnInvolved \/ ReturnNoSeed
  \/ ReturnSeed \/ GrowNext \/ GrowEnd

Finish == DoAction \/ ActionsDone \/ SyntaxError \/ Commit

Parsing == ParseBegin \/ Statement \/ Apply \/ Return \/ Finish

Next == Parsing \/ Destroy \/ Ended

Spec == Init /\ [][Next]_vars

\* pcc_parse runs to its end once called: nothing in it waits.  Whether the
\* program calls it again or destroys the context is the program's choice.
FairSpec == Spec /\ WF_vars(Statement \/ Apply \/ Return \/ Finish)
=============================================================================
