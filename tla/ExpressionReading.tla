------------------------- MODULE ExpressionReading -------------------------
(***************************************************************************)
(* How packcc reads the rules of a grammar: parse_rule, parse_expression,  *)
(* parse_sequence, parse_term and parse_primary, called by parse_file_     *)
(* until the file ends.  The calls are a stack of frames; a function that  *)
(* fails destroys what it has made and takes the input back to where it    *)
(* began, but what it entered in the lists of the rule stays there.        *)
(*                                                                         *)
(* A file is a sequence of tokens: names, numbers, literals and code       *)
(* blocks, which are one token each, line ends, and the characters of the  *)
(* syntax.  Blanks are left out.  Nodes are known by the order in which    *)
(* they are created.  Directives are in GrammarReading.                    *)
(***************************************************************************)
EXTENDS Integers, Sequences, FiniteSets, SequencesExt

CONSTANTS
  Texts,       \* the files
  Identifier,  \* tokens that are names,
  Number,      \* decimal numbers,
  Class,       \* character classes,
  String,      \* quotations and
  Code,        \* code blocks
  EOL,         \* the token for a line end
  Value,       \* the value of each number; VOID if it does not fit a size_t
  Faults       \* the errors reported when a node is made of a token

NULL == 0
VOID == -1
NONE == "none"   \* a reference without a variable
END  == "end"    \* behind the last token

\* The characters of the syntax.
Signs == {"(", ")", "<", ">", "-", "$", "@", "^", ".", "&", "!", "*", "+", "?", "~", "/", ":"}

\* A name is no literal or code block, and none of these is a sign.
ASSUME TokenAssumption ==
  /\ Identifier \cap (Class \cup String \cup Code) = {}
  /\ (Identifier \cup Class \cup String \cup Code) \cap (Signs \cup {NONE, END}) = {}

\* Errors are counted.
ASSUME FaultsAssumption ==
  \A t \in Identifier \cup Number \cup Class \cup String \cup {"^", "."} : Faults[t] \in Nat

VARIABLES
  text,    \* the file
  input,   \* the place in it: the next token and the lines before it
  legal,   \* b of parse_file_: nothing is being skipped
  stack,   \* the calls that have not returned
  ret,     \* what the last call has returned
  heap,    \* the nodes, those that were destroyed included
  rule,    \* the rule that is being read, and its lists
  rules,   \* ctx->rules
  errnum   \* errors reported

readVars == <<text, input, legal, stack, ret, heap, rule, rules, errnum>>

-----------------------------------------------------------------------------
(* Input.                                                                   *)

Tok(k) == IF k <= Len(text) THEN text[k] ELSE END
At(w)  == Tok(w.cur)
Past(w) == [w EXCEPT !.cur = @ + 1]

\* input_state__match_spaces: line ends are counted when they are passed.
Spaced(w) ==
  LET n == CHOOSE k \in 0 .. Len(text) :
             At([w EXCEPT !.cur = @ + k]) # EOL /\ \A h \in 0 .. (k - 1) : Tok(w.cur + h) = EOL
  IN [cur |-> w.cur + n, line |-> w.line + n]

\* Behind the token and the spaces that follow it.
After(w) == Spaced(Past(w))

\* input_state__match_string(input, "<-").
Arrow(w) == At(w) = "<" /\ At(Past(w)) = "-"

-----------------------------------------------------------------------------
(* Nodes.                                                                   *)

Node(type, nodes, name) ==
  [type |-> type, nodes |-> nodes, name |-> name, rvar |-> NONE, index |-> VOID]

Create(h, node) == Append(h, [node |-> node, live |-> TRUE])
New == Len(heap) + 1

\* node_array__add, and the assignment of an expression to a node.
Adopt(h, n, c) == [h EXCEPT ![n].node.nodes = Append(@, c)]

\* The nodes below those of S.
Children(h, S) == UNION {ToSet(h[n].node.nodes) : n \in S}

\* A node and all below it, the levels of which are no more than there are nodes.
Family(h, n) ==
  LET upto[k \in 0 .. Len(h)] ==
        IF k = 0 THEN {n} ELSE LET S == upto[k - 1] IN S \cup Children(h, S)
  IN upto[Len(h)]

\* The nodes of S are freed.
Destroyed(h, S) == [k \in DOMAIN h |-> IF k \in S THEN [h[k] EXCEPT !.live = FALSE] ELSE h[k]]

destroy_node_Alone(h, n) == IF n = NULL THEN h ELSE [h EXCEPT ![n].live = FALSE]

destroy_node(h, n) ==
  IF n = NULL THEN h ELSE Destroyed(h, Family(h, n))

NewRule(name) ==
  [name |-> name, expr |-> NULL, rvars |-> <<>>, capts |-> <<>>, codes |-> <<>>, preds |-> <<>>]

-----------------------------------------------------------------------------
(* Calls.                                                                   *)

Top == Last(stack)
Runs(fn, at) == stack # <<>> /\ Top.fn = fn /\ Top.at = at

\* A call at w: where it goes on, where it began, the node it makes (n_p to n_e)
\* and the prefix of a term.
Frame(fn, at, w) == [fn |-> fn, at |-> at, from |-> w, node |-> NULL, prefix |-> NONE]

\* parse_expression starts with parse_sequence, and that with parse_term.
SequenceAt(w)   == <<Frame("sequence", "first", w), Frame("term", "prefix", w)>>
ExpressionAt(w) == <<Frame("expression", "sequences", w)>> \o SequenceAt(w)

\* The function goes on as in frame when the calls at w have returned.
Call(frame, calls, w) ==
  stack' = Append(Front(stack), frame) \o calls /\ input' = w /\ ret' = NULL

Return(n, w) == stack' = Front(stack) /\ ret' = n /\ input' = w

\* EXCEPTION: bufcur, linenum, charnum and linepos are set back.
Fail(h) == heap' = h /\ Return(NULL, Top.from)

-----------------------------------------------------------------------------
(* parse_primary.                                                           *)

Primary == Runs("primary", "entry")

\* An entry in a list of the rule, once for each variable.
Known_Last(v) == rule.rvars # <<>> /\ heap[Last(rule.rvars)].node.rvar = v
Known(v) == \E k \in DOMAIN rule.rvars : heap[rule.rvars[k]].node.rvar = v
IndexOf(v) ==
  IF Known(v) THEN (CHOOSE k \in DOMAIN rule.rvars : heap[rule.rvars[k]].node.rvar = v) - 1
  ELSE Len(rule.rvars)

\* A name, and another one before it if it has a variable.  At the name of the
\* next rule the expression ends.
Named == At(After(input)) = ":"
NameAt == IF Named THEN After(After(input)) ELSE input
Refers_Always == At(NameAt) \in Identifier
Refers == At(NameAt) \in Identifier /\ ~ Arrow(After(NameAt))

Reference ==
  /\ Primary /\ At(input) \in Identifier
  /\ IF Refers
     THEN LET v == IF Named THEN At(input) ELSE NONE
              node == [Node("REFERENCE", <<>>, At(NameAt)) EXCEPT
                         !.rvar = v, !.index = IF Named THEN IndexOf(v) ELSE VOID]
          IN /\ heap' = Create(heap, node) /\ Return(New, After(NameAt))
             /\ rule' = IF Named /\ ~ Known(v) THEN [rule EXCEPT !.rvars = Append(@, New)] ELSE rule
             /\ errnum' = errnum + IF Named THEN Faults[v] ELSE 0
     ELSE Fail(heap) /\ UNCHANGED <<rule, errnum>>
  /\ UNCHANGED <<text, legal, rules>>

Group ==
  /\ Primary /\ At(input) = "("
  /\ Call([Top EXCEPT !.at = "group"], ExpressionAt(After(input)), After(input))
  /\ UNCHANGED <<text, legal, heap, rule, rules, errnum>>

GroupEnd ==
  /\ Runs("primary", "group")
  /\ IF ret # NULL /\ At(input) = ")" THEN Return(ret, After(input)) /\ UNCHANGED heap
     ELSE Fail(destroy_node(heap, ret))
  /\ UNCHANGED <<text, legal, rule, rules, errnum>>

Capture ==
  /\ Primary /\ At(input) = "<"
  /\ heap' = Create(heap, [Node("CAPTURE", <<>>, NONE) EXCEPT !.index = Len(rule.capts)])
  /\ rule' = [rule EXCEPT !.capts = Append(@, New)]
  /\ Call([Top EXCEPT !.at = "capture", !.node = New], ExpressionAt(After(input)), After(input))
  /\ UNCHANGED <<text, legal, rules, errnum>>

\* A capture that fails gives its index back, and with it those inside it.
GivenBack(capts, index) == SubSeq(capts, 1, index)

CaptureEnd ==
  /\ Runs("primary", "capture")
  /\ LET h == IF ret = NULL THEN heap ELSE Adopt(heap, Top.node, ret) IN
     IF ret # NULL /\ At(input) = ">"
     THEN heap' = h /\ Return(Top.node, After(input)) /\ UNCHANGED rule
     ELSE /\ Fail(destroy_node(h, Top.node))
          /\ rule' = [rule EXCEPT !.capts = GivenBack(@, heap[Top.node].node.index)]
  /\ UNCHANGED <<text, legal, rules, errnum>>

\* What $n refers to: 0 when n is no legal number.
Dollar(t) == IF Faults[t] = 0 THEN Value[t] - 1 ELSE IF Value[t] = VOID THEN VOID ELSE 0

\* $ or @, and the token that has to follow it.
Operand ==
  /\ Primary /\ At(input) \in {"$", "@"}
  /\ LET w == After(input) t == At(w) IN
     CASE At(input) = "$" /\ t \in Number ->
            /\ heap' = Create(heap, [Node("MATCH_CAPT", <<>>, t) EXCEPT !.index = Dollar(t)])
            /\ Return(New, After(w)) /\ errnum' = errnum + Faults[t]
       [] At(input) = "@" /\ t \in Identifier ->
            /\ heap' = Create(heap, Node("MATCH_MVAR", <<>>, t))
            /\ Return(New, After(w)) /\ UNCHANGED errnum
       [] OTHER -> Fail(heap) /\ UNCHANGED errnum
  /\ UNCHANGED <<text, legal, rule, rules>>

LiteralType(t) ==
  IF t = "^" THEN "POSITION" ELSE IF t \in String THEN "STRING" ELSE "CHARCLASS"

Literal ==
  /\ Primary /\ At(input) \in {"^", "."} \cup Class \cup String
  /\ heap' = Create(heap, Node(LiteralType(At(input)), <<>>, At(input)))
  /\ Return(New, After(input))
  /\ errnum' = errnum + Faults[At(input)]
  /\ UNCHANGED <<text, legal, rule, rules>>

Action ==
  /\ Primary /\ At(input) \in Code
  /\ heap' = Create(heap, [Node("ACTION", <<>>, NONE) EXCEPT !.index = Len(rule.codes)])
  /\ rule' = [rule EXCEPT !.codes = Append(@, New)]
  /\ Return(New, After(input))
  /\ UNCHANGED <<text, legal, rules, errnum>>

Beginnings == Identifier \cup Class \cup String \cup Code \cup {"(", "<", "$", "@", "^", "."}

NoPrimary ==
  /\ Primary /\ At(input) \notin Beginnings
  /\ Fail(heap)
  /\ UNCHANGED <<text, legal, rule, rules, errnum>>

-----------------------------------------------------------------------------
(* parse_term.                                                              *)

\* & or ! before a code block is a predicate by itself; before anything else it
\* is the prefix of what follows.
Prefix ==
  /\ Runs("term", "prefix")
  /\ LET t == IF At(input) \in {"&", "!"} THEN At(input) ELSE NONE
         w == IF t = NONE THEN input ELSE After(input)
     IN IF t # NONE /\ At(w) \in Code
        THEN /\ heap' = Create(heap, [Node("PROGPRED", <<>>, t) EXCEPT !.index = Len(rule.preds)])
             /\ rule' = [rule EXCEPT !.preds = Append(@, New)]
             /\ Call([Top EXCEPT !.at = "error", !.node = New], <<>>, After(w))
        ELSE /\ Call([Top EXCEPT !.at = "quantity", !.prefix = t],
                     <<Frame("primary", "entry", w)>>, w)
             /\ UNCHANGED <<heap, rule>>
  /\ UNCHANGED <<text, legal, rules, errnum>>

\* The node n, or a new one around it.
Wrapped(h, n, type, t) ==
  IF t = NONE THEN [heap |-> h, node |-> n]
  ELSE [heap |-> Create(h, Node(type, <<n>>, t)), node |-> Len(h) + 1]

\* The quantifier and the prefix.
Quantity ==
  /\ Runs("term", "quantity")
  /\ IF ret = NULL THEN Fail(heap)
     ELSE LET t == IF At(input) \in {"*", "+", "?"} THEN At(input) ELSE NONE
              quantity  == Wrapped(heap, ret, "QUANTITY", t)
              predicate == Wrapped(quantity.heap, quantity.node, "PREDICATE", Top.prefix)
          IN /\ heap' = predicate.heap
             /\ Call([Top EXCEPT !.at = "error", !.node = predicate.node], <<>>,
                     IF t = NONE THEN input ELSE After(input))
  /\ UNCHANGED <<text, legal, rule, rules, errnum>>

\* ~ and its code block.
Error ==
  /\ Runs("term", "error")
  /\ CASE At(input) # "~" -> Return(Top.node, input) /\ UNCHANGED <<heap, rule>>
       [] At(input) = "~" /\ At(After(input)) \in Code ->
            /\ heap' = Create(heap, [Node("ERROR", <<Top.node>>, NONE) EXCEPT !.index = Len(rule.codes)])
            /\ rule' = [rule EXCEPT !.codes = Append(@, New)]
            /\ Return(New, After(After(input)))
       [] OTHER -> Fail(destroy_node(heap, Top.node)) /\ UNCHANGED rule
  /\ UNCHANGED <<text, legal, rules, errnum>>

-----------------------------------------------------------------------------
(* parse_sequence and parse_expression.                                     *)

TermAt(w) == <<Frame("term", "prefix", w)>>

FirstTerm ==
  /\ Runs("sequence", "first")
  /\ IF ret = NULL THEN Fail(heap)
     ELSE Call([Top EXCEPT !.at = "second", !.node = ret], TermAt(input), input) /\ UNCHANGED heap
  /\ UNCHANGED <<text, legal, rule, rules, errnum>>

\* A term that fails ends the sequence.
SecondTerm ==
  /\ Runs("sequence", "second")
  /\ IF ret = NULL THEN Return(Top.node, input) /\ UNCHANGED heap
     ELSE /\ heap' = Create(heap, Node("SEQUENCE", <<Top.node, ret>>, NONE))
          /\ Call([Top EXCEPT !.at = "more", !.node = New], TermAt(input), input)
  /\ UNCHANGED <<text, legal, rule, rules, errnum>>

NextTerm ==
  /\ Runs("sequence", "more")
  /\ IF ret = NULL THEN Return(Top.node, input) /\ UNCHANGED heap
     ELSE heap' = Adopt(heap, Top.node, ret) /\ Call(Top, TermAt(input), input)
  /\ UNCHANGED <<text, legal, rule, rules, errnum>>

\* The alternation with its next branch, made when the first / is seen.
Branches ==
  IF Top.node # NULL THEN [heap |-> Adopt(heap, Top.node, ret), node |-> Top.node]
  ELSE IF At(input) = "/" THEN Wrapped(heap, ret, "ALTERNATE", "/")
  ELSE [heap |-> heap, node |-> ret]

Alternative ==
  /\ Runs("expression", "sequences")
  /\ IF ret = NULL THEN Fail(destroy_node(heap, Top.node))
     ELSE /\ heap' = Branches.heap
          /\ IF At(input) = "/"
             THEN Call([Top EXCEPT !.node = Branches.node], SequenceAt(After(input)), After(input))
             ELSE Return(Branches.node, input)
  /\ UNCHANGED <<text, legal, rule, rules, errnum>>

-----------------------------------------------------------------------------
(* parse_rule and the loop of parse_file_.                                  *)

InitReading ==
  /\ text \in Texts
  /\ input = Spaced([cur |-> 1, line |-> 0])
  /\ legal = TRUE /\ stack = <<>> /\ ret = NULL
  /\ heap = <<>> /\ rule = NewRule(NONE) /\ rules = <<>> /\ errnum = 0

AtFile == stack = <<>> /\ At(input) # END
Begins == At(input) \in Identifier /\ Arrow(After(input))

RuleBegin ==
  /\ AtFile /\ Begins
  /\ LET w == After(Past(After(input))) IN
       /\ rule' = NewRule(At(input))
       /\ stack' = <<Frame("rule", "expression", input)>> \o ExpressionAt(w)
       /\ input' = w /\ ret' = NULL
  /\ UNCHANGED <<text, legal, heap, rules, errnum>>

\* What is not a rule is reported where it begins, and one name, one space or one
\* character of it is passed.
Illegal(w) ==
  /\ errnum' = IF legal THEN errnum + 1 ELSE errnum
  /\ legal' = FALSE
  /\ input' = IF At(w) = EOL THEN Spaced(w) ELSE Past(w)
  /\ stack' = <<>> /\ ret' = NULL
  /\ UNCHANGED rules

RuleEnd ==
  /\ Runs("rule", "expression")
  /\ IF ret = NULL THEN Illegal(Top.from)
     ELSE /\ rules' = Append(rules, [rule EXCEPT !.expr = ret])
          /\ legal' = TRUE /\ stack' = <<>> /\ ret' = NULL /\ UNCHANGED <<input, errnum>>
  /\ rule' = NewRule(NONE)
  /\ UNCHANGED <<text, heap>>

NoRule ==
  /\ AtFile /\ ~ Begins
  /\ Illegal(input)
  /\ UNCHANGED <<text, heap, rule>>

Reading ==
  \/ Reference \/ Group \/ GroupEnd \/ Capture \/ CaptureEnd
  \/ Operand \/ Literal \/ Action \/ NoPrimary
  \/ Prefix \/ Quantity \/ Error
  \/ FirstTerm \/ SecondTerm \/ NextTerm \/ Alternative
  \/ RuleBegin \/ RuleEnd \/ NoRule

\* The file has been read.
AllRead == stack = <<>> /\ At(input) = END
=============================================================================
