--------------------------- MODULE GrammarReading ---------------------------
(***************************************************************************)
(* parse_file_: how packcc reads a grammar and what it imports.  The input *)
(* states form a stack by their field parent; each file is registered in   *)
(* finfo when its reading begins, and is not read again.                   *)
(*                                                                         *)
(* The text of a file is a sequence of items, what one turn of the loop of *)
(* parse_file_ takes: a rule, a directive or something illegal; the        *)
(* version constraints behind %import and %requires are an item of their   *)
(* own, because they are read where the directive before them succeeded.   *)
(* A number of a version is a sequence of digits, as compare_digits sees   *)
(* it.  The code blocks and the dangling %requires without a name are left *)
(* out.                                                                    *)
(***************************************************************************)
EXTENDS Integers, Sequences, FiniteSets, SequencesExt

CONSTANTS
  File,          \* what fopen can open, by its file_id_t
  Root,          \* the file named in the command line
  Contents,      \* functions from File to sequences of items
  Path,          \* what %import directives name
  Opened,        \* for a file and a path in it, what fopen yields in the
                 \* directories that are searched: a file, absent or denied
  absent,        \* errno is ENOENT
  denied,        \* errno is something else
  Setting,       \* %value, %auxil, %prefix
  Unterminated,  \* files that end with their last item, without a line end
  Behind,        \* what digits the buffer holds behind its contents
  Packcc         \* PACKCC_VERSION

\* input_state__match_version: three numbers of decimal digits, without leading
\* zeros.
IsNumeral(d) == Len(d) >= 1 /\ (\A k \in 1 .. Len(d) : d[k] <= 9) /\ (Len(d) > 1 => d[1] # 0)
IsVersion(v) == v \in Seq(Seq(Nat)) /\ Len(v) = 3 /\ \A k \in 1 .. 3 : IsNumeral(v[k])

\* What constraints compare with.
Operators == {"==", "!=", "<=", ">=", "<", ">"}

ASSUME ReadingAssumption ==
  /\ IsFiniteSet(File) /\ Root \in File /\ Unterminated \subseteq File
  /\ absent \notin File /\ denied \notin File /\ absent # denied
  /\ Opened \in [File \X Path -> Seq(File \cup {absent, denied})]
  /\ \A x \in File \X Path : Opened[x] # <<>>
  /\ IsVersion(Packcc)

\* What the items of the texts carry: the errors reported for a rule, the path that
\* is imported, the version declared, the setting, the characters of a marker's name,
\* and constraints, with whether the text behind them is broken.
ASSUME ContentsAssumption ==
  \A text \in Contents : \A f \in File :
    /\ Len(text[f]) \in Nat /\ DOMAIN text[f] = 1 .. Len(text[f])
    /\ \A k \in 1 .. Len(text[f]) :
         LET item == text[f][k] IN
         /\ item.kind = "rule" => item.faults \in Nat
         /\ item.kind = "import" => item.path \in Path
         /\ item.kind = "version" => IsVersion(item.version)
         /\ item.kind = "setting" => item.setting \in Setting
         /\ item.kind = "marker" => Len(item.name) \in Nat
         /\ item.kind = "constraints" =>
              /\ item.broken \in BOOLEAN
              /\ \A j \in DOMAIN item.list :
                   item.list[j].op \in Operators /\ IsVersion(item.list[j].version)

NULL == <<>>

VARIABLES
  content,   \* the text of the files
  inputs,    \* ctx->input and its parents, the current one last
  finfo,     \* ctx->finfo: files and their versions
  rules,     \* ctx->rules: where each stands, as a file and the number of an item
  settings,  \* ctx->vtype, ctx->atype, ctx->prefix: where they were set
  mvars,     \* ctx->mvars
  errnum,    \* ctx->errnum
  printed    \* the error messages on stderr, by where they refer to

vars == <<content, inputs, finfo, rules, settings, mvars, errnum, printed>>

\* An input: the item to come; whether the last one was legal (b); its errnum; and
\* what a version constraint is about that comes next: an entry of finfo, packcc
\* or nothing.
NOTHING == 0
PACKCC  == -1
Create(f) == [file |-> f, next |-> 1, legal |-> TRUE, errnum |-> 0, about |-> NOTHING]

Input    == Last(inputs)
Imported == Len(inputs) > 1
Place    == <<Input.file, Input.next>>
AtEnd    == Input.next > Len(content[Input.file])
Item     == content[Input.file][Input.next]
Comes(kind) == ~ AtEnd /\ Item.kind = kind

Init ==
  /\ content \in Contents
  /\ inputs = <<Create(Root)>>
  /\ finfo = <<[file |-> Root, version |-> NULL]>>
  /\ rules = <<>> /\ mvars = <<>>
  /\ settings = [s \in Setting |-> NULL]
  /\ errnum = 0 /\ printed = <<>>

-----------------------------------------------------------------------------
(* Versions.                                                                *)

\* compare_digits: by length, then by the first digit that differs.
compare_digits(v, w) ==
  LET differ == {k \in 1 .. Min({Len(v), Len(w)}) : v[k] # w[k]} IN
  CASE Len(v) < Len(w) -> -1
    [] Len(v) > Len(w) -> 1
    [] Len(v) = Len(w) -> IF differ = {} THEN 0
                          ELSE IF v[Min(differ)] < w[Min(differ)] THEN -1 ELSE 1

Significant_Last(cs) == Len(cs)

\* The first number that decides.
Significant(cs) == IF \E k \in 1 .. 3 : cs[k] # 0 THEN Min({k \in 1 .. 3 : cs[k] # 0}) ELSE 3

compare_versions(v, w) ==
  LET cs == [k \in 1 .. 3 |-> compare_digits(v[k], w[k])] IN cs[Significant(cs)]

IMPLICIT_VERSION == <<<<0>>, <<0>>, <<0>>>>

\* Whether a comparison with the result c is what the operator op asks for.
Meets(op, c) ==
  CASE op = "==" -> c = 0  [] op = "!=" -> c # 0
    [] op = "<=" -> c <= 0 [] op = ">=" -> c >= 0
    [] op = "<"  -> c < 0  [] op = ">"  -> c > 0

\* The version that the constraints are about.
AboutVersion ==
  IF Input.about = PACKCC THEN Packcc
  ELSE IF finfo[Input.about].version = NULL THEN IMPLICIT_VERSION
  ELSE finfo[Input.about].version

\* The version that the code sees in constraint k of the item: the last number of
\* a file goes on in what the buffer holds behind it.
Seen(k, rest) ==
  LET v == Item.list[k].version IN
  IF k = Len(Item.list) /\ Input.next = Len(content[Input.file])
     /\ Input.file \in Unterminated
  THEN [v EXCEPT ![3] = @ \o rest] ELSE v

\* parse_and_check_version_: all constraints have to be met.
Valid(rest) ==
  \A k \in DOMAIN Item.list :
    Meets(Item.list[k].op, compare_versions(AboutVersion, Seen(k, rest)))

-----------------------------------------------------------------------------
(* Steps.                                                                   *)

\* The current input after an item that was legal or not, having printed n errors.
Passed(legal, n) ==
  [Input EXCEPT !.next = @ + 1, !.legal = legal, !.errnum = @ + n, !.about = NOTHING]

\* The current input becomes in, and n errors are printed.
Becomes(in, n) ==
  /\ inputs' = Append(Front(inputs), in)
  /\ printed' = printed \o [k \in 1 .. n |-> Place]
  /\ UNCHANGED <<content, errnum>>

Reads(kind) ==
  inputs # <<>> /\ Input.about = NOTHING /\ Comes(kind)

\* parse_rule with what it reports.
ReadRule ==
  /\ Reads("rule")
  /\ rules' = Append(rules, Place)
  /\ Becomes(Passed(TRUE, Item.faults), Item.faults)
  /\ UNCHANGED <<finfo, settings, mvars>>

\* What is no rule is passed over and reported once, up to what is legal again;
\* version constraints where none are expected are no rule.
ReadIllegal ==
  /\ Reads("illegal") \/ Reads("constraints")
  /\ LET n == IF Input.legal THEN 1 ELSE 0 IN Becomes(Passed(FALSE, n), n)
  /\ UNCHANGED <<finfo, rules, settings, mvars>>

\* A % that no directive begins with is reported each time.
ReadUnknown ==
  /\ Reads("unknown")
  /\ Becomes(Passed(TRUE, 1), 1)
  /\ UNCHANGED <<finfo, rules, settings, mvars>>

\* The entry of the current file in finfo.
Info == CHOOSE k \in DOMAIN finfo : finfo[k].file = Input.file

ReadVersion ==
  /\ Reads("version")
  /\ IF finfo[Info].version = NULL
     THEN finfo' = [finfo EXCEPT ![Info].version = Item.version] /\ Becomes(Passed(TRUE, 0), 0)
     ELSE Becomes(Passed(TRUE, 1), 1) /\ UNCHANGED finfo
  /\ UNCHANGED <<rules, settings, mvars>>

Settable_Anywhere(s) == settings[s] = NULL

\* Settings are set once, and not in imported files.
Settable(s) == ~ Imported /\ settings[s] = NULL

ReadSetting ==
  /\ Reads("setting")
  /\ IF Settable(Item.setting)
     THEN settings' = [settings EXCEPT ![Item.setting] = Place] /\ Becomes(Passed(TRUE, 0), 0)
     ELSE Becomes(Passed(TRUE, 1), 1) /\ UNCHANGED settings
  /\ UNCHANGED <<finfo, rules, mvars>>

\* strncmp(output->p[i], name, length of name) == 0
Declared(name) == \E k \in DOMAIN mvars : IsPrefix(name, mvars[k])

ReadMarker ==
  /\ Reads("marker")
  /\ IF Declared(Item.name)
     THEN Becomes(Passed(TRUE, 1), 1) /\ UNCHANGED mvars
     ELSE mvars' = Append(mvars, Item.name) /\ Becomes(Passed(TRUE, 0), 0)
  /\ UNCHANGED <<finfo, rules, settings>>

\* %requires packcc needs constraints; another name is an error.
ReadRequires ==
  /\ Reads("requires")
  /\ IF Item.packcc THEN Becomes([Passed(TRUE, 0) EXCEPT !.about = PACKCC], 0)
                    ELSE Becomes(Passed(TRUE, 1), 1)
  /\ UNCHANGED <<finfo, rules, settings, mvars>>

Located_First(path) == Head(Opened[<<Input.file, path>>])

\* The outcome of the search for an import file: the directories are tried as
\* long as the file is absent.
Located(path) ==
  LET tries == Opened[<<Input.file, path>>]
      found == {k \in DOMAIN tries : tries[k] # absent}
  IN IF found = {} THEN absent ELSE tries[Min(found)]

Known_Before(f) == {k \in 1 .. Len(finfo) - 1 : finfo[k].file = f}

\* file_info_map__get: the entries of the file.
Known(f) == {k \in DOMAIN finfo : finfo[k].file = f}

ImportFails ==
  /\ Reads("import") /\ Located(Item.path) \in {absent, denied}
  /\ Becomes(Passed(TRUE, 1), 1)
  /\ UNCHANGED <<finfo, rules, settings, mvars>>

\* A file that has an entry is opened and closed again.
ImportAgain ==
  /\ Reads("import") /\ Located(Item.path) \in File
  /\ Known(Located(Item.path)) # {}
  /\ Becomes([Passed(TRUE, 0) EXCEPT !.about = Min(Known(Located(Item.path)))], 0)
  /\ UNCHANGED <<finfo, rules, settings, mvars>>

\* The index of the entry that file_info_map__get appends.
New == Len(finfo) + 1

Import ==
  /\ Reads("import") /\ Located(Item.path) \in File
  /\ LET f == Located(Item.path) IN
       /\ Known(f) = {}
       /\ finfo' = Append(finfo, [file |-> f, version |-> NULL])
       /\ inputs' = Front(inputs) \o
                    <<[Passed(TRUE, 0) EXCEPT !.about = New], Create(f)>>
  /\ UNCHANGED <<content, rules, settings, mvars, errnum, printed>>

\* What is reported: constraints that are not met, or one that goes wrong behind
\* them, which hides this and which %requires takes for missing ones too.
Violated(rest) ==
  CASE Item.broken -> IF Input.about = PACKCC THEN 2 ELSE 1
    [] ~ Item.broken -> IF Valid(rest) THEN 0 ELSE 1

\* The constraints behind an import or %requires.
CheckVersion ==
  /\ inputs # <<>> /\ Input.about # NOTHING /\ Comes("constraints")
  /\ \E rest \in Behind : Becomes(Passed(TRUE, Violated(rest)), Violated(rest))
  /\ UNCHANGED <<finfo, rules, settings, mvars>>

\* There are none, which is an error behind %requires.
NoConstraints ==
  /\ inputs # <<>> /\ Input.about # NOTHING
  /\ ~ Comes("constraints")
  /\ LET n == IF Input.about = PACKCC THEN 1 ELSE 0
     IN Becomes([Input EXCEPT !.about = NOTHING, !.errnum = @ + n], n)
  /\ UNCHANGED <<finfo, rules, settings, mvars>>

Total_Root == IF Imported THEN errnum ELSE errnum + Input.errnum

\* ctx->errnum += ctx->input->errnum
Total == errnum + Input.errnum

\* The end of the file, or %%, which ends what is read of it.
EndFile ==
  /\ inputs # <<>> /\ Input.about = NOTHING
  /\ AtEnd \/ Comes("footer")
  /\ errnum' = Total
  /\ inputs' = Front(inputs)
  /\ UNCHANGED <<content, finfo, rules, settings, mvars, printed>>

\* parse goes on with the rules.
Done == inputs = <<>> /\ UNCHANGED vars

Next ==
  \/ ReadRule \/ ReadIllegal \/ ReadUnknown \/ ReadVersion \/ ReadSetting \/ ReadMarker
  \/ ReadRequires \/ ImportFails \/ ImportAgain \/ Import \/ CheckVersion \/ NoConstraints
  \/ EndFile \/ Done

Spec == Init /\ [][Next]_vars

-----------------------------------------------------------------------------
\* No file is read twice, and so the recursion of parse_file_ is never deeper than
\* there are files, however they import one another.
ReadOnce ==
  /\ \A j, k \in DOMAIN finfo : finfo[j].file = finfo[k].file => j = k
  /\ \A j, k \in DOMAIN inputs : inputs[j].file = inputs[k].file => j = k

\* No error is lost on the way out of imported files: packcc reports success if and
\* only if it has printed nothing.
ErrorsKept == inputs = <<>> => errnum = Len(printed)

\* Settings come from the first directive in the file of the command line, whatever
\* imported files say; and the markers that are declared, in whichever files, are
\* different from one another.
SettingsOfRoot ==
  /\ IsInjective(mvars)
  /\ \A s \in Setting :
       LET Sets(k) == content[Root][k].kind = "setting" /\ content[Root][k].setting = s
           passed == IF inputs = <<>> THEN DOMAIN content[Root] ELSE 1 .. (inputs[1].next - 1)
           open == {k \in passed : ~ \E j \in 1 .. k : content[Root][j].kind = "footer"}
           at == {k \in open : Sets(k)}
       IN settings[s] = IF at = {} THEN NULL ELSE <<Root, Min(at)>>
-----------------------------------------------------------------------------
(* What the grammar says, whatever the stack of inputs does.                *)

\* Where reading may be: in front of an item of a file, with the files met before.
Spots == [file : File, next : Nat \ {0}, seen : SUBSET File]
From(f, k, seen) == [file |-> f, next |-> k, seen |-> seen]

\* The path names the file to, if all that is tried before is absent.
Leads(f, path, to) ==
  \E j \in DOMAIN Opened[<<f, path>>] :
    Opened[<<f, path>>][j] = to /\ \A i \in 1 .. j - 1 : Opened[<<f, path>>][i] = absent

Ends(text, x) == x.next > Len(text[x.file]) \/ text[x.file][x.next].kind = "footer"
Here(text, x) == IF text[x.file][x.next].kind = "rule" THEN <<<<x.file, x.next>>>> ELSE <<>>

\* The file that is imported at x, if it has not been met.
FirstMet(text, x) ==
  LET item == text[x.file][x.next]
  IN {f \in File \ x.seen : item.kind = "import" /\ Leads(x.file, item.path, f)}

\* The places of the rules from the spot x on, with what is imported expanded where
\* it is imported first, and the files met then: expand does so for what is not at x.
Nothing(x) == [rules |-> <<>>, seen |-> x.seen]
Inner(text, expand, x) ==
  IF FirstMet(text, x) = {} THEN Nothing(x)
  ELSE LET f == CHOOSE f \in FirstMet(text, x) : TRUE IN expand[From(f, 1, x.seen \cup {f})]
Unfold(text, expand, x) ==
  IF Ends(text, x) THEN Nothing(x)
  ELSE LET inner == Inner(text, expand, x)
           rest  == expand[From(x.file, x.next + 1, inner.seen)]
       IN [rules |-> Here(text, x) \o inner.rules \o rest.rules, seen |-> rest.seen]

\* No more is expanded than there are items in all files.
Places(text) == UNION {{f} \X (1 .. Len(text[f])) : f \in File}
Expansions(text) ==
  LET expand[n \in 0 .. Cardinality(Places(text))] ==
        IF n = 0 THEN [x \in Spots |-> Nothing(x)]
        ELSE [x \in Spots |-> Unfold(text, expand[n - 1], x)]
  IN expand
Expansion(text) == Expansions(text)[Cardinality(Places(text))]

\* The rules are those of the text in which every %import is replaced with the
\* file, the first time that it is met: the first rule of all is the first one of
\* that text.
ExpandedInPlace ==
  inputs = <<>> => rules = Expansion(content)[From(Root, 1, {Root})].rules
-----------------------------------------------------------------------------
(* Versions as they are meant.                                              *)

\* The number that digits write, and the order of versions by their numbers.
Number(d) == LET n[k \in 0 .. Len(d)] == IF k = 0 THEN 0 ELSE 10 * n[k - 1] + d[k] IN n[Len(d)]
SameUpTo(k, v, w) == \A j \in 1 .. k : Number(v[j]) = Number(w[j])
Earlier(v, w) == \E k \in 1 .. 3 : SameUpTo(k - 1, v, w) /\ Number(v[k]) < Number(w[k])

Holds(op, v, w) ==
  CASE op = "==" -> SameUpTo(3, v, w) [] op = "!=" -> ~ SameUpTo(3, v, w)
    [] op = "<=" -> ~ Earlier(w, v)   [] op = ">=" -> ~ Earlier(v, w)
    [] op = "<"  -> Earlier(v, w)     [] op = ">"  -> Earlier(w, v)
HoldsFor(v) == \A k \in DOMAIN Item.list : Holds(Item.list[k].op, v, Item.list[k].version)

\* The version that a file declares in front of %%.
DeclaredBy(x) ==
  LET at == {k \in DOMAIN content[x] :
               content[x][k].kind = "version"
                 /\ \A j \in 1 .. k : content[x][j].kind # "footer"}
  IN IF at = {} THEN IMPLICIT_VERSION ELSE content[x][Min(at)].version

\* The constraints to be checked are about packcc or a file that has been read to its
\* end, and a line end is behind them.
Checks ==
  /\ inputs # <<>> /\ Input.about # NOTHING
  /\ Comes("constraints") /\ ~ Item.broken
  /\ ~ (Input.file \in Unterminated /\ Input.next = Len(content[Input.file]))
  /\ Input.about # PACKCC =>
       \A k \in DOMAIN inputs : inputs[k].file # finfo[Input.about].file
Required == IF Input.about = PACKCC THEN Packcc ELSE DeclaredBy(finfo[Input.about].file)
Reported == Len(printed') > Len(printed)

\* Constraints are reported if and only if what the file declares as its version,
\* wherever it does so, or the version of packcc does not meet them as numbers
\* (parse_and_check_version_): 1.10.1 is later than 1.9.0, and a file without a
\* declaration counts as 0.0.0.
VersionCounts == [][Checks => (Reported <=> ~ HoldsFor(Required))]_vars
=============================================================================
