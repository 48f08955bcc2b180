------------------------ MODULE GrammarReadingProofs ------------------------
(***************************************************************************)
(* Proofs about the reading of grammars for all files, whatever they       *)
(* import.                                                                 *)
(***************************************************************************)
EXTENDS GrammarReading, TLAPS, FiniteSetTheorems, SequenceTheorems, WellFoundedInduction

Version == Seq(Seq(Nat))
Inputs  == [file : File, next : Nat, legal : BOOLEAN, errnum : Nat, about : Int]
Infos   == [file : File, version : Version]

TypeOK ==
  /\ content \in Contents
  /\ inputs \in Seq(Inputs) /\ finfo \in Seq(Infos)
  /\ errnum \in Nat
  /\ printed \in Seq(File \X Nat)

\* The files of the inputs and of the entries are different from one another.
Distinct(s) == \A j, k \in 1 .. Len(s) : s[j].file = s[k].file => j = k

\* Every input has an entry.
Registered == \A j \in 1 .. Len(inputs) : \E k \in 1 .. Len(finfo) : finfo[k].file = inputs[j].file

\* The numbers of errors of the inputs, and those added to ctx->errnum, are together
\* what has been printed: sum is their sum up to each input.
Summed(sum, ins, n, all) ==
  /\ sum \in [0 .. Len(ins) -> Nat]
  /\ sum[0] = n
  /\ \A k \in 1 .. Len(ins) : sum[k] = sum[k - 1] + ins[k].errnum
  /\ sum[Len(ins)] = all
Counted == \E sum : Summed(sum, inputs, errnum, Len(printed))

RInv ==
  /\ TypeOK
  /\ \A j \in 1 .. Len(inputs) : inputs[j].next >= 1
  /\ Distinct(finfo) /\ Distinct(inputs) /\ Registered
  /\ Counted

-----------------------------------------------------------------------------
(* Sequences.                                                               *)

\* A sequence without its last element.
LEMMA FrontOf ==
  ASSUME NEW S, NEW s \in Seq(S), s # <<>>
  PROVE  /\ Len(s) \in Nat /\ Len(s) >= 1 /\ Last(s) \in S /\ Last(s) = s[Len(s)]
         /\ Front(s) \in Seq(S) /\ Len(Front(s)) = Len(s) - 1
         /\ \A j \in 1 .. Len(s) - 1 : Front(s)[j] = s[j]
<1> DEFINE n == Len(s)
           t == SubSeq(s, 1, n - 1)
<1>1. n \in Nat \ {0} /\ 1 \in Int /\ n - 1 \in Int
  BY EmptySeq
<1>2. \A i \in 1 .. n : s[i] \in S
  BY ElementOfSeq, <1>1
<1>3. /\ t \in Seq(S)
      /\ Len(t) = IF 1 <= n - 1 THEN n - 1 - 1 + 1 ELSE 0
      /\ \A i \in 1 .. n - 1 - 1 + 1 : t[i] = s[1 + i - 1]
  <2>1. \A i \in 1 .. n - 1 : s[i] \in S
    BY <1>1, <1>2
  <2> QED
    BY <1>1, <2>1, SubSeqProperties
<1>4. Front(s) = t /\ Last(s) = s[n]
  BY DEF Front, Last
<1> HIDE DEF n, t
<1>5. ASSUME NEW j \in 1 .. n - 1 PROVE t[j] = s[j]
  <2>1. j \in 1 .. n - 1 - 1 + 1 /\ 1 + j - 1 = j
    BY <1>1
  <2> QED
    BY <1>3, <2>1
<1>6. Len(t) = n - 1 /\ n >= 1 /\ s[n] \in S
  BY <1>1, <1>2, <1>3
<1> QED
  BY <1>1, <1>3, <1>4, <1>5, <1>6 DEF n

\* A sequence with another last element.
LEMMA LastReplaced ==
  ASSUME NEW S, NEW s \in Seq(S), s # <<>>, NEW x \in S
  PROVE  /\ Append(Front(s), x) \in Seq(S)
         /\ Len(Append(Front(s), x)) = Len(s) /\ Append(Front(s), x)[Len(s)] = x
         /\ \A j \in 1 .. Len(s) - 1 : Append(Front(s), x)[j] = s[j]
<1> DEFINE t == Append(Front(s), x)
<1>1. /\ Len(s) \in Nat /\ Len(s) >= 1
      /\ Front(s) \in Seq(S) /\ Len(Front(s)) = Len(s) - 1
      /\ \A j \in 1 .. Len(s) - 1 : Front(s)[j] = s[j]
  BY FrontOf
<1>2. /\ t \in Seq(S) /\ Len(t) = Len(Front(s)) + 1
      /\ t[Len(Front(s)) + 1] = x /\ \A j \in 1 .. Len(Front(s)) : t[j] = Front(s)[j]
  BY <1>1, AppendProperties
<1> QED
  BY <1>1, <1>2

-----------------------------------------------------------------------------
(* A step that keeps the stack of inputs.                                   *)

\* The parts of the current input, and the place of reading.
LEMMA CurrentInput ==
  ASSUME RInv, inputs # <<>>
  PROVE  /\ Len(inputs) \in Nat /\ Len(inputs) >= 1
         /\ Input \in Inputs /\ Input = inputs[Len(inputs)]
         /\ Input.file \in File /\ Input.next \in Nat /\ Input.next >= 1
         /\ Input.legal \in BOOLEAN /\ Input.errnum \in Nat /\ Input.about \in Int
         /\ Place \in File \X Nat
<1>1. /\ Len(inputs) \in Nat /\ Len(inputs) >= 1
      /\ Input \in Inputs /\ Input = inputs[Len(inputs)]
  BY FrontOf DEF RInv, TypeOK, Input
<1>2. Input.next >= 1
  BY <1>1 DEF RInv
<1> QED
  BY <1>1, <1>2 DEF Inputs, Place

\* An input that goes on with the next item.
LEMMA PassedInput ==
  ASSUME RInv, inputs # <<>>, NEW legal \in BOOLEAN, NEW n \in Nat
  PROVE  /\ Passed(legal, n) \in Inputs
         /\ Passed(legal, n).file = Input.file
         /\ Passed(legal, n).next >= 1
         /\ Passed(legal, n).errnum = Input.errnum + n
<1> DEFINE in == Input
<1>1. in \in [file : File, next : Nat, legal : BOOLEAN, errnum : Nat, about : Int] /\ in.next >= 1
  BY CurrentInput DEF Inputs
<1>2. Passed(legal, n) = [in EXCEPT !.next = @ + 1, !.legal = legal, !.errnum = @ + n, !.about = 0]
  BY DEF Passed, NOTHING
<1> HIDE DEF in
<1>3. Passed(legal, n) = [file |-> in.file, next |-> in.next + 1, legal |-> legal,
                          errnum |-> in.errnum + n, about |-> 0]
  BY <1>1, <1>2
<1>4. /\ Passed(legal, n) \in Inputs /\ Passed(legal, n).file = in.file
      /\ Passed(legal, n).next >= 1 /\ Passed(legal, n).errnum = in.errnum + n
  BY <1>1, <1>3 DEF Inputs
<1> QED
  BY <1>4 DEF in

\* The current input is replaced.
LEMMA InputReplaced ==
  ASSUME RInv, inputs # <<>>, NEW in \in Inputs, inputs' = Append(Front(inputs), in)
  PROVE  /\ inputs' \in Seq(Inputs) /\ Len(inputs') = Len(inputs)
         /\ inputs'[Len(inputs)] = in
         /\ \A j \in 1 .. Len(inputs) - 1 : inputs'[j] = inputs[j]
<1>1. inputs \in Seq(Inputs)
  BY DEF RInv, TypeOK
<1>2. in \in Inputs /\ inputs # <<>>
  OBVIOUS
<1>3. /\ Append(Front(inputs), in) \in Seq(Inputs)
      /\ Len(Append(Front(inputs), in)) = Len(inputs)
      /\ Append(Front(inputs), in)[Len(inputs)] = in
      /\ \A j \in 1 .. Len(inputs) - 1 : Append(Front(inputs), in)[j] = inputs[j]
  BY <1>1, <1>2, LastReplaced
<1> QED
  BY <1>3

\* The errors printed in a step are added to the number of the current input.
LEMMA BecomesCounted ==
  ASSUME RInv, inputs # <<>>, NEW n \in Nat, NEW in \in Inputs,
         in.errnum = Input.errnum + n, Becomes(in, n)
  PROVE  printed' \in Seq(File \X Nat) /\ Counted'
<1> DEFINE N == Len(inputs)
           more == [k \in 1 .. n |-> Place]
<1>1. N \in Nat /\ N >= 1 /\ Input = inputs[N] /\ Input.errnum \in Nat /\ Place \in File \X Nat
  BY CurrentInput
<1>2. inputs' = Append(Front(inputs), in) /\ printed' = printed \o more /\ errnum' = errnum
  BY DEF Becomes
<1>3. /\ Len(inputs') = N /\ inputs'[N] = in
      /\ \A j \in 1 .. N - 1 : inputs'[j] = inputs[j]
  BY <1>2, InputReplaced
<1>4. more \in Seq(File \X Nat) /\ Len(more) = n
  BY <1>1
<1>5. /\ printed' \in Seq(File \X Nat)
      /\ Len(printed) \in Nat /\ Len(printed') = Len(printed) + n
  BY <1>2, <1>4, ConcatProperties, LenProperties DEF RInv, TypeOK
<1>6. PICK sum : Summed(sum, inputs, errnum, Len(printed))
  BY DEF RInv, Counted
<1> DEFINE new == [k \in 0 .. N |-> IF k = N THEN sum[k] + n ELSE sum[k]]
<1>7. sum \in [0 .. N -> Nat] /\ sum[0] = errnum /\ sum[N] = Len(printed)
      /\ \A k \in 1 .. N : sum[k] = sum[k - 1] + inputs[k].errnum
  BY <1>6 DEF Summed
<1> HIDE DEF N, more
<1>8. new \in [0 .. N -> Nat] /\ new[0] = errnum /\ new[N] = Len(printed) + n
  <2>1. \A k \in 0 .. N : (IF k = N THEN sum[k] + n ELSE sum[k]) \in Nat
    BY <1>7
  <2>2. 0 \in 0 .. N /\ N \in 0 .. N /\ 0 # N
    BY <1>1
  <2> QED
    BY <1>7, <2>1, <2>2
<1>9. ASSUME NEW k \in 1 .. N PROVE new[k] = new[k - 1] + inputs'[k].errnum
  <2>1. new[k - 1] = sum[k - 1] /\ sum[k] = sum[k - 1] + inputs[k].errnum /\ sum[k - 1] \in Nat
    BY <1>1, <1>7
  <2>2. CASE k = N
    <3>1. new[k] = sum[k] + n /\ inputs'[k].errnum = inputs[k].errnum + n /\ inputs[k].errnum \in Nat
      BY <1>1, <1>3, <2>2
    <3> QED
      BY <2>1, <3>1
  <2>3. CASE k # N
    <3>1. k \in 0 .. N /\ k \in 1 .. N - 1
      BY <1>1, <2>3
    <3>2. new[k] = sum[k] /\ inputs'[k] = inputs[k]
      BY <1>3, <2>3, <3>1
    <3> QED
      BY <2>1, <3>2
  <2> QED
    BY <2>2, <2>3
<1> HIDE DEF new
<1>10. Summed(new, inputs', errnum', Len(printed'))
  BY <1>2, <1>3, <1>5, <1>8, <1>9 DEF Summed
<1>11. Counted'
  BY <1>10 DEF Counted
<1> QED
  BY <1>5, <1>11

\* The stack stays, and so do the files of the entries.
LEMMA BecomesStep ==
  ASSUME RInv, inputs # <<>>, NEW n \in Nat, NEW in \in Inputs,
         in.file = Input.file, in.next >= 1, in.errnum = Input.errnum + n, Becomes(in, n),
         finfo' \in Seq(Infos), Len(finfo') = Len(finfo),
         \A k \in 1 .. Len(finfo) : finfo'[k].file = finfo[k].file
  PROVE  RInv'
<1>1. /\ Len(inputs) \in Nat /\ Len(inputs) >= 1 /\ Input = inputs[Len(inputs)]
  BY CurrentInput
<1>2. /\ inputs' = Append(Front(inputs), in) /\ errnum' = errnum /\ content' = content
      /\ inputs \in Seq(Inputs) /\ in \in Inputs /\ inputs # <<>>
  BY DEF Becomes, RInv, TypeOK
<1>3. /\ inputs' \in Seq(Inputs) /\ Len(inputs') = Len(inputs)
      /\ inputs'[Len(inputs)] = in
      /\ \A j \in 1 .. Len(inputs) - 1 : inputs'[j] = inputs[j]
  BY <1>2, InputReplaced
<1>4. printed' \in Seq(File \X Nat) /\ Counted'
  BY BecomesCounted
<1>5. TypeOK'
  BY <1>2, <1>3, <1>4 DEF RInv, TypeOK
<1>6. ASSUME NEW j \in 1 .. Len(inputs)
      PROVE  inputs'[j].file = inputs[j].file /\ inputs'[j].next >= 1
  <2>1. CASE j = Len(inputs)
    BY <1>1, <1>3, <2>1
  <2>2. CASE j # Len(inputs)
    <3>1. j \in 1 .. Len(inputs) - 1
      BY <1>1, <2>2
    <3> QED
      BY <1>3, <3>1 DEF RInv
  <2> QED
    BY <2>1, <2>2
<1>7. Distinct(finfo)' /\ Distinct(inputs)' /\ Registered'
  BY <1>3, <1>6 DEF RInv, Distinct, Registered
<1> QED
  BY <1>3, <1>4, <1>5, <1>6, <1>7 DEF RInv

\* The same for a step that leaves the entries alone.
LEMMA BecomesOnly ==
  ASSUME RInv, inputs # <<>>, NEW n \in Nat, NEW in \in Inputs,
         in.file = Input.file, in.next >= 1, in.errnum = Input.errnum + n, Becomes(in, n),
         UNCHANGED finfo
  PROVE  RInv'
<1>1. finfo' = finfo /\ finfo \in Seq(Infos)
  BY DEF RInv, TypeOK
<1> QED
  BY <1>1, BecomesStep

\* The item was read, and n errors printed.
LEMMA PassedStep ==
  ASSUME RInv, inputs # <<>>, NEW legal \in BOOLEAN, NEW n \in Nat,
         Becomes(Passed(legal, n), n), UNCHANGED finfo
  PROVE  RInv'
BY PassedInput, BecomesOnly

\* The same, with constraints expected next.
LEMMA AboutStep ==
  ASSUME RInv, inputs # <<>>, NEW a \in Int,
         Becomes([Passed(TRUE, 0) EXCEPT !.about = a], 0), UNCHANGED finfo
  PROVE  RInv'
<1> DEFINE p == Passed(TRUE, 0)
           in == [p EXCEPT !.about = a]
<1>1. p \in Inputs /\ p.file = Input.file /\ p.next >= 1 /\ p.errnum = Input.errnum + 0
  BY PassedInput
<1> HIDE DEF p
<1>2. in \in Inputs /\ in.file = p.file /\ in.next = p.next /\ in.errnum = p.errnum
  BY <1>1 DEF Inputs
<1>3. Becomes(in, 0)
  BY DEF p
<1> HIDE DEF in
<1> QED
  BY <1>1, <1>2, <1>3, BecomesOnly

-----------------------------------------------------------------------------
(* The entries of finfo.                                                    *)

\* The entry that is found for a file that has one.
LEMMA KnownEntry ==
  ASSUME RInv, NEW f, Known(f) # {}
  PROVE  Min(Known(f)) \in 1 .. Len(finfo)
<1>1. PICK k \in DOMAIN finfo : finfo[k].file = f
  BY DEF Known
<1>2. DOMAIN finfo = 1 .. Len(finfo) /\ Len(finfo) \in Nat
  BY LenProperties DEF RInv, TypeOK
<1>3. Known(f) = {k}
  BY <1>1, <1>2 DEF Known, RInv, Distinct
<1>4. Min({k}) = k
  BY <1>1, <1>2 DEF Min
<1> QED
  BY <1>1, <1>2, <1>3, <1>4

\* The file that is being read has an entry.
LEMMA InfoEntry ==
  ASSUME RInv, inputs # <<>>
  PROVE  Info \in 1 .. Len(finfo)
<1>1. DOMAIN finfo = 1 .. Len(finfo)
  BY LenProperties DEF RInv, TypeOK
<1>2. Len(inputs) \in 1 .. Len(inputs) /\ Input = inputs[Len(inputs)]
  BY CurrentInput
<1>3. \E k \in DOMAIN finfo : finfo[k].file = Input.file
  BY <1>1, <1>2 DEF RInv, Registered
<1> QED
  BY <1>1, <1>3 DEF Info

-----------------------------------------------------------------------------
(* Steps that read an item.                                                 *)

\* What an item of the current file carries.
LEMMA ItemRead ==
  ASSUME RInv, inputs # <<>>, ~ AtEnd
  PROVE  /\ Item.kind = "rule" => Item.faults \in Nat
         /\ Item.kind = "version" => Item.version \in Version
         /\ Item.kind = "constraints" => Item.broken \in BOOLEAN
<1> DEFINE f == Input.file
           k == Input.next
<1>1. f \in File /\ k \in Nat /\ k >= 1 /\ content \in Contents
  BY CurrentInput DEF RInv, TypeOK
<1>2. ~ (k > Len(content[f])) /\ Item = content[f][k]
  BY DEF AtEnd, Item
<1>3. k \in 1 .. Len(content[f])
  BY <1>1, <1>2, ContentsAssumption
<1> HIDE DEF f, k
<1> QED
  BY <1>1, <1>2, <1>3, ContentsAssumption DEF Version, IsVersion

\* What the guard of a reading step says.
LEMMA ReadsItem ==
  ASSUME NEW kind, Reads(kind)
  PROVE  inputs # <<>> /\ ~ AtEnd /\ Item.kind = kind
BY DEF Reads, Comes

\* Reading a rule keeps the invariant.
LEMMA RuleStep ==
  ASSUME RInv, ReadRule
  PROVE  RInv'
<1>1. Reads("rule") /\ Becomes(Passed(TRUE, Item.faults), Item.faults) /\ UNCHANGED finfo
  BY DEF ReadRule
<1>2. inputs # <<>> /\ Item.faults \in Nat
  BY <1>1, ReadsItem, ItemRead
<1> QED
  BY <1>1, <1>2, PassedStep

\* So does skipping what is illegal.
LEMMA IllegalStep ==
  ASSUME RInv, ReadIllegal
  PROVE  RInv'
<1> DEFINE n == IF Input.legal THEN 1 ELSE 0
<1>1. inputs # <<>> /\ UNCHANGED finfo
  BY ReadsItem DEF ReadIllegal
<1>2. n \in Nat /\ Becomes(Passed(FALSE, n), n)
  BY DEF ReadIllegal
<1> HIDE DEF n
<1> QED
  BY <1>1, <1>2, PassedStep

\* The other steps that print one error or none and leave the entries alone.
LEMMA PlainStep ==
  ASSUME RInv, ReadUnknown \/ ReadSetting \/ ReadMarker \/ ImportFails
  PROVE  RInv'
<1>1. inputs # <<>> /\ UNCHANGED finfo
  BY ReadsItem DEF ReadUnknown, ReadSetting, ReadMarker, ImportFails
<1>2. Becomes(Passed(TRUE, 0), 0) \/ Becomes(Passed(TRUE, 1), 1)
  BY DEF ReadUnknown, ReadSetting, ReadMarker, ImportFails
<1>3. TRUE \in BOOLEAN /\ 0 \in Nat /\ 1 \in Nat
  OBVIOUS
<1> QED
  BY <1>1, <1>2, <1>3, PassedStep

\* A version is noted in the entry of its file.
LEMMA VersionStep ==
  ASSUME RInv, ReadVersion
  PROVE  RInv'
<1>1. inputs # <<>> /\ Item.version \in Version
  BY ReadsItem, ItemRead DEF ReadVersion
<1>2. TRUE \in BOOLEAN /\ 0 \in Nat /\ 1 \in Nat
  OBVIOUS
<1>3. CASE finfo' = finfo /\ Becomes(Passed(TRUE, 1), 1)
  BY <1>1, <1>2, <1>3, PassedStep
<1>4. CASE /\ finfo' = [finfo EXCEPT ![Info].version = Item.version]
           /\ Becomes(Passed(TRUE, 0), 0)
  <2> DEFINE e == [finfo[Info] EXCEPT !.version = Item.version]
  <2>1. finfo \in Seq(Infos) /\ Info \in 1 .. Len(finfo) /\ finfo[Info] \in Infos
    BY <1>1, InfoEntry, ElementOfSeq DEF RInv, TypeOK
  <2>2. e \in Infos /\ e.file = finfo[Info].file
    BY <1>1, <2>1 DEF Infos
  <2>3. finfo' = [finfo EXCEPT ![Info] = e]
    BY <1>4
  <2> HIDE DEF e
  <2>4. /\ finfo' \in Seq(Infos) /\ Len(finfo') = Len(finfo)
        /\ \A k \in 1 .. Len(finfo) : finfo'[k] = IF k = Info THEN e ELSE finfo[k]
    BY <2>1, <2>2, <2>3, ExceptSeq, LenProperties
  <2>5. \A k \in 1 .. Len(finfo) : finfo'[k].file = finfo[k].file
    BY <2>2, <2>4
  <2> DEFINE in == Passed(TRUE, 0)
  <2>6. /\ in \in Inputs /\ in.file = Input.file /\ in.next >= 1
        /\ in.errnum = Input.errnum + 0 /\ Becomes(in, 0)
    BY <1>1, <1>2, <1>4, PassedInput
  <2> HIDE DEF in
  <2> QED
    BY <1>1, <1>2, <2>4, <2>5, <2>6, BecomesStep
<1> QED
  BY <1>3, <1>4 DEF ReadVersion

\* A %requires directive expects constraints.
LEMMA RequiresStep ==
  ASSUME RInv, ReadRequires
  PROVE  RInv'
<1>1. inputs # <<>> /\ UNCHANGED finfo
  BY ReadsItem DEF ReadRequires
<1>2. PACKCC \in Int /\ TRUE \in BOOLEAN /\ 1 \in Nat
  BY DEF PACKCC
<1>3. \/ Becomes([Passed(TRUE, 0) EXCEPT !.about = PACKCC], 0)
      \/ Becomes(Passed(TRUE, 1), 1)
  BY DEF ReadRequires
<1> QED
  BY <1>1, <1>2, <1>3, PassedStep, AboutStep

\* An import of a file that was read before.
LEMMA ImportAgainStep ==
  ASSUME RInv, ImportAgain
  PROVE  RInv'
<1> DEFINE a == Min(Known(Located(Item.path)))
<1>1. inputs # <<>> /\ UNCHANGED finfo /\ Known(Located(Item.path)) # {}
  BY ReadsItem DEF ImportAgain
<1>2. Len(finfo) \in Nat /\ a \in 1 .. Len(finfo)
  BY <1>1, KnownEntry, LenProperties DEF RInv, TypeOK
<1>3. a \in Int
  BY <1>2
<1>4. Becomes([Passed(TRUE, 0) EXCEPT !.about = a], 0)
  BY DEF ImportAgain
<1> HIDE DEF a
<1> QED
  BY <1>1, <1>3, <1>4, AboutStep

\* A constraint on a version is checked.
LEMMA CheckStep ==
  ASSUME RInv, CheckVersion
  PROVE  RInv'
<1>1. inputs # <<>> /\ UNCHANGED finfo /\ ~ AtEnd /\ Item.kind = "constraints"
  BY DEF CheckVersion, Comes
<1>2. PICK rest \in Behind : Becomes(Passed(TRUE, Violated(rest)), Violated(rest))
  BY DEF CheckVersion
<1>3. Item.broken \in BOOLEAN
  BY <1>1, ItemRead
<1>4. Violated(rest) \in Nat
  BY <1>3 DEF Violated
<1>5. TRUE \in BOOLEAN
  OBVIOUS
<1> QED
  BY <1>1, <1>2, <1>4, <1>5, PassedStep

\* No constraint follows, which is an error behind %requires.
LEMMA NoConstraintsStep ==
  ASSUME RInv, NoConstraints
  PROVE  RInv'
<1> DEFINE n == IF Input.about = PACKCC THEN 1 ELSE 0
           i == Input
           in == [i EXCEPT !.about = NOTHING, !.errnum = @ + n]
<1>1. inputs # <<>> /\ UNCHANGED finfo /\ Becomes(in, n)
  BY DEF NoConstraints
<1>2. i \in Inputs /\ i.next >= 1 /\ n \in Nat
  BY <1>1, CurrentInput
<1> HIDE DEF n
<1>3. in \in Inputs /\ in.file = i.file /\ in.next = i.next /\ in.errnum = i.errnum + n
  <2> HIDE DEF i
  <2>1. i \in [file : File, next : Nat, legal : BOOLEAN, errnum : Nat, about : Int] /\ n \in Nat
    BY <1>2 DEF Inputs
  <2>2. in = [file |-> i.file, next |-> i.next, legal |-> i.legal,
              errnum |-> i.errnum + n, about |-> 0]
    <3>1. in = [i EXCEPT !.about = 0, !.errnum = @ + n]
      BY DEF NOTHING
    <3> HIDE DEF in
    <3> QED
      BY <2>1, <3>1
  <2> HIDE DEF in
  <2> QED
    BY <2>1, <2>2 DEF Inputs
<1> HIDE DEF in
<1> QED
  BY <1>1, <1>2, <1>3, BecomesOnly

-----------------------------------------------------------------------------
(* Steps that change the depth of the stack.                                *)

\* Two inputs take the place of the last one.
LEMMA InputPushed ==
  ASSUME RInv, inputs # <<>>, NEW a \in Inputs, NEW b \in Inputs,
         inputs' = Front(inputs) \o <<a, b>>
  PROVE  /\ inputs' \in Seq(Inputs) /\ Len(inputs') = Len(inputs) + 1
         /\ inputs'[Len(inputs)] = a /\ inputs'[Len(inputs) + 1] = b
         /\ \A j \in 1 .. Len(inputs) - 1 : inputs'[j] = inputs[j]
<1> DEFINE f == Front(inputs)
           two == <<a, b>>
<1>1. inputs \in Seq(Inputs) /\ inputs # <<>>
  BY DEF RInv, TypeOK
<1>2. /\ Len(inputs) \in Nat /\ Len(inputs) >= 1
      /\ f \in Seq(Inputs) /\ Len(f) = Len(inputs) - 1
      /\ \A j \in 1 .. Len(inputs) - 1 : f[j] = inputs[j]
  BY <1>1, FrontOf
<1>3. two \in Seq(Inputs) /\ Len(two) = 2 /\ two[1] = a /\ two[2] = b
  OBVIOUS
<1>4. inputs' = f \o two
  OBVIOUS
<1> HIDE DEF f, two
<1>5. /\ inputs' \in Seq(Inputs) /\ Len(inputs') = Len(f) + Len(two)
      /\ \A j \in 1 .. Len(f) + Len(two) :
           inputs'[j] = IF j <= Len(f) THEN f[j] ELSE two[j - Len(f)]
  <2>1. f \o two \in Seq(Inputs) /\ Len(f \o two) = Len(f) + Len(two)
    BY <1>2, <1>3, ConcatProperties
  <2>2. \A j \in 1 .. Len(f) + Len(two) :
           (f \o two)[j] = IF j <= Len(f) THEN f[j] ELSE two[j - Len(f)]
    BY <1>2, <1>3, ConcatProperties
  <2> QED
    BY <1>4, <2>1, <2>2
<1>6. Len(inputs') = Len(inputs) + 1
  BY <1>2, <1>3, <1>5
<1>7. inputs'[Len(inputs)] = two[1] /\ inputs'[Len(inputs) + 1] = two[2]
  <2> DEFINE N == Len(inputs)
  <2>1. N \in 1 .. Len(f) + Len(two) /\ N + 1 \in 1 .. Len(f) + Len(two)
    BY <1>2, <1>3
  <2>2. ~ (N <= Len(f)) /\ ~ (N + 1 <= Len(f)) /\ N - Len(f) = 1 /\ N + 1 - Len(f) = 2
    BY <1>2
  <2> HIDE DEF N
  <2>3. inputs'[N] = two[N - Len(f)] /\ inputs'[N + 1] = two[N + 1 - Len(f)]
    BY <1>5, <2>1, <2>2
  <2> QED
    BY <2>2, <2>3 DEF N
<1>8. \A j \in 1 .. Len(inputs) - 1 : inputs'[j] = inputs[j]
  BY <1>2, <1>3, <1>5
<1> QED
  BY <1>3, <1>5, <1>6, <1>7, <1>8

\* A new file gets an entry and an input of its own.
LEMMA ImportStep ==
  ASSUME RInv, Import
  PROVE  RInv'
<1> DEFINE f == Located(Item.path)
           N == Len(inputs)
           M == Len(finfo)
           p == Passed(TRUE, 0)
           a == [p EXCEPT !.about = M + 1]
           b == Create(f)
           e == [file |-> f, version |-> NULL]
<1>1. inputs # <<>> /\ f \in File /\ Known(f) = {}
  BY ReadsItem DEF Import
<1>2. /\ finfo' = Append(finfo, e) /\ inputs' = Front(inputs) \o <<a, b>>
      /\ content' = content /\ errnum' = errnum /\ printed' = printed
  BY DEF Import, New
<1>3. N \in Nat /\ N >= 1 /\ Input = inputs[N] /\ Input.errnum \in Nat
  BY <1>1, CurrentInput
<1>4. M \in Nat /\ finfo \in Seq(Infos) /\ DOMAIN finfo = 1 .. M
  BY LenProperties DEF RInv, TypeOK
<1>5. p \in Inputs /\ p.file = Input.file /\ p.next >= 1 /\ p.errnum = Input.errnum
  <2>1. p \in Inputs /\ p.file = Input.file /\ p.next >= 1 /\ p.errnum = Input.errnum + 0
    BY <1>1, PassedInput
  <2> HIDE DEF p
  <2> QED
    BY <1>3, <2>1
<1> HIDE DEF p
<1>6. a \in Inputs /\ a.file = Input.file /\ a.next >= 1 /\ a.errnum = Input.errnum
  BY <1>4, <1>5 DEF Inputs
<1>7. b \in Inputs /\ b.file = f /\ b.next >= 1 /\ b.errnum = 0
  BY <1>1 DEF Create, Inputs, NOTHING
<1>8. e \in Infos /\ e.file = f
  BY <1>1 DEF Infos, Version, NULL
<1>9. \A k \in 1 .. M : finfo[k].file # f
  BY <1>1, <1>4 DEF Known
<1> HIDE DEF f, a, b, e
<1>10. /\ inputs' \in Seq(Inputs) /\ Len(inputs') = N + 1
       /\ inputs'[N] = a /\ inputs'[N + 1] = b
       /\ \A j \in 1 .. N - 1 : inputs'[j] = inputs[j]
  BY <1>1, <1>2, <1>6, <1>7, InputPushed
<1>11. /\ finfo' \in Seq(Infos) /\ Len(finfo') = M + 1
       /\ finfo'[M + 1] = e /\ \A j \in 1 .. M : finfo'[j] = finfo[j]
  BY <1>2, <1>4, <1>8, AppendProperties
<1>12. PICK sum : Summed(sum, inputs, errnum, Len(printed))
  BY DEF RInv, Counted
<1>13. /\ sum \in [0 .. N -> Nat] /\ sum[0] = errnum /\ sum[N] = Len(printed)
       /\ \A k \in 1 .. N : sum[k] = sum[k - 1] + inputs[k].errnum
  BY <1>12 DEF Summed
<1> HIDE DEF N, M
<1>14. \A j \in 1 .. N : inputs'[j].file = inputs[j].file /\ inputs'[j].errnum = inputs[j].errnum
                        /\ inputs'[j].next >= 1
  <2>1. ASSUME NEW j \in 1 .. N
        PROVE  inputs'[j].file = inputs[j].file /\ inputs'[j].errnum = inputs[j].errnum
               /\ inputs'[j].next >= 1
    <3>1. CASE j = N
      BY <1>3, <1>6, <1>10, <3>1
    <3>2. CASE j # N
      <4>1. j \in 1 .. N - 1
        BY <1>3, <3>2
      <4> QED
        BY <1>10, <4>1 DEF RInv, N
    <3> QED
      BY <3>1, <3>2
  <2> QED
    BY <2>1
<1>15. TypeOK'
  BY <1>2, <1>10, <1>11 DEF RInv, TypeOK
<1>16. \A j \in 1 .. Len(inputs') : inputs'[j].next >= 1
  <2>1. \A j \in 1 .. N + 1 : j \in 1 .. N \/ j = N + 1
    BY <1>3
  <2> QED
    BY <1>7, <1>10, <1>14, <2>1
<1>17. Registered /\ Distinct(finfo) /\ Distinct(inputs)
  BY DEF RInv
<1>18. \A j \in 1 .. N : inputs[j].file # f
  BY <1>9, <1>17 DEF Registered, N, M
<1>19. Distinct(finfo)'
  <2>1. \A j \in 1 .. M + 1 : finfo'[j].file = IF j = M + 1 THEN f ELSE finfo[j].file
    BY <1>4, <1>8, <1>11
  <2>2. \A j \in 1 .. M + 1 : j = M + 1 \/ j \in 1 .. M
    BY <1>4
  <2>3. \A j, k \in 1 .. M : finfo[j].file = finfo[k].file => j = k
    BY <1>17 DEF Distinct, M
  <2>4. ASSUME NEW j \in 1 .. M + 1, NEW k \in 1 .. M + 1, finfo'[j].file = finfo'[k].file
        PROVE  j = k
    BY <1>4, <1>9, <2>1, <2>2, <2>3, <2>4
  <2> QED
    BY <1>11, <2>4 DEF Distinct
<1>20. Distinct(inputs)'
  <2>1. \A j \in 1 .. N + 1 : inputs'[j].file = IF j = N + 1 THEN f ELSE inputs[j].file
    BY <1>3, <1>7, <1>10, <1>14
  <2>2. \A j \in 1 .. N + 1 : j = N + 1 \/ j \in 1 .. N
    BY <1>3
  <2>3. \A j, k \in 1 .. N : inputs[j].file = inputs[k].file => j = k
    BY <1>17 DEF Distinct, N
  <2>4. ASSUME NEW j \in 1 .. N + 1, NEW k \in 1 .. N + 1, inputs'[j].file = inputs'[k].file
        PROVE  j = k
    BY <1>3, <1>18, <2>1, <2>2, <2>3, <2>4
  <2> QED
    BY <1>10, <2>4 DEF Distinct
<1>21. Registered'
  <2>1. ASSUME NEW j \in 1 .. N + 1
        PROVE  \E k \in 1 .. M + 1 : finfo'[k].file = inputs'[j].file
    <3>1. CASE j = N + 1
      <4>1. M + 1 \in 1 .. M + 1 /\ finfo'[M + 1].file = f /\ inputs'[j].file = f
        BY <1>4, <1>7, <1>8, <1>10, <1>11, <3>1
      <4> QED
        BY <4>1
    <3>2. CASE j # N + 1
      <4>1. j \in 1 .. N
        BY <1>3, <3>2
      <4>2. PICK k \in 1 .. M : finfo[k].file = inputs[j].file
        BY <1>17, <4>1 DEF Registered, N, M
      <4>3. k \in 1 .. M + 1 /\ finfo'[k].file = inputs'[j].file
        BY <1>4, <1>11, <1>14, <4>1, <4>2
      <4> QED
        BY <4>3
    <3> QED
      BY <3>1, <3>2
  <2> QED
    BY <1>10, <1>11, <2>1 DEF Registered
<1>22. Counted'
  <2> DEFINE new == [k \in 0 .. N + 1 |-> IF k = N + 1 THEN sum[N] ELSE sum[k]]
  <2>1. new \in [0 .. N + 1 -> Nat] /\ new[0] = errnum /\ new[N + 1] = Len(printed)
    <3>1. \A k \in 0 .. N + 1 : k = N + 1 \/ k \in 0 .. N
      BY <1>3
    <3>2. 0 \in 0 .. N + 1 /\ N + 1 \in 0 .. N + 1 /\ 0 # N + 1 /\ N \in 0 .. N
      BY <1>3
    <3>3. \A k \in 0 .. N + 1 : (IF k = N + 1 THEN sum[N] ELSE sum[k]) \in Nat
      BY <1>13, <3>1, <3>2
    <3> QED
      BY <1>13, <3>2, <3>3
  <2>2. ASSUME NEW k \in 1 .. N + 1 PROVE new[k] = new[k - 1] + inputs'[k].errnum
    <3>1. k - 1 \in 0 .. N + 1 /\ k \in 0 .. N + 1 /\ k - 1 # N + 1 /\ k - 1 \in 0 .. N
      BY <1>3
    <3>2. new[k - 1] = sum[k - 1] /\ sum[k - 1] \in Nat
      BY <1>13, <3>1
    <3>3. CASE k = N + 1
      <4>1. k - 1 = N /\ new[k] = sum[N] /\ inputs'[k].errnum = 0
        BY <1>3, <1>7, <1>10, <3>1, <3>3
      <4> QED
        BY <3>2, <4>1
    <3>4. CASE k # N + 1
      <4>1. k \in 1 .. N
        BY <1>3, <3>4
      <4>2. new[k] = sum[k] /\ inputs'[k].errnum = inputs[k].errnum
        BY <1>14, <3>1, <3>4, <4>1
      <4> QED
        BY <1>13, <3>2, <4>1, <4>2
    <3> QED
      BY <3>3, <3>4
  <2> HIDE DEF new
  <2>3. Summed(new, inputs', errnum', Len(printed'))
    BY <1>2, <1>10, <2>1, <2>2 DEF Summed
  <2> QED
    BY <2>3 DEF Counted
<1> QED
  BY <1>15, <1>16, <1>19, <1>20, <1>21, <1>22 DEF RInv

\* A file ends, and its errors are added to those of the file that imports it.
LEMMA EndStep ==
  ASSUME RInv, EndFile
  PROVE  RInv'
<1> DEFINE N == Len(inputs)
<1>1. /\ inputs # <<>> /\ inputs' = Front(inputs) /\ errnum' = errnum + Input.errnum
      /\ content' = content /\ finfo' = finfo /\ printed' = printed
  BY DEF EndFile, Total
<1>2. inputs \in Seq(Inputs) /\ inputs # <<>>
  BY <1>1 DEF RInv, TypeOK
<1>3. /\ N \in Nat /\ N >= 1 /\ Input = inputs[N] /\ Input.errnum \in Nat
  BY <1>1, CurrentInput
<1>4. /\ Front(inputs) \in Seq(Inputs) /\ Len(Front(inputs)) = N - 1
      /\ \A j \in 1 .. N - 1 : Front(inputs)[j] = inputs[j]
  BY <1>2, FrontOf
<1>5. /\ inputs' \in Seq(Inputs) /\ Len(inputs') = N - 1
      /\ \A j \in 1 .. N - 1 : inputs'[j] = inputs[j]
  BY <1>1, <1>4
<1>6. PICK sum : Summed(sum, inputs, errnum, Len(printed))
  BY DEF RInv, Counted
<1>7. /\ sum \in [0 .. N -> Nat] /\ sum[0] = errnum /\ sum[N] = Len(printed)
      /\ \A k \in 1 .. N : sum[k] = sum[k - 1] + inputs[k].errnum
  BY <1>6 DEF Summed
<1>8. errnum \in Nat
  BY DEF RInv, TypeOK
<1>9. TypeOK'
  BY <1>1, <1>3, <1>5, <1>8 DEF RInv, TypeOK
<1>10. \A j \in 1 .. N - 1 : j \in 1 .. N
  BY <1>3
<1>11. \A j \in 1 .. Len(inputs') : inputs'[j].next >= 1
  BY <1>5, <1>10 DEF RInv
<1>12. Distinct(finfo)' /\ Distinct(inputs)' /\ Registered'
  BY SMTT(20), <1>1, <1>5, <1>10 DEF RInv, Distinct, Registered
<1> DEFINE last == Input.errnum
           new == [k \in 0 .. N - 1 |-> sum[k] + last]
<1> HIDE DEF N
<1>13. new \in [0 .. N - 1 -> Nat] /\ new[0] = errnum + last /\ new[N - 1] = Len(printed)
  <2>1. 0 \in 0 .. N - 1 /\ N - 1 \in 0 .. N - 1 /\ N \in 1 .. N
    BY <1>3
  <2>2. \A k \in 0 .. N - 1 : k \in 0 .. N
    BY <1>3
  <2>3. \A k \in 0 .. N - 1 : sum[k] + last \in Nat
    BY <1>3, <1>7, <2>2
  <2>4. sum[N] = sum[N - 1] + last
    BY <1>3, <1>7, <2>1
  <2> QED
    BY <1>7, <2>1, <2>3, <2>4
<1>14. ASSUME NEW k \in 1 .. N - 1 PROVE new[k] = new[k - 1] + inputs'[k].errnum
  <2>1. k \in 0 .. N - 1 /\ k - 1 \in 0 .. N - 1 /\ k \in 1 .. N /\ k \in 0 .. N /\ k - 1 \in 0 .. N
    BY <1>3
  <2>2. new[k] = sum[k] + last /\ new[k - 1] = sum[k - 1] + last
    BY <2>1
  <2>3. /\ inputs'[k].errnum = inputs[k].errnum /\ sum[k] = sum[k - 1] + inputs[k].errnum
        /\ sum[k] \in Nat /\ sum[k - 1] \in Nat
    BY <1>5, <1>7, <2>1
  <2>4. inputs[k].errnum \in Nat
    <3>1. inputs[k] \in Inputs
      BY <1>2, <2>1, ElementOfSeq DEF N
    <3> QED
      BY <3>1 DEF Inputs
  <2> QED
    BY <1>3, <2>2, <2>3, <2>4
<1> HIDE DEF new
<1>15. Summed(new, inputs', errnum', Len(printed'))
  BY <1>1, <1>5, <1>13, <1>14 DEF Summed
<1>16. Counted'
  BY <1>15 DEF Counted
<1> QED
  BY <1>9, <1>11, <1>12, <1>16 DEF RInv

-----------------------------------------------------------------------------
(* The invariant, and what follows from it.                                 *)

\* The invariant holds before the root is read.
LEMMA InitRInv ==
  ASSUME Init
  PROVE  RInv
<1> DEFINE b == Create(Root)
           e == [file |-> Root, version |-> NULL]
<1>1. /\ inputs = <<b>> /\ finfo = <<e>> /\ errnum = 0 /\ printed = <<>>
      /\ content \in Contents
  BY DEF Init
<1>2. Root \in File
  BY ReadingAssumption
<1>3. b \in Inputs /\ b.file = Root /\ b.next >= 1 /\ b.errnum = 0
  BY <1>2 DEF Create, Inputs, NOTHING
<1>4. e \in Infos /\ e.file = Root
  BY <1>2 DEF Infos, Version, NULL
<1> HIDE DEF b, e
<1>5. inputs \in Seq(Inputs) /\ Len(inputs) = 1 /\ inputs[1] = b
  BY <1>1, <1>3
<1>6. finfo \in Seq(Infos) /\ Len(finfo) = 1 /\ finfo[1] = e
  BY <1>1, <1>4
<1>7. TypeOK
  BY <1>1, <1>5, <1>6 DEF TypeOK
<1>8. \A j \in 1 .. Len(inputs) : j = 1
  BY <1>5
<1>9. \A j \in 1 .. Len(finfo) : j = 1
  BY <1>6
<1>10. Distinct(finfo) /\ Distinct(inputs)
  BY <1>8, <1>9 DEF Distinct
<1>11. Registered /\ \A j \in 1 .. Len(inputs) : inputs[j].next >= 1
  BY <1>3, <1>4, <1>5, <1>6, <1>8 DEF Registered
<1> DEFINE sum == [k \in 0 .. 1 |-> 0]
<1>12. /\ sum \in [0 .. 1 -> Nat] /\ sum[0] = 0 /\ sum[1] = 0
  OBVIOUS
<1>13. \A k \in 1 .. 1 : sum[k] = sum[k - 1] + inputs[k].errnum
  BY <1>3, <1>5
<1> HIDE DEF sum
<1>14. Len(printed) = 0
  BY <1>1
<1>15. Summed(sum, inputs, errnum, Len(printed))
  BY <1>1, <1>5, <1>12, <1>13, <1>14 DEF Summed
<1>16. Counted
  BY <1>15 DEF Counted
<1> QED
  BY <1>7, <1>10, <1>11, <1>16 DEF RInv

\* Every step keeps it.
LEMMA NextRInv ==
  ASSUME RInv, [Next]_vars
  PROVE  RInv'
<1>1. CASE UNCHANGED vars
  <2>1. /\ content' = content /\ inputs' = inputs /\ finfo' = finfo
        /\ errnum' = errnum /\ printed' = printed
    BY <1>1 DEF vars
  <2> QED
    BY <2>1 DEF RInv, TypeOK, Distinct, Registered, Counted
<1>2. CASE ReadRule
  BY <1>2, RuleStep
<1>3. CASE ReadIllegal
  BY <1>3, IllegalStep
<1>4. CASE ReadUnknown \/ ReadSetting \/ ReadMarker \/ ImportFails
  BY <1>4, PlainStep
<1>5. CASE ReadVersion
  BY <1>5, VersionStep
<1>6. CASE ReadRequires
  BY <1>6, RequiresStep
<1>7. CASE ImportAgain
  BY <1>7, ImportAgainStep
<1>8. CASE Import
  BY <1>8, ImportStep
<1>9. CASE CheckVersion
  BY <1>9, CheckStep
<1>10. CASE NoConstraints
  BY <1>10, NoConstraintsStep
<1>11. CASE EndFile
  BY <1>11, EndStep
<1>12. CASE Done
  BY <1>1, <1>12 DEF Done
<1> QED
  BY <1>1, <1>2, <1>3, <1>4, <1>5, <1>6, <1>7, <1>8, <1>9, <1>10, <1>11, <1>12 DEF Next

\* The reading of grammars keeps its books: entries and inputs have different files,
\* every input has its entry, and the errors are those printed (parse_file_).
THEOREM ReadingInvariant == Spec => []RInv
<1>1. Init => RInv
  BY InitRInv
<1>2. RInv /\ [Next]_vars => RInv'
  BY NextRInv
<1> QED
  BY <1>1, <1>2, PTL DEF Spec

\* No file is read twice, whatever the files import (file_info_map__get in
\* parse_directive_import_).
THEOREM EachFileReadOnce == Spec => []ReadOnce
<1>1. RInv => ReadOnce
  <2>1. SUFFICES ASSUME RInv PROVE ReadOnce
    OBVIOUS
  <2>2. DOMAIN inputs = 1 .. Len(inputs) /\ DOMAIN finfo = 1 .. Len(finfo)
    BY <2>1, LenProperties DEF RInv, TypeOK
  <2> QED
    BY <2>1, <2>2 DEF RInv, Distinct, ReadOnce
<1> QED
  BY <1>1, ReadingInvariant, PTL

\* The errors that packcc has counted when it has read everything are all that it has
\* printed, from however deep below imports (parse_file_ and the counters of the
\* inputs).
THEOREM NoErrorLost == Spec => []ErrorsKept
<1>1. RInv => ErrorsKept
  <2>1. SUFFICES ASSUME RInv, inputs = <<>> PROVE errnum = Len(printed)
    BY DEF ErrorsKept
  <2>2. Len(inputs) = 0
    BY <2>1
  <2> QED
    BY <2>1, <2>2 DEF RInv, Counted, Summed
<1> QED
  BY <1>1, ReadingInvariant, PTL

DepthBounded == Len(inputs) <= Cardinality(File)

\* The stack of inputs, which is the recursion of parse_file_ and
\* parse_directive_import_, is not deeper than there are files.
THEOREM RecursionBounded ==
  ASSUME IsFiniteSet(File)
  PROVE  Spec => []DepthBounded
<1>1. RInv => DepthBounded
  <2>1. SUFFICES ASSUME RInv PROVE DepthBounded
    OBVIOUS
  <2> DEFINE N == Len(inputs)
             names == [j \in 1 .. N |-> inputs[j].file]
  <2>2. N \in Nat /\ inputs \in Seq(Inputs)
    BY <2>1, LenProperties DEF RInv, TypeOK
  <2>3. \A j \in 1 .. N : inputs[j].file \in File
    <3>1. \A j \in 1 .. N : inputs[j] \in Inputs
      BY <2>2, ElementOfSeq
    <3> QED
      BY <3>1 DEF Inputs
  <2>4. names \in [1 .. N -> File]
    BY <2>3
  <2>5. \A j, k \in 1 .. N : names[j] = names[k] => j = k
    BY <2>1 DEF RInv, Distinct
  <2>6. IsFiniteSet(1 .. N) /\ Cardinality(1 .. N) = N
    <3>1. IsFiniteSet(1 .. N) /\ Cardinality(1 .. N) = IF 1 > N THEN 0 ELSE N - 1 + 1
      BY <2>2, FS_Interval
    <3> QED
      BY <2>2, <3>1
  <2>7. Cardinality(File) \in Nat
    BY FS_CardinalityType
  <2> HIDE DEF N, names
  <2>8. ~ (Cardinality(File) < N)
    <3>1. SUFFICES ASSUME Cardinality(File) < Cardinality(1 .. N) PROVE FALSE
      BY <2>6
    <3>2. \E j, k \in 1 .. N : j # k /\ names[j] = names[k]
      BY <2>1, <2>4, <2>6, <3>1, FS_PigeonHole
    <3> QED
      BY <2>5, <3>2
  <2> QED
    BY <2>2, <2>7, <2>8 DEF DepthBounded, N
<1> QED
  BY <1>1, ReadingInvariant, PTL

-----------------------------------------------------------------------------
(* Settings and markers.                                                    *)

MarkerNames == {text[f][k].name : text \in Contents, f \in File, k \in Nat}

\* The item k of the root sets s.
SetsAt(s, k) == content[Root][k].kind = "setting" /\ content[Root][k].setting = s
Footer(k)    == content[Root][k].kind = "footer"

\* What the loop has passed of the root, in front of %%.
PassedOfRoot ==
  IF inputs = <<>> THEN {k \in 1 .. Len(content[Root]) : ~ \E j \in 1 .. k : Footer(j)}
  ELSE 1 .. (inputs[1].next - 1)

\* A setting comes from the first of the items that set it, if there is one.
FirstOf(s, passed, v) ==
  \/ v = NULL /\ \A k \in passed : ~ SetsAt(s, k)
  \/ \E k \in passed :
       v = <<Root, k>> /\ SetsAt(s, k) /\ \A j \in passed : SetsAt(s, j) => k <= j

RootRead ==
  /\ settings \in [Setting -> {NULL} \cup (File \X Nat)]
  /\ inputs # <<>> => /\ inputs[1].file = Root
                      /\ inputs[1].next - 1 <= Len(content[Root])
                      /\ \A k \in 1 .. (inputs[1].next - 1) : ~ Footer(k)
  /\ \A s \in Setting : FirstOf(s, PassedOfRoot, settings[s])

MarkersApart ==
  /\ mvars \in Seq(MarkerNames)
  /\ \A k \in 1 .. Len(mvars) : Len(mvars[k]) \in Nat
  /\ \A j, k \in 1 .. Len(mvars) : mvars[j] = mvars[k] => j = k

\* The length of the root is a number.
LEMMA RootText ==
  ASSUME RInv
  PROVE  /\ Len(content[Root]) \in Nat /\ DOMAIN content[Root] = 1 .. Len(content[Root])
         /\ Root \in File
BY ContentsAssumption, ReadingAssumption DEF RInv, TypeOK

\* The first input, and what it is when it is the only one.
LEMMA FirstInput ==
  ASSUME RInv, inputs # <<>>
  PROVE  /\ Len(inputs) \in Nat /\ Len(inputs) >= 1
         /\ inputs[1].next \in Nat /\ inputs[1].next >= 1
         /\ Len(inputs) = 1 => Input = inputs[1]
<1>1. /\ Len(inputs) \in Nat /\ Len(inputs) >= 1 /\ Input = inputs[Len(inputs)]
  BY CurrentInput
<1>2. 1 \in 1 .. Len(inputs)
  BY <1>1
<1>3. inputs[1] \in Inputs
  BY <1>2, ElementOfSeq DEF RInv, TypeOK
<1> QED
  BY <1>1, <1>2, <1>3 DEF RInv, Inputs

\* What is passed of the root stays the first that sets, if what is new sets nothing.
LEMMA FirstKept ==
  ASSUME NEW s, NEW passed, NEW v, FirstOf(s, passed, v), NEW more, passed \subseteq more,
         \A k \in more : k \in passed \/ ~ SetsAt(s, k)
  PROVE  FirstOf(s, more, v)
BY DEF FirstOf

\* A step in which the first input stays, or passes an item that sets nothing.
LEMMA RootStays ==
  ASSUME RInv, RootRead, inputs # <<>>, inputs' # <<>>, content' = content, settings' = settings,
         NEW root, inputs'[1] = root, root.file = Root,
         \/ root.next = inputs[1].next
         \/ /\ Len(inputs) = 1 /\ root.next = Input.next + 1
            /\ ~ AtEnd /\ Item.kind \notin {"footer", "setting"}
  PROVE  RootRead'
<1> DEFINE n == inputs[1].next
           L == Len(content[Root])
<1>1. n \in Nat /\ n >= 1 /\ L \in Nat
  BY FirstInput, RootText
<1>2. inputs[1].file = Root /\ n - 1 <= L /\ \A k \in 1 .. n - 1 : ~ Footer(k)
  BY DEF RootRead
<1>3. PassedOfRoot = 1 .. n - 1 /\ PassedOfRoot' = 1 .. root.next - 1
  BY DEF PassedOfRoot
<1>4. \A s, k : SetsAt(s, k)' = SetsAt(s, k) /\ Footer(k)' = Footer(k)
  BY DEF SetsAt, Footer
<1>5. settings \in [Setting -> {NULL} \cup (File \X Nat)]
      /\ \A s \in Setting : FirstOf(s, PassedOfRoot, settings[s])
  BY DEF RootRead
<1>6. CASE root.next = n
  <2>1. \A s \in Setting : FirstOf(s, PassedOfRoot, settings[s])'
    BY <1>3, <1>4, <1>5, <1>6 DEF FirstOf
  <2> QED
    BY <1>2, <1>4, <1>5, <1>6, <2>1 DEF RootRead
<1>7. CASE /\ Len(inputs) = 1 /\ root.next = Input.next + 1
           /\ ~ AtEnd /\ Item.kind \notin {"footer", "setting"}
  <2>1. Input = inputs[1]
    BY <1>7, FirstInput
  <2>2. root.next = n + 1 /\ n <= L /\ content[Root][n].kind \notin {"footer", "setting"}
    BY <1>1, <1>2, <1>7, <2>1 DEF AtEnd, Item
  <2> HIDE DEF n, L
  <2>3. \A k \in 1 .. root.next - 1 : k \in 1 .. n - 1 \/ k = n
    BY <1>1, <2>2
  <2>4. \A k \in 1 .. root.next - 1 : ~ Footer(k)'
    BY <1>2, <1>4, <2>2, <2>3 DEF Footer
  <2>5. ASSUME NEW s \in Setting PROVE FirstOf(s, PassedOfRoot, settings[s])'
    <3>1. 1 .. n - 1 \subseteq 1 .. root.next - 1
      BY <1>1, <2>2
    <3>2. ~ SetsAt(s, n)
      BY <2>2 DEF SetsAt
    <3>3. FirstOf(s, 1 .. n - 1, settings[s])
      BY <1>3, <1>5
    <3>4. FirstOf(s, 1 .. root.next - 1, settings[s])
      BY <2>3, <3>1, <3>2, <3>3, FirstKept
    <3> QED
      BY <1>3, <1>4, <3>4 DEF FirstOf
  <2>6. root.next - 1 <= L
    BY <1>1, <2>2
  <2> QED
    BY <1>4, <1>5, <2>4, <2>5, <2>6 DEF RootRead, L
<1> QED
  BY <1>6, <1>7 DEF n

\* A step of the current input that is not to a setting.
LEMMA RootBecomes ==
  ASSUME RInv, RootRead, inputs # <<>>, NEW in \in Inputs, NEW n, Becomes(in, n),
         in.file = Input.file, settings' = settings,
         \/ in.next = Input.next
         \/ in.next = Input.next + 1 /\ ~ AtEnd /\ Item.kind \notin {"footer", "setting"}
  PROVE  RootRead'
<1>1. inputs' = Append(Front(inputs), in) /\ content' = content
  BY DEF Becomes
<1>2. /\ inputs' \in Seq(Inputs) /\ Len(inputs') = Len(inputs) /\ inputs'[Len(inputs)] = in
      /\ \A j \in 1 .. Len(inputs) - 1 : inputs'[j] = inputs[j]
  BY <1>1, InputReplaced
<1>3. Len(inputs) \in Nat /\ Len(inputs) >= 1 /\ (Len(inputs) = 1 => Input = inputs[1])
  BY FirstInput
<1>4. inputs' # <<>>
  BY <1>2, <1>3
<1>5. inputs[1].file = Root
  BY DEF RootRead
<1>6. CASE Len(inputs) = 1
  <2>1. inputs'[1] = in /\ in.file = Root
    BY <1>2, <1>3, <1>5, <1>6
  <2> QED
    BY <1>1, <1>3, <1>4, <1>6, <2>1, RootStays
<1>7. CASE Len(inputs) # 1
  <2>1. 1 \in 1 .. Len(inputs) - 1
    <3>1. \A m \in Nat : m >= 1 /\ m # 1 => 1 \in 1 .. m - 1
      OBVIOUS
    <3> QED
      BY <1>3, <1>7, <3>1
  <2>2. inputs'[1] = inputs[1]
    BY <1>2, <2>1
  <2> QED
    BY <1>1, <1>4, <1>5, <2>2, RootStays
<1> QED
  BY <1>6, <1>7

\* The item is passed.
LEMMA RootPasses ==
  ASSUME RInv, RootRead, inputs # <<>>, NEW legal \in BOOLEAN, NEW n \in Nat, NEW m,
         Becomes(Passed(legal, n), m), settings' = settings,
         ~ AtEnd, Item.kind \notin {"footer", "setting"}
  PROVE  RootRead'
<1> DEFINE in == Passed(legal, n)
<1>1. in \in Inputs /\ in.file = Input.file /\ in.next = Input.next + 1
  <2>1. in \in Inputs /\ in.file = Input.file
    BY PassedInput
  <2>2. Input \in Inputs
    BY CurrentInput
  <2> QED
    BY <2>1, <2>2 DEF Passed, Inputs
<1>2. Becomes(in, m)
  OBVIOUS
<1> HIDE DEF in
<1> QED
  BY <1>1, <1>2, RootBecomes

\* The item is passed, and constraints are expected next.
LEMMA RootPassesAbout ==
  ASSUME RInv, RootRead, inputs # <<>>, NEW a \in Int,
         Becomes([Passed(TRUE, 0) EXCEPT !.about = a], 0), settings' = settings,
         ~ AtEnd, Item.kind \notin {"footer", "setting"}
  PROVE  RootRead'
<1> DEFINE p == Passed(TRUE, 0)
           in == [p EXCEPT !.about = a]
<1>1. p \in Inputs /\ p.file = Input.file /\ p.next = Input.next + 1
  <2>1. p \in Inputs /\ p.file = Input.file
    BY PassedInput
  <2>2. Input \in Inputs
    BY CurrentInput
  <2> QED
    BY <2>1, <2>2 DEF Passed, Inputs
<1> HIDE DEF p
<1>2. in \in Inputs /\ in.file = p.file /\ in.next = p.next
  BY <1>1 DEF Inputs
<1>3. Becomes(in, 0)
  BY DEF p
<1> HIDE DEF in
<1> QED
  BY <1>1, <1>2, <1>3, RootBecomes

\* A setting is made by the first directive of the root, and by no other.
LEMMA SettingRead ==
  ASSUME RInv, RootRead, ReadSetting
  PROVE  RootRead'
<1> DEFINE x == Item.setting
           n == inputs[1].next
           L == Len(content[Root])
<1>1. inputs # <<>> /\ ~ AtEnd /\ Item.kind = "setting"
  BY ReadsItem DEF ReadSetting
<1>2. PICK m \in {0, 1} : /\ Becomes(Passed(TRUE, m), m)
                          /\ Settable(x) => settings' = [settings EXCEPT ![x] = Place]
                          /\ ~ Settable(x) => settings' = settings
  BY DEF ReadSetting
<1> DEFINE in == Passed(TRUE, m)
<1>3. in \in Inputs /\ in.file = Input.file /\ in.next = Input.next + 1 /\ Becomes(in, m)
  <2>1. m \in Nat /\ TRUE \in BOOLEAN
    OBVIOUS
  <2>2. in \in Inputs /\ in.file = Input.file
    BY <1>1, <2>1, PassedInput
  <2>3. Input \in Inputs
    BY <1>1, CurrentInput
  <2> QED
    BY <1>2, <2>2, <2>3 DEF Passed, Inputs
<1> HIDE DEF in
<1>4. inputs' = Append(Front(inputs), in) /\ content' = content
  BY <1>3 DEF Becomes
<1>5. /\ inputs' \in Seq(Inputs) /\ Len(inputs') = Len(inputs) /\ inputs'[Len(inputs)] = in
      /\ \A j \in 1 .. Len(inputs) - 1 : inputs'[j] = inputs[j]
  BY <1>1, <1>3, <1>4, InputReplaced
<1>6. /\ Len(inputs) \in Nat /\ Len(inputs) >= 1 /\ n \in Nat /\ n >= 1
      /\ Len(inputs) = 1 => Input = inputs[1]
  BY <1>1, FirstInput
<1>7. inputs' # <<>>
  BY <1>5, <1>6
<1>8. /\ inputs[1].file = Root /\ n - 1 <= L /\ \A k \in 1 .. n - 1 : ~ Footer(k)
      /\ settings \in [Setting -> {NULL} \cup (File \X Nat)]
      /\ \A s \in Setting : FirstOf(s, 1 .. n - 1, settings[s])
  BY <1>1 DEF RootRead, PassedOfRoot
<1>9. CASE Len(inputs) # 1
  <2>1. ~ Settable(x)
    <3>1. \A k \in Nat : k >= 1 /\ k # 1 => k > 1
      OBVIOUS
    <3>2. Len(inputs) > 1
      BY <1>6, <1>9, <3>1
    <3> QED
      BY <3>2 DEF Settable, Imported
  <2>2. 1 \in 1 .. Len(inputs) - 1
    <3>1. \A k \in Nat : k >= 1 /\ k # 1 => 1 \in 1 .. k - 1
      OBVIOUS
    <3> QED
      BY <1>6, <1>9, <3>1
  <2>3. inputs'[1] = inputs[1]
    BY <1>5, <2>2
  <2> QED
    BY <1>1, <1>2, <1>4, <1>7, <1>8, <2>1, <2>3, RootStays
<1>10. CASE Len(inputs) = 1
  <2>1. Input = inputs[1] /\ inputs'[1] = in /\ in.next = n + 1 /\ in.file = Root
    BY <1>3, <1>5, <1>6, <1>8, <1>10
  <2>2. L \in Nat /\ Root \in File
    BY RootText
  <2>3. n <= L /\ content[Root][n].kind = "setting" /\ content[Root][n].setting = x
        /\ Place = <<Root, n>>
    BY <1>1, <1>6, <1>8, <2>1, <2>2 DEF AtEnd, Item, Place
  <2>4. x \in Setting
    <3>1. n \in 1 .. Len(content[Root]) /\ content \in Contents
      BY <1>6, <2>2, <2>3 DEF RInv, TypeOK
    <3> QED
      BY <2>2, <2>3, <3>1, ContentsAssumption
  <2> HIDE DEF n, L, x
  <2>5. Settable(x) <=> settings[x] = NULL
    BY <1>10 DEF Settable, Imported
  <2>6. settings' \in [Setting -> {NULL} \cup (File \X Nat)]
    BY <1>2, <1>6, <1>8, <2>2, <2>3, <2>4
  <2>7. \A k \in 1 .. n : k \in 1 .. n - 1 \/ k = n
    BY <1>6
  <2>8. 1 .. n - 1 \subseteq 1 .. n /\ n \in 1 .. n /\ \A k \in 1 .. n : k <= n
    BY <1>6
  <2>9. \A k \in 1 .. n : ~ Footer(k)
    BY <1>8, <2>3, <2>7 DEF Footer
  <2>10. SetsAt(x, n) /\ \A s : SetsAt(s, n) => s = x
    BY <2>3 DEF SetsAt
  <2>11. ASSUME NEW s \in Setting PROVE FirstOf(s, 1 .. n, settings'[s])
    <3>1. CASE s # x
      <4>1. settings'[s] = settings[s]
        BY <1>2, <1>8, <3>1
      <4>2. FirstOf(s, 1 .. n - 1, settings[s])
        BY <1>8
      <4>3. \A k \in 1 .. n : k \in 1 .. n - 1 \/ ~ SetsAt(s, k)
        BY <2>7, <2>10, <3>1
      <4> QED
        BY <2>8, <4>1, <4>2, <4>3, FirstKept
    <3>2. CASE s = x /\ settings[x] # NULL
      <4>1. settings'[s] = settings[s]
        BY <1>2, <2>5, <3>2
      <4>2. PICK k \in 1 .. n - 1 : settings[s] = <<Root, k>> /\ SetsAt(s, k)
                                     /\ \A j \in 1 .. n - 1 : SetsAt(s, j) => k <= j
        BY <1>8, <3>2 DEF FirstOf
      <4>3. k \in 1 .. n /\ k <= n
        BY <2>8
      <4>4. \A j \in 1 .. n : SetsAt(s, j) => k <= j
        BY <2>7, <4>2, <4>3
      <4> QED
        BY <4>1, <4>2, <4>3, <4>4 DEF FirstOf
    <3>3. CASE s = x /\ settings[x] = NULL
      <4>1. settings'[s] = <<Root, n>>
        BY <1>2, <1>8, <2>3, <2>4, <2>5, <3>3
      <4>2. \A k \in 1 .. n - 1 : ~ SetsAt(s, k)
        BY <1>8, <3>3 DEF FirstOf, NULL
      <4>3. \A j \in 1 .. n : SetsAt(s, j) => n <= j
        BY <1>6, <2>7, <4>2
      <4> QED
        BY <2>8, <2>10, <3>3, <4>1, <4>3 DEF FirstOf
    <3> QED
      BY <3>1, <3>2, <3>3
  <2>12. PassedOfRoot' = 1 .. n /\ inputs'[1].next - 1 = n
    <3>1. n + 1 - 1 = n
      BY <1>6
    <3>2. inputs'[1].next - 1 = n
      <4>1. inputs'[1].next = n + 1
        BY <2>1
      <4>2. \A q : q = n + 1 => q - 1 = n
        BY <1>6
      <4> QED
        BY <4>1, <4>2
    <3>3. PassedOfRoot' = 1 .. (inputs'[1].next - 1)
      BY <1>7 DEF PassedOfRoot
    <3> QED
      BY <3>2, <3>3
  <2>13. \A s, k : SetsAt(s, k)' = SetsAt(s, k) /\ Footer(k)' = Footer(k)
    BY <1>4 DEF SetsAt, Footer
  <2>14. \A s \in Setting : FirstOf(s, PassedOfRoot, settings[s])'
    BY <2>11, <2>12, <2>13 DEF FirstOf
  <2>15. inputs'[1].next - 1 <= Len(content'[Root]) /\ \A k \in 1 .. inputs'[1].next - 1 : ~ Footer(k)'
    BY <1>4, <2>3, <2>9, <2>12, <2>13 DEF L
  <2> QED
    BY <2>1, <2>6, <2>14, <2>15 DEF RootRead
<1> QED
  BY <1>9, <1>10

\* An import leaves the first input where it is, or behind the directive.
LEMMA RootImports ==
  ASSUME RInv, RootRead, Import
  PROVE  RootRead'
<1> DEFINE f == Located(Item.path)
           p == Passed(TRUE, 0)
           a == [p EXCEPT !.about = New]
           b == Create(f)
           N == Len(inputs)
<1>1. inputs # <<>> /\ ~ AtEnd /\ Item.kind = "import" /\ f \in File
  BY ReadsItem DEF Import
<1>2. inputs' = Front(inputs) \o <<a, b>> /\ content' = content /\ settings' = settings
  BY DEF Import
<1>3. p \in Inputs /\ p.file = Input.file /\ p.next = Input.next + 1
  <2>1. p \in Inputs /\ p.file = Input.file
    BY <1>1, PassedInput
  <2>2. Input \in Inputs
    BY <1>1, CurrentInput
  <2> QED
    BY <2>1, <2>2 DEF Passed, Inputs
<1>4. New \in Int
  BY LenProperties DEF New, RInv, TypeOK
<1> HIDE DEF p
<1>5. a \in Inputs /\ a.file = Input.file /\ a.next = Input.next + 1
  BY <1>3, <1>4 DEF Inputs
<1>6. b \in Inputs
  BY <1>1 DEF Create, Inputs, NOTHING
<1> HIDE DEF f, a, b
<1>7. /\ inputs' \in Seq(Inputs) /\ Len(inputs') = N + 1
      /\ inputs'[N] = a /\ \A j \in 1 .. N - 1 : inputs'[j] = inputs[j]
  BY <1>1, <1>2, <1>5, <1>6, InputPushed
<1>8. N \in Nat /\ N >= 1 /\ (N = 1 => Input = inputs[1])
  BY <1>1, FirstInput
<1>9. inputs' # <<>> /\ inputs[1].file = Root
  <2>1. N + 1 # 0
    BY <1>8
  <2>2. Len(inputs') # 0
    BY <1>7, <2>1
  <2> QED
    BY <1>1, <2>2 DEF RootRead
<1> HIDE DEF N
<1>10. CASE N = 1
  <2>1. inputs'[1] = a /\ a.file = Root
    BY <1>5, <1>7, <1>8, <1>9, <1>10
  <2> QED
    BY <1>1, <1>2, <1>5, <1>9, <1>10, <2>1, RootStays DEF N
<1>11. CASE N # 1
  <2>1. 1 \in 1 .. N - 1
    BY <1>8, <1>11
  <2>2. inputs'[1] = inputs[1]
    BY <1>7, <2>1
  <2> QED
    BY <1>1, <1>2, <1>9, <2>2, RootStays
<1> QED
  BY <1>10, <1>11

\* When the root ends, all of it in front of %% has been passed.
LEMMA RootEnds ==
  ASSUME RInv, RootRead, EndFile
  PROVE  RootRead'
<1> DEFINE n == inputs[1].next
           N == Len(inputs)
           L == Len(content[Root])
<1>1. inputs # <<>> /\ (AtEnd \/ Comes("footer"))
      /\ inputs' = Front(inputs) /\ content' = content /\ settings' = settings
  BY DEF EndFile
<1>2. inputs \in Seq(Inputs)
  BY DEF RInv, TypeOK
<1>3. Front(inputs) \in Seq(Inputs) /\ Len(Front(inputs)) = N - 1
      /\ \A j \in 1 .. N - 1 : Front(inputs)[j] = inputs[j]
  BY <1>1, <1>2, FrontOf
<1>4. N \in Nat /\ N >= 1 /\ n \in Nat /\ n >= 1 /\ (N = 1 => Input = inputs[1])
  BY <1>1, FirstInput
<1>5. /\ inputs[1].file = Root /\ n - 1 <= L /\ \A k \in 1 .. n - 1 : ~ Footer(k)
      /\ settings \in [Setting -> {NULL} \cup (File \X Nat)]
      /\ \A s \in Setting : FirstOf(s, 1 .. n - 1, settings[s])
  BY <1>1 DEF RootRead, PassedOfRoot
<1>6. CASE N # 1
  <2> DEFINE t == Front(inputs)
  <2> HIDE DEF t, N
  <2>1. 1 \in 1 .. N - 1 /\ N - 1 # 0
    BY <1>4, <1>6
  <2>2. t[1] = inputs[1] /\ Len(t) # 0
    BY <1>3, <2>1 DEF t
  <2>3. inputs'[1] = inputs[1] /\ inputs' # <<>>
    BY <1>1, <2>2 DEF t
  <2> QED
    BY <1>1, <1>5, <2>3, RootStays
<1>7. CASE N = 1
  <2>1. inputs' = <<>>
    <3>1. Len(inputs') = 0 /\ inputs' \in Seq(Inputs)
      BY <1>1, <1>3, <1>7
    <3> QED
      BY <3>1, EmptySeq
  <2>2. L \in Nat /\ Input = inputs[1]
    BY <1>4, <1>7, RootText
  <2>3. n = L + 1 \/ (n <= L /\ Footer(n))
    BY <1>1, <1>4, <1>5, <2>2 DEF AtEnd, Comes, Item, Footer
  <2> DEFINE passed == {k \in 1 .. L : ~ \E j \in 1 .. k : Footer(j)}
  <2> HIDE DEF n, L
  <2>4. passed = 1 .. n - 1
    <3>1. CASE n = L + 1
      <4>1. n - 1 = L
        BY <2>2, <3>1
      <4>2. \A k \in 1 .. L : \A j \in 1 .. k : j \in 1 .. L
        BY <2>2
      <4> QED
        BY <1>5, <4>1, <4>2
    <3>2. CASE n <= L /\ Footer(n)
      <4>1. ASSUME NEW k \in 1 .. n - 1 PROVE k \in passed
        <5>1. k \in 1 .. L /\ \A j \in 1 .. k : j \in 1 .. n - 1
          BY <1>4, <2>2, <3>2
        <5> QED
          BY <1>5, <5>1
      <4>2. ASSUME NEW k \in passed PROVE k \in 1 .. n - 1
        <5>1. k \in 1 .. L /\ ~ (n \in 1 .. k)
          BY <3>2
        <5> QED
          BY <1>4, <2>2, <5>1
      <4> QED
        BY <4>1, <4>2
    <3> QED
      BY <2>3, <3>1, <3>2
  <2>5. \A s, k : SetsAt(s, k)' = SetsAt(s, k) /\ Footer(k)' = Footer(k)
    BY <1>1 DEF SetsAt, Footer
  <2>6. PassedOfRoot' = 1 .. n - 1
    BY <1>1, <2>1, <2>4, <2>5 DEF PassedOfRoot, L
  <2>7. \A s \in Setting : FirstOf(s, PassedOfRoot, settings[s])'
    BY <1>1, <1>5, <2>5, <2>6 DEF FirstOf
  <2> QED
    BY <1>1, <1>5, <2>1, <2>7 DEF RootRead
<1> QED
  BY <1>6, <1>7

\* The invariant of the root holds at first.
LEMMA InitRoot ==
  ASSUME Init
  PROVE  RootRead
<1> DEFINE b == Create(Root)
<1>1. inputs = <<b>> /\ settings = [s \in Setting |-> NULL] /\ content \in Contents
  BY DEF Init
<1>2. b.next = 1 /\ b.file = Root
  BY DEF Create
<1> HIDE DEF b
<1>3. inputs[1] = b /\ inputs # <<>>
  BY <1>1
<1>4. 1 .. b.next - 1 = {} /\ b.next - 1 = 0
  BY <1>2
<1>5. PassedOfRoot = {}
  BY <1>3, <1>4 DEF PassedOfRoot
<1>6. \A s \in Setting : FirstOf(s, PassedOfRoot, settings[s])
  BY <1>1, <1>5 DEF FirstOf
<1>7. Len(content[Root]) \in Nat
  BY <1>1, ContentsAssumption, ReadingAssumption
<1>8. settings \in [Setting -> {NULL} \cup (File \X Nat)]
  BY <1>1
<1> QED
  BY <1>2, <1>3, <1>4, <1>6, <1>7, <1>8 DEF RootRead

\* Every step keeps it.
LEMMA NextRoot ==
  ASSUME RInv, RootRead, [Next]_vars
  PROVE  RootRead'
<1>1. CASE UNCHANGED vars
  <2>1. content' = content /\ inputs' = inputs /\ settings' = settings
    BY <1>1 DEF vars
  <2> QED
    BY <2>1 DEF RootRead, PassedOfRoot, FirstOf, SetsAt, Footer
<1> TRUE \in BOOLEAN /\ FALSE \in BOOLEAN /\ 0 \in Nat /\ 1 \in Nat /\ PACKCC \in Int
  BY DEF PACKCC
<1>2. CASE ReadRule
  <2>1. Reads("rule") /\ Becomes(Passed(TRUE, Item.faults), Item.faults) /\ settings' = settings
    BY <1>2 DEF ReadRule
  <2>2. inputs # <<>> /\ ~ AtEnd /\ Item.kind = "rule" /\ Item.faults \in Nat
    BY <2>1, ReadsItem, ItemRead
  <2> QED
    BY <2>1, <2>2, RootPasses
<1>3. CASE ReadIllegal
  <2>1. /\ inputs # <<>> /\ ~ AtEnd /\ Item.kind \in {"illegal", "constraints"}
        /\ settings' = settings
    BY <1>3, ReadsItem DEF ReadIllegal
  <2>2. PICK n \in Nat : Becomes(Passed(FALSE, n), n)
    BY <1>3 DEF ReadIllegal
  <2> QED
    BY <2>1, <2>2, RootPasses
<1>4. CASE ReadUnknown \/ ReadMarker \/ ImportFails \/ ReadVersion
  <2>1. /\ inputs # <<>> /\ ~ AtEnd /\ Item.kind \in {"unknown", "marker", "import", "version"}
        /\ settings' = settings
    BY <1>4, ReadsItem DEF ReadUnknown, ReadMarker, ImportFails, ReadVersion
  <2>2. Becomes(Passed(TRUE, 0), 0) \/ Becomes(Passed(TRUE, 1), 1)
    BY <1>4 DEF ReadUnknown, ReadMarker, ImportFails, ReadVersion
  <2> QED
    BY <2>1, <2>2, RootPasses
<1>5. CASE ReadSetting
  BY <1>5, SettingRead
<1>6. CASE ReadRequires
  <2>1. inputs # <<>> /\ ~ AtEnd /\ Item.kind = "requires" /\ settings' = settings
    BY <1>6, ReadsItem DEF ReadRequires
  <2>2. \/ Becomes([Passed(TRUE, 0) EXCEPT !.about = PACKCC], 0)
        \/ Becomes(Passed(TRUE, 1), 1)
    BY <1>6 DEF ReadRequires
  <2> QED
    BY <2>1, <2>2, RootPasses, RootPassesAbout
<1>7. CASE ImportAgain
  <2> DEFINE a == Min(Known(Located(Item.path)))
  <2>1. /\ inputs # <<>> /\ ~ AtEnd /\ Item.kind = "import" /\ settings' = settings
        /\ Known(Located(Item.path)) # {}
    BY <1>7, ReadsItem DEF ImportAgain
  <2>2. Len(finfo) \in Nat /\ a \in 1 .. Len(finfo)
    BY <2>1, KnownEntry, LenProperties DEF RInv, TypeOK
  <2>3. a \in Int /\ Becomes([Passed(TRUE, 0) EXCEPT !.about = a], 0)
    BY <1>7, <2>2 DEF ImportAgain
  <2> HIDE DEF a
  <2> QED
    BY <2>1, <2>3, RootPassesAbout
<1>8. CASE Import
  BY <1>8, RootImports
<1>9. CASE CheckVersion
  <2>1. /\ inputs # <<>> /\ ~ AtEnd /\ Item.kind = "constraints" /\ settings' = settings
    BY <1>9 DEF CheckVersion, Comes
  <2>2. PICK rest \in Behind : Becomes(Passed(TRUE, Violated(rest)), Violated(rest))
    BY <1>9 DEF CheckVersion
  <2>3. Violated(rest) \in Nat
    BY <2>1, ItemRead DEF Violated
  <2> QED
    BY <2>1, <2>2, <2>3, RootPasses
<1>10. CASE NoConstraints
  <2> DEFINE n == IF Input.about = PACKCC THEN 1 ELSE 0
             q == Input
             in == [q EXCEPT !.about = NOTHING, !.errnum = @ + n]
  <2>1. inputs # <<>> /\ settings' = settings /\ Becomes(in, n)
    BY <1>10 DEF NoConstraints
  <2>2. q \in Inputs /\ n \in Nat
    BY <2>1, CurrentInput
  <2> HIDE DEF q, n
  <2>3. in = [file |-> q.file, next |-> q.next, legal |-> q.legal,
              errnum |-> q.errnum + n, about |-> 0]
    <3>1. in = [q EXCEPT !.about = 0, !.errnum = @ + n]
      BY DEF NOTHING
    <3> HIDE DEF in
    <3> QED
      BY <2>2, <3>1 DEF Inputs
  <2> HIDE DEF in
  <2>4. in \in Inputs /\ in.file = q.file /\ in.next = q.next
    BY <2>2, <2>3 DEF Inputs
  <2> QED
    BY <2>1, <2>4, RootBecomes DEF q
<1>11. CASE EndFile
  BY <1>11, RootEnds
<1>12. CASE Done
  BY <1>1, <1>12 DEF Done
<1> QED
  BY <1>1, <1>2, <1>3, <1>4, <1>5, <1>6, <1>7, <1>8, <1>9, <1>10, <1>11, <1>12 DEF Next

\* A marker is entered only if no other one begins with its name.
LEMMA MarkerRead ==
  ASSUME RInv, MarkersApart, ReadMarker
  PROVE  MarkersApart'
<1> DEFINE name == Item.name
           L == Len(mvars)
<1>1. inputs # <<>> /\ ~ AtEnd /\ Item.kind = "marker"
  BY ReadsItem DEF ReadMarker
<1>2. name \in MarkerNames /\ Len(name) \in Nat
  <2>1. /\ Input.file \in File /\ Input.next \in Nat /\ Input.next >= 1
        /\ content \in Contents /\ Item = content[Input.file][Input.next]
    BY <1>1, CurrentInput DEF RInv, TypeOK, Item
  <2>2. Input.next \in 1 .. Len(content[Input.file])
    BY <1>1, <2>1, ContentsAssumption DEF AtEnd
  <2>3. name = content[Input.file][Input.next].name
    BY <2>1
  <2>4. name \in MarkerNames
    BY <2>1, <2>3 DEF MarkerNames
  <2>5. Len(name) \in Nat
    BY <1>1, <2>1, <2>2, <2>3, ContentsAssumption
  <2> QED
    BY <2>4, <2>5
<1>3. mvars \in Seq(MarkerNames) /\ L \in Nat /\ DOMAIN mvars = 1 .. L
  BY LenProperties DEF MarkersApart
<1>4. CASE Declared(name)
  <2>1. mvars' = mvars
    BY <1>4 DEF ReadMarker
  <2> QED
    BY <2>1 DEF MarkersApart
<1>5. CASE ~ Declared(name)
  <2>1. mvars' = Append(mvars, name)
    BY <1>5 DEF ReadMarker
  <2> HIDE DEF name, L
  <2>2. /\ mvars' \in Seq(MarkerNames) /\ Len(mvars') = L + 1
        /\ mvars'[L + 1] = name /\ \A k \in 1 .. L : mvars'[k] = mvars[k]
    BY <1>2, <1>3, <2>1, AppendProperties DEF L
  <2>3. \A k \in 1 .. L : mvars[k] # name
    <3>1. IsPrefix(name, name)
      BY <1>2 DEF IsPrefix
    <3> QED
      BY <1>3, <1>5, <3>1 DEF Declared
  <2>4. \A k \in 1 .. L + 1 : k = L + 1 \/ k \in 1 .. L
    BY <1>3
  <2>5. \A k \in 1 .. L + 1 : Len(mvars'[k]) \in Nat
    BY <1>2, <2>2, <2>4 DEF MarkersApart, L
  <2>6. \A j, k \in 1 .. L : mvars[j] = mvars[k] => j = k
    BY DEF MarkersApart, L
  <2>7. ASSUME NEW j \in 1 .. L + 1, NEW k \in 1 .. L + 1, mvars'[j] = mvars'[k] PROVE j = k
    BY <2>2, <2>3, <2>4, <2>6, <2>7
  <2> QED
    BY <2>2, <2>5, <2>7 DEF MarkersApart
<1> QED
  BY <1>4, <1>5

\* The markers stay apart, and settings are the first of the root.
LEMMA ReadingKept ==
  ASSUME RInv, RootRead, MarkersApart, [Next]_vars
  PROVE  RootRead' /\ MarkersApart'
<1>1. RootRead'
  BY NextRoot
<1>2. ASSUME ReadMarker PROVE MarkersApart'
  BY <1>2, MarkerRead
<1>3. ASSUME ~ ReadMarker PROVE MarkersApart'
  <2>1. mvars' = mvars
    BY <1>3 DEF Next, vars, ReadRule, ReadIllegal, ReadUnknown, ReadVersion, ReadSetting,
                ReadRequires, ImportFails, ImportAgain, Import, CheckVersion, NoConstraints,
                EndFile, Done
  <2> QED
    BY <2>1 DEF MarkersApart
<1> QED
  BY <1>1, <1>2, <1>3

\* The settings are those of the first directives of the root in front of %%, and
\* the markers differ (parse_directive_string_, parse_directive_marker_), whatever
\* is imported and however deep.
THEOREM SettingsAreTheRoots == Spec => []SettingsOfRoot
<1>1. Init => RootRead /\ MarkersApart
  <2>1. SUFFICES ASSUME Init PROVE RootRead /\ MarkersApart
    OBVIOUS
  <2>2. mvars = <<>>
    BY <2>1 DEF Init
  <2>3. MarkersApart
    BY <2>2 DEF MarkersApart
  <2> QED
    BY <2>1, <2>3, InitRoot
<1>2. RInv /\ RootRead /\ MarkersApart /\ [Next]_vars => RootRead' /\ MarkersApart'
  BY ReadingKept
<1>3. RInv /\ RootRead /\ MarkersApart => SettingsOfRoot
  <2>1. SUFFICES ASSUME RInv, RootRead, MarkersApart PROVE SettingsOfRoot
    OBVIOUS
  <2>2. IsInjective(mvars)
    <3>1. DOMAIN mvars = 1 .. Len(mvars)
      BY <2>1, LenProperties DEF MarkersApart
    <3> QED
      BY <2>1, <3>1 DEF MarkersApart, IsInjective
  <2>3. ASSUME NEW s \in Setting
        PROVE  LET Sets(k) == content[Root][k].kind = "setting" /\ content[Root][k].setting = s
                   passed == IF inputs = <<>> THEN DOMAIN content[Root] ELSE 1 .. (inputs[1].next - 1)
                   open == {k \in passed : ~ \E j \in 1 .. k : content[Root][j].kind = "footer"}
                   at == {k \in open : Sets(k)}
               IN settings[s] = IF at = {} THEN NULL ELSE <<Root, Min(at)>>
    <3> DEFINE passed == IF inputs = <<>> THEN DOMAIN content[Root] ELSE 1 .. (inputs[1].next - 1)
               open == {k \in passed : ~ \E j \in 1 .. k : content[Root][j].kind = "footer"}
               at == {k \in open : SetsAt(s, k)}
    <3>1. open = PassedOfRoot
      <4>1. CASE inputs = <<>>
        BY <2>1, <4>1, RootText DEF PassedOfRoot, Footer
      <4>2. CASE inputs # <<>>
        <5> DEFINE n == inputs[1].next
        <5>1. n \in Nat /\ \A k \in 1 .. n - 1 : ~ Footer(k)
          BY <2>1, <4>2, FirstInput DEF RootRead
        <5> HIDE DEF n
        <5>2. \A k \in 1 .. n - 1 : \A j \in 1 .. k : j \in 1 .. n - 1
          BY <5>1
        <5>3. \A k \in 1 .. n - 1 : ~ \E j \in 1 .. k : Footer(j)
          BY <5>1, <5>2
        <5>4. passed = 1 .. n - 1 /\ PassedOfRoot = 1 .. n - 1
          BY <4>2 DEF PassedOfRoot, n
        <5> HIDE DEF passed
        <5> QED
          BY <5>3, <5>4 DEF Footer
      <4> QED
        BY <4>1, <4>2
    <3>2. FirstOf(s, PassedOfRoot, settings[s])
      BY <2>1 DEF RootRead
    <3>3. PassedOfRoot \subseteq Int
      BY <2>1, RootText DEF PassedOfRoot
    <3> HIDE DEF open
    <3>4. settings[s] = IF at = {} THEN NULL ELSE <<Root, Min(at)>>
      <4>1. CASE at = {}
        BY <3>1, <3>2, <4>1 DEF FirstOf
      <4>2. CASE at # {}
        <5>1. PICK k \in at : settings[s] = <<Root, k>> /\ \A j \in at : k <= j
          BY <3>1, <3>2, <4>2 DEF FirstOf
        <5>2. at \subseteq Int
          BY <3>1, <3>3
        <5>3. Min(at) = k
          BY <5>1, <5>2 DEF Min
        <5> QED
          BY <4>2, <5>1, <5>3
      <4> QED
        BY <4>1, <4>2
    <3> QED
      BY <3>4 DEF open, SetsAt
  <2> QED
    BY <2>2, <2>3 DEF SettingsOfRoot
<1> QED
  BY <1>1, <1>2, <1>3, ReadingInvariant, PTL DEF Spec

-----------------------------------------------------------------------------
(* Least elements, and functions that recur.                                *)

\* A set of natural numbers has a least element.
LEMMA LeastOf ==
  ASSUME NEW S, S \subseteq Nat, S # {}
  PROVE  \E x \in S : \A y \in S : x <= y
<1>1. PICK x \in S : \A y \in S : <<y, x>> \notin OpToRel(<, Nat)
  BY NatLessThanWellFounded, WFMin
<1>2. ASSUME NEW y \in S
      PROVE  x <= y
  <2>1. x \in Nat /\ y \in Nat
    OBVIOUS
  <2>2. ~(y < x)
    BY <1>1, <2>1 DEF OpToRel
  <2> QED
    BY <2>1, <2>2
<1> QED
  BY <1>2

\* The least element is Min.
LEMMA MinOf ==
  ASSUME NEW S, S \subseteq Nat, S # {}
  PROVE  /\ Min(S) \in S
         /\ \A y \in S : Min(S) <= y
<1>1. \E x \in S : \A y \in S : x <= y
  BY LeastOf
<1> QED
  BY <1>1 DEF Min

\* A set that holds 0, and with a number the next one, holds all up to m.
LEMMA Upwards ==
  ASSUME NEW m \in Nat, NEW S,
         0 \in S, \A k \in 0 .. m : k # m /\ k \in S => k + 1 \in S
  PROVE  \A k \in 0 .. m : k \in S
<1> SUFFICES ASSUME NEW b \in (0 .. m) \ S
             PROVE  FALSE
  OBVIOUS
<1>1. PICK x \in (0 .. m) \ S : \A y \in (0 .. m) \ S : x <= y
  <2>1. (0 .. m) \ S \subseteq Nat /\ (0 .. m) \ S # {}
    OBVIOUS
  <2> QED
    BY <2>1, LeastOf
<1>2. x # 0 /\ x - 1 \in 0 .. m /\ x - 1 # m /\ (x - 1) + 1 = x /\ ~(x <= x - 1)
  BY <1>1
<1>3. x - 1 \in S
  BY <1>1, <1>2
<1> QED
  BY <1>1, <1>2, <1>3

\* A function is defined by its value at 0 and the step from each value to the next.
Iterate(f, m, x0, Step) == f = [k \in 0 .. m |-> IF k = 0 THEN x0 ELSE Step[k][f[k - 1]]]

LEMMA Iterates ==
  ASSUME NEW m \in Nat, NEW X, NEW x0 \in X, NEW Step \in [1 .. m -> [X -> X]]
  PROVE  \E f \in [0 .. m -> X] : Iterate(f, m, x0, Step)
<1> DEFINE Fits(f, n) == \A k \in 0 .. n : f[k] = IF k = 0 THEN x0 ELSE Step[k][f[k - 1]]
           S == {n \in 0 .. m : \E f \in [0 .. n -> X] : Fits(f, n)}
<1>1. 0 \in S
  <2> DEFINE f0 == [k \in 0 .. 0 |-> x0]
  <2>1. f0 \in [0 .. 0 -> X] /\ Fits(f0, 0) /\ 0 \in 0 .. m
    OBVIOUS
  <2> HIDE DEF f0, Fits
  <2> QED
    BY <2>1
<1>2. ASSUME NEW n \in 0 .. m, n # m, n \in S
      PROVE  n + 1 \in S
  <2>1. PICK f \in [0 .. n -> X] : Fits(f, n)
    BY <1>2
  <2> DEFINE g == [k \in 0 .. (n + 1) |-> IF k = n + 1 THEN Step[n + 1][f[n]] ELSE f[k]]
  <2>2. n \in Nat /\ n + 1 \in 1 .. m /\ n \in 0 .. n
    BY <1>2
  <2>3. Step[n + 1][f[n]] \in X
    BY <2>2
  <2>4. g \in [0 .. (n + 1) -> X]
    BY <2>2, <2>3
  <2>5. ASSUME NEW k \in 0 .. (n + 1)
        PROVE  g[k] = IF k = 0 THEN x0 ELSE Step[k][g[k - 1]]
    <3>1. CASE k = n + 1
      <4>1. k # 0 /\ k - 1 = n /\ n \in 0 .. (n + 1) /\ n # n + 1
        BY <3>1, <2>2
      <4> QED
        BY <4>1, <3>1
    <3>2. CASE k # n + 1
      <4>1. k \in 0 .. n /\ (k # 0 => k - 1 \in 0 .. n /\ k - 1 \in 0 .. (n + 1) /\ k - 1 # n + 1)
        BY <3>2, <2>2
      <4>2. g[k] = f[k] /\ (k # 0 => g[k - 1] = f[k - 1])
        BY <4>1, <3>2
      <4> QED
        BY <4>1, <4>2, <2>1
    <3> QED
      BY <3>1, <3>2
  <2>6. Fits(g, n + 1)
    BY <2>5
  <2> HIDE DEF g, Fits
  <2> QED
    BY <2>2, <2>4, <2>6
<1>3. m \in S
  <2> HIDE DEF S
  <2>1. \A k \in 0 .. m : k \in S
    BY <1>1, <1>2, Upwards
  <2> QED
    BY <2>1
<1>4. PICK f \in [0 .. m -> X] : Fits(f, m)
  BY <1>3
<1>5. Iterate(f, m, x0, Step)
  BY <1>4 DEF Iterate
<1> QED
  BY <1>5

-----------------------------------------------------------------------------
(* Numbers in versions.                                                     *)

\* What the first digits write.
Leading(n, d) ==
  /\ n \in [0 .. Len(d) -> Nat] /\ n[0] = 0
  /\ \A k \in 1 .. Len(d) : n[k] = 10 * n[k - 1] + d[k]

LEMMA NumberOf ==
  ASSUME NEW d \in Seq(Nat)
  PROVE  Len(d) \in Nat /\ \E n : Leading(n, d) /\ Number(d) = n[Len(d)]
<1> DEFINE L == Len(d)
           Step == [k \in 1 .. L |-> [x \in Nat |-> 10 * x + d[k]]]
<1>1. L \in Nat /\ \A k \in 1 .. L : d[k] \in Nat
  BY LenProperties, ElementOfSeq
<1> HIDE DEF L
<1>2. Step \in [1 .. L -> [Nat -> Nat]] /\ 0 \in Nat
  BY <1>1
<1> HIDE DEF Step
<1>3. PICK f \in [0 .. L -> Nat] : Iterate(f, L, 0, Step)
  BY <1>1, <1>2, Iterates
<1> DEFINE Fits(n) == n = [k \in 0 .. L |-> IF k = 0 THEN 0 ELSE 10 * n[k - 1] + d[k]]
<1>4. Fits(f)
  <2>1. f = [k \in 0 .. L |-> IF k = 0 THEN 0 ELSE Step[k][f[k - 1]]]
    BY <1>3 DEF Iterate
  <2>2. \A k \in 0 .. L : k # 0 => Step[k][f[k - 1]] = 10 * f[k - 1] + d[k]
    <3> SUFFICES ASSUME NEW k \in 0 .. L, k # 0 PROVE Step[k][f[k - 1]] = 10 * f[k - 1] + d[k]
      OBVIOUS
    <3>1. k \in 1 .. L /\ f[k - 1] \in Nat
      BY <1>1
    <3> QED
      BY <3>1 DEF Step
  <2>3. \A k \in 0 .. L : f[k] = IF k = 0 THEN 0 ELSE 10 * f[k - 1] + d[k]
    <3> SUFFICES ASSUME NEW k \in 0 .. L PROVE f[k] = IF k = 0 THEN 0 ELSE 10 * f[k - 1] + d[k]
      OBVIOUS
    <3>1. f[k] = IF k = 0 THEN 0 ELSE Step[k][f[k - 1]]
      BY <2>1
    <3> QED
      BY <2>2, <3>1
  <2> QED
    BY <2>3
<1> DEFINE n == CHOOSE n : Fits(n)
<1>5. Fits(n)
  BY <1>4
<1>6. Number(d) = n[L]
  BY DEF Number, L
<1> HIDE DEF n
<1>7. \A k \in 0 .. L : n[k] = IF k = 0 THEN 0 ELSE 10 * n[k - 1] + d[k]
  BY <1>5
<1>8. DOMAIN n = 0 .. L /\ n = [k \in 0 .. L |-> n[k]]
  BY <1>5
<1> HIDE DEF Fits
<1> DEFINE S == {k \in 0 .. L : n[k] \in Nat}
<1>9. \A k \in 0 .. L : k \in S
  <2>1. 0 \in S
    BY <1>1, <1>7
  <2>2. ASSUME NEW k \in 0 .. L, k # L, k \in S PROVE k + 1 \in S
    <3>1. k + 1 \in 0 .. L /\ k + 1 # 0 /\ (k + 1) - 1 = k /\ d[k + 1] \in Nat /\ n[k] \in Nat
      BY <1>1, <2>2
    <3>2. n[k + 1] = 10 * n[k] + d[k + 1]
      BY <1>7, <3>1
    <3>3. 10 * n[k] + d[k + 1] \in Nat
      BY <3>1
    <3> QED
      BY <3>1, <3>2, <3>3
  <2> HIDE DEF S
  <2> QED
    BY <1>1, <2>1, <2>2, Upwards
<1>10. n \in [0 .. L -> Nat]
  BY <1>8, <1>9
<1>11. Leading(n, d)
  BY <1>1, <1>7, <1>10 DEF Leading, L
<1> QED
  BY <1>1, <1>6, <1>11 DEF L

\* Digits that agree write the same number, and of two that do not the first decides.
LEMMA SameDigits ==
  ASSUME NEW v \in Seq(Nat), NEW w \in Seq(Nat), Len(v) = Len(w),
         \A k \in 1 .. Len(v) : v[k] = w[k]
  PROVE  Number(v) = Number(w)
<1>1. PICK a : Leading(a, v) /\ Number(v) = a[Len(v)]
  BY NumberOf
<1>2. PICK b : Leading(b, w) /\ Number(w) = b[Len(w)]
  BY NumberOf
<1> DEFINE L == Len(v)
           S == {k \in 0 .. L : a[k] = b[k]}
<1>3. L \in Nat /\ L = Len(w)
  BY LenProperties
<1>4. /\ a[0] = 0 /\ \A k \in 1 .. L : a[k] = 10 * a[k - 1] + v[k]
      /\ b[0] = 0 /\ \A k \in 1 .. L : b[k] = 10 * b[k - 1] + v[k]
  BY <1>1, <1>2, <1>3 DEF Leading
<1> HIDE DEF L
<1>5. 0 \in S
  BY <1>3, <1>4
<1>6. ASSUME NEW k \in 0 .. L, k # L, k \in S PROVE k + 1 \in S
  <2>1. k + 1 \in 1 .. L /\ k + 1 \in 0 .. L /\ (k + 1) - 1 = k
    BY <1>3, <1>6
  <2> QED
    BY <1>4, <1>6, <2>1
<1> HIDE DEF S
<1>7. L \in S
  <2>1. \A k \in 0 .. L : k \in S
    BY <1>3, <1>5, <1>6, Upwards
  <2>2. L \in 0 .. L
    BY <1>3
  <2> QED
    BY <2>1, <2>2
<1> QED
  BY <1>1, <1>2, <1>7 DEF S, L

LEMMA TenTimes ==
  \A a, b, x, y \in Nat : x <= 9 /\ a < b => 10 * a + x < 10 * b + y
OBVIOUS

LEMMA FirstDigit ==
  ASSUME NEW v \in Seq(Nat), NEW w \in Seq(Nat), Len(v) = Len(w), IsNumeral(v), IsNumeral(w),
         NEW m \in 1 .. Len(v), v[m] < w[m], \A k \in 1 .. Len(v) : k < m => v[k] = w[k]
  PROVE  Number(v) < Number(w)
<1>1. PICK a : Leading(a, v) /\ Number(v) = a[Len(v)]
  BY NumberOf
<1>2. PICK b : Leading(b, w) /\ Number(w) = b[Len(w)]
  BY NumberOf
<1> DEFINE L == Len(v)
           S == {k \in 0 .. L : IF k < m THEN a[k] = b[k] ELSE a[k] < b[k]}
<1>3. L \in Nat /\ L = Len(w) /\ m \in 1 .. L
  BY LenProperties
<1>4. /\ a \in [0 .. L -> Nat] /\ a[0] = 0 /\ \A k \in 1 .. L : a[k] = 10 * a[k - 1] + v[k]
      /\ b \in [0 .. L -> Nat] /\ b[0] = 0 /\ \A k \in 1 .. L : b[k] = 10 * b[k - 1] + w[k]
  BY <1>1, <1>2, <1>3 DEF Leading
<1>5. \A k \in 1 .. L : v[k] \in Nat /\ w[k] \in Nat /\ v[k] <= 9 /\ w[k] <= 9
  BY <1>3, ElementOfSeq DEF IsNumeral
<1> HIDE DEF L
<1>6. 0 \in S
  BY <1>3, <1>4
<1>7. ASSUME NEW k \in 0 .. L, k # L, k \in S PROVE k + 1 \in S
  <2>1. k + 1 \in 1 .. L /\ k + 1 \in 0 .. L /\ (k + 1) - 1 = k
    BY <1>3, <1>7
  <2>2. a[k + 1] = 10 * a[k] + v[k + 1] /\ b[k + 1] = 10 * b[k] + w[k + 1]
    BY <1>4, <2>1
  <2>3. /\ a[k] \in Nat /\ b[k] \in Nat /\ v[k + 1] \in Nat /\ w[k + 1] \in Nat
        /\ v[k + 1] <= 9
    BY <1>4, <1>5, <2>1
  <2>4. CASE k + 1 < m
    <3>1. v[k + 1] = w[k + 1] /\ a[k] = b[k]
      BY <1>3, <1>7, <2>1, <2>4 DEF L
    <3> QED
      BY <2>1, <2>2, <2>4, <3>1
  <2>5. CASE k + 1 = m
    <3>1. v[k + 1] < w[k + 1] /\ a[k] = b[k]
      BY <1>3, <1>7, <2>5
    <3>2. a[k + 1] < b[k + 1]
      BY <2>2, <2>3, <3>1
    <3> QED
      BY <2>1, <2>5, <3>2
  <2>6. CASE k + 1 > m
    <3>1. a[k] < b[k]
      BY <1>3, <1>7, <2>6
    <3>2. a[k + 1] < b[k + 1]
      BY <2>2, <2>3, <3>1, TenTimes
    <3> QED
      BY <2>1, <2>6, <3>2
  <2> QED
    BY <1>3, <2>4, <2>5, <2>6
<1> HIDE DEF S
<1>8. L \in S
  <2>1. \A k \in 0 .. L : k \in S
    BY <1>3, <1>6, <1>7, Upwards
  <2>2. L \in 0 .. L
    BY <1>3
  <2> QED
    BY <2>1, <2>2
<1> QED
  BY <1>1, <1>2, <1>3, <1>8 DEF S, L

\* The longer of two numerals writes the greater number.
LEMMA LongerIsGreater ==
  ASSUME NEW v \in Seq(Nat), NEW w \in Seq(Nat), IsNumeral(v), IsNumeral(w), Len(v) < Len(w)
  PROVE  Number(v) < Number(w)
<1>1. PICK a : Leading(a, v) /\ Number(v) = a[Len(v)]
  BY NumberOf
<1>2. PICK b : Leading(b, w) /\ Number(w) = b[Len(w)]
  BY NumberOf
<1> DEFINE L == Len(v)
           M == Len(w)
           c == M - L
           S == {k \in 0 .. M : k = 0 \/ b[k] >= 1}
           T == {k \in 0 .. L : a[k] < b[k + c]}
<1>3. L \in Nat /\ M \in Nat /\ L >= 1 /\ L < M /\ c \in Nat /\ c >= 1 /\ L + c = M
  BY LenProperties DEF IsNumeral
<1>4. /\ a \in [0 .. L -> Nat] /\ a[0] = 0 /\ \A k \in 1 .. L : a[k] = 10 * a[k - 1] + v[k]
      /\ b \in [0 .. M -> Nat] /\ b[0] = 0 /\ \A k \in 1 .. M : b[k] = 10 * b[k - 1] + w[k]
  BY <1>1, <1>2, <1>3 DEF Leading
<1>5. /\ \A k \in 1 .. L : v[k] \in Nat /\ v[k] <= 9
      /\ \A k \in 1 .. M : w[k] \in Nat
      /\ w[1] # 0
  BY <1>3, ElementOfSeq DEF IsNumeral
<1> HIDE DEF L, M, c
<1>6. 0 \in S
  BY <1>3
<1>7. ASSUME NEW k \in 0 .. M, k # M, k \in S PROVE k + 1 \in S
  <2>1. k + 1 \in 1 .. M /\ k + 1 \in 0 .. M /\ (k + 1) - 1 = k
    BY <1>3, <1>7
  <2>2. b[k + 1] = 10 * b[k] + w[k + 1] /\ b[k] \in Nat /\ w[k + 1] \in Nat
    BY <1>4, <1>5, <2>1
  <2>3. b[k + 1] >= 1
    <3>1. CASE k = 0
      BY <1>5, <2>2, <3>1
    <3>2. CASE k # 0
      BY <1>7, <2>2, <3>2
    <3> QED
      BY <3>1, <3>2
  <2> QED
    BY <2>1, <2>3
<1> HIDE DEF S
<1>8. c \in S
  <2>1. \A k \in 0 .. M : k \in S
    BY <1>3, <1>6, <1>7, Upwards
  <2>2. c \in 0 .. M
    BY <1>3
  <2> QED
    BY <2>1, <2>2
<1>9. 0 \in T
  BY <1>3, <1>4, <1>8 DEF S
<1>10. ASSUME NEW k \in 0 .. L, k # L, k \in T PROVE k + 1 \in T
  <2>1. /\ k + 1 \in 1 .. L /\ k + 1 \in 0 .. L /\ (k + 1) - 1 = k
        /\ k + c \in 0 .. M /\ k + c + 1 \in 1 .. M /\ (k + c + 1) - 1 = k + c
        /\ (k + 1) + c = k + c + 1
    BY <1>3, <1>10
  <2>2. a[k + 1] = 10 * a[k] + v[k + 1] /\ b[k + c + 1] = 10 * b[k + c] + w[k + c + 1]
    BY <1>4, <2>1
  <2>3. /\ a[k] \in Nat /\ b[k + c] \in Nat /\ v[k + 1] \in Nat /\ w[k + c + 1] \in Nat
        /\ v[k + 1] <= 9 /\ a[k] < b[k + c]
    BY <1>4, <1>5, <1>10, <2>1
  <2>4. a[k + 1] < b[k + c + 1]
    BY <2>2, <2>3, TenTimes
  <2> QED
    BY <2>1, <2>4
<1> HIDE DEF T
<1>11. L \in T
  <2>1. \A k \in 0 .. L : k \in T
    BY <1>3, <1>9, <1>10, Upwards
  <2>2. L \in 0 .. L
    BY <1>3
  <2> QED
    BY <2>1, <2>2
<1> QED
  BY <1>1, <1>2, <1>3, <1>11 DEF T, L, M

\* compare_digits compares numbers.
LEMMA DigitsCompared ==
  ASSUME NEW v \in Seq(Nat), NEW w \in Seq(Nat), IsNumeral(v), IsNumeral(w)
  PROVE  /\ Number(v) \in Nat /\ Number(w) \in Nat
         /\ compare_digits(v, w) = IF Number(v) < Number(w) THEN -1
                                   ELSE IF Number(v) > Number(w) THEN 1 ELSE 0
<1>1. Number(v) \in Nat /\ Number(w) \in Nat
  <2>1. ASSUME NEW d \in Seq(Nat) PROVE Number(d) \in Nat
    <3>1. PICK n : Leading(n, d) /\ Number(d) = n[Len(d)]
      BY NumberOf
    <3>2. Len(d) \in 0 .. Len(d)
      BY LenProperties
    <3> QED
      BY <3>1, <3>2 DEF Leading
  <2> QED
    BY <2>1
<1> DEFINE L == Len(v)
           M == Len(w)
           differ == {k \in 1 .. Min({Len(v), Len(w)}) : v[k] # w[k]}
           m == Min(differ)
<1>2. L \in Nat /\ M \in Nat
  BY LenProperties
<1>3. CASE L < M
  <2>1. compare_digits(v, w) = -1
    BY <1>3 DEF compare_digits
  <2> QED
    BY <1>1, <1>3, <2>1, LongerIsGreater
<1>4. CASE L > M
  <2>1. compare_digits(v, w) = 1
    BY <1>2, <1>4 DEF compare_digits
  <2>2. Number(w) < Number(v)
    BY <1>2, <1>4, LongerIsGreater
  <2> QED
    BY <1>1, <2>1, <2>2
<1>5. CASE L = M
  <2>1. Min({Len(v), Len(w)}) = L
    <3>1. Min({L}) \in {L}
      BY <1>2, MinOf
    <3> QED
      BY <1>5, <3>1
  <2>2. compare_digits(v, w) = IF differ = {} THEN 0 ELSE IF v[m] < w[m] THEN -1 ELSE 1
    BY <1>2, <1>5 DEF compare_digits
  <2>3. differ = {k \in 1 .. L : v[k] # w[k]}
    BY <2>1
  <2>4. \A k \in 1 .. L : v[k] \in Nat /\ w[k] \in Nat
    BY <1>5, ElementOfSeq
  <2> HIDE DEF differ, L, M
  <2>5. CASE differ = {}
    <3>1. Number(v) = Number(w)
      BY <1>5, <2>3, <2>5, SameDigits DEF L, M
    <3> QED
      BY <1>1, <2>2, <2>5, <3>1
  <2>6. CASE differ # {}
    <3>1. m \in 1 .. L /\ v[m] # w[m] /\ \A k \in differ : m <= k
      <4>1. differ \subseteq Nat
        BY <2>3
      <4>2. m \in differ /\ \A k \in differ : m <= k
        BY <2>6, <4>1, MinOf
      <4> QED
        BY <2>3, <4>2
    <3> HIDE DEF m
    <3>2. \A k \in 1 .. L : k < m => v[k] = w[k]
      BY <1>2, <2>3, <3>1
    <3>3. v[m] \in Nat /\ w[m] \in Nat
      BY <2>4, <3>1
    <3>4. CASE v[m] < w[m]
      <4>1. Number(v) < Number(w)
        BY <1>5, <3>1, <3>2, <3>4, FirstDigit DEF L, M
      <4> QED
        BY <1>1, <2>2, <2>6, <3>4, <4>1
    <3>5. CASE w[m] < v[m]
      <4>1. \A k \in 1 .. Len(w) : k < m => w[k] = v[k]
        BY <1>5, <3>2 DEF L, M
      <4>2. Number(w) < Number(v)
        BY <1>5, <3>1, <3>5, <4>1, FirstDigit DEF L, M
      <4> QED
        BY <1>1, <2>2, <2>6, <3>3, <3>5, <4>2
    <3> QED
      BY <3>1, <3>3, <3>4, <3>5
  <2> QED
    BY <2>5, <2>6
<1> QED
  BY <1>2, <1>3, <1>4, <1>5

\* compare_versions compares versions by their numbers.
LEMMA VersionsCompared ==
  ASSUME NEW v, NEW w, IsVersion(v), IsVersion(w)
  PROVE  /\ compare_versions(v, w) \in {-1, 0, 1}
         /\ compare_versions(v, w) = -1 <=> Earlier(v, w)
         /\ compare_versions(v, w) = 1 <=> Earlier(w, v)
         /\ compare_versions(v, w) = 0 <=> SameUpTo(3, v, w)
<1> DEFINE N(k) == Number(v[k])
           P(k) == Number(w[k])
           cs == [k \in 1 .. 3 |-> compare_digits(v[k], w[k])]
           S == {k \in 1 .. 3 : cs[k] # 0}
<1>1. ASSUME NEW k \in 1 .. 3
      PROVE  /\ N(k) \in Nat /\ P(k) \in Nat
             /\ cs[k] = IF N(k) < P(k) THEN -1 ELSE IF N(k) > P(k) THEN 1 ELSE 0
  <2>1. v[k] \in Seq(Nat) /\ w[k] \in Seq(Nat) /\ IsNumeral(v[k]) /\ IsNumeral(w[k])
    BY ElementOfSeq DEF IsVersion
  <2> QED
    BY <2>1, DigitsCompared
<1>2. compare_versions(v, w) = cs[Significant(cs)]
  BY DEF compare_versions
<1>3. Significant(cs) = IF \E k \in 1 .. 3 : cs[k] # 0 THEN Min(S) ELSE 3
  BY DEF Significant
<1> HIDE DEF cs
<1>4. /\ Earlier(v, w) <=> \E k \in 1 .. 3 : (\A j \in 1 .. (k - 1) : N(j) = P(j)) /\ N(k) < P(k)
      /\ Earlier(w, v) <=> \E k \in 1 .. 3 : (\A j \in 1 .. (k - 1) : P(j) = N(j)) /\ P(k) < N(k)
      /\ SameUpTo(3, v, w) <=> \A j \in 1 .. 3 : N(j) = P(j)
  BY DEF Earlier, SameUpTo
<1> HIDE DEF N, P
<1>5. CASE \A k \in 1 .. 3 : cs[k] = 0
  <2>1. compare_versions(v, w) = 0
    BY <1>2, <1>3, <1>5
  <2>2. \A k \in 1 .. 3 : N(k) = P(k) /\ N(k) \in Nat /\ P(k) \in Nat
    BY <1>1, <1>5
  <2> QED
    BY <1>4, <2>1, <2>2
<1>6. CASE \E k \in 1 .. 3 : cs[k] # 0
  <2> DEFINE m == Min(S)
  <2>1. m \in S /\ \A k \in S : m <= k
    <3>1. S \subseteq Nat /\ S # {}
      BY <1>6
    <3> QED
      BY <3>1, MinOf
  <2>2. compare_versions(v, w) = cs[m]
    BY <1>2, <1>3, <1>6
  <2>3. m \in 1 .. 3 /\ cs[m] # 0 /\ \A k \in 1 .. 3 : k < m => cs[k] = 0
    BY <2>1
  <2> HIDE DEF m, S
  <2>4. \A k \in 1 .. 3 : k < m => N(k) = P(k)
    BY <1>1, <2>3
  <2>5. N(m) \in Nat /\ P(m) \in Nat /\ cs[m] = IF N(m) < P(m) THEN -1 ELSE IF N(m) > P(m) THEN 1 ELSE 0
    BY <1>1, <2>3
  <2>6. ~ SameUpTo(3, v, w)
    BY <1>4, <2>3, <2>5
  <2>7. \A j \in 1 .. (m - 1) : N(j) = P(j)
    BY <2>3, <2>4
  <2>8. \A k \in 1 .. 3 : (\A j \in 1 .. (k - 1) : N(j) = P(j)) /\ N(k) # P(k) => k = m
    <3> SUFFICES ASSUME NEW k \in 1 .. 3, \A j \in 1 .. (k - 1) : N(j) = P(j), N(k) # P(k)
                 PROVE  k = m
      OBVIOUS
    <3>1. ~ (k < m)
      BY <2>4
    <3>2. ~ (m < k)
      <4>1. N(m) # P(m)
        BY <2>3, <2>5
      <4>2. m < k => m \in 1 .. (k - 1)
        BY <2>3
      <4> QED
        BY <4>1, <4>2
    <3> QED
      BY <2>3, <3>1, <3>2
  <2>9. Earlier(v, w) <=> N(m) < P(m)
    <3>1. ASSUME Earlier(v, w) PROVE N(m) < P(m)
      <4>1. PICK k \in 1 .. 3 : (\A j \in 1 .. (k - 1) : N(j) = P(j)) /\ N(k) < P(k)
        BY <1>4, <3>1
      <4>2. N(k) # P(k)
        BY <1>1, <4>1
      <4> QED
        BY <2>8, <4>1, <4>2
    <3> QED
      BY <1>4, <2>3, <2>7, <3>1
  <2>10. Earlier(w, v) <=> P(m) < N(m)
    <3>1. ASSUME Earlier(w, v) PROVE P(m) < N(m)
      <4>1. PICK k \in 1 .. 3 : (\A j \in 1 .. (k - 1) : P(j) = N(j)) /\ P(k) < N(k)
        BY <1>4, <3>1
      <4>2. N(k) # P(k)
        BY <1>1, <4>1
      <4> QED
        BY <2>8, <4>1, <4>2
    <3> QED
      BY <1>4, <2>3, <2>7, <3>1
  <2> QED
    BY <2>2, <2>3, <2>5, <2>6, <2>9, <2>10
<1> QED
  BY <1>5, <1>6

\* Each operator asks for what it means.
LEMMA OperatorsMean ==
  ASSUME NEW op \in Operators, NEW v, NEW w, IsVersion(v), IsVersion(w)
  PROVE  Meets(op, compare_versions(v, w)) <=> Holds(op, v, w)
<1> DEFINE c == compare_versions(v, w)
<1>1. /\ c \in {-1, 0, 1}
      /\ c = -1 <=> Earlier(v, w)
      /\ c = 1 <=> Earlier(w, v)
      /\ c = 0 <=> SameUpTo(3, v, w)
  BY VersionsCompared
<1> HIDE DEF c
<1>2. /\ (c <= 0 <=> c # 1) /\ (c >= 0 <=> c # -1) /\ (c < 0 <=> c = -1) /\ (c > 0 <=> c = 1)
  BY <1>1
<1>3. Meets(op, c) <=> Holds(op, v, w)
  <2>1. CASE op = "=="
    BY <1>1, <2>1 DEF Meets, Holds
  <2>2. CASE op = "!="
    BY <1>1, <2>2 DEF Meets, Holds
  <2>3. CASE op = "<="
    BY <1>1, <1>2, <2>3 DEF Meets, Holds
  <2>4. CASE op = ">="
    BY <1>1, <1>2, <2>4 DEF Meets, Holds
  <2>5. CASE op = "<"
    BY <1>1, <1>2, <2>5 DEF Meets, Holds
  <2>6. CASE op = ">"
    BY <1>1, <1>2, <2>6 DEF Meets, Holds
  <2> QED
    BY <2>1, <2>2, <2>3, <2>4, <2>5, <2>6 DEF Operators
<1> QED
  BY <1>3 DEF c

-----------------------------------------------------------------------------
(* The versions of files.                                                   *)

\* Items of a text.
VersionAt(t, k) == t[k].kind = "version"
FooterAt(t, k)  == t[k].kind = "footer"

\* What the loop has passed of an input, and what there is to pass in a text.
Before(in) == 1 .. (in.next - 1)
InFront(t)  == {k \in 1 .. Len(t) : ~ \E j \in 1 .. k : FooterAt(t, j)}

\* A version is the one declared first, if there is one.
FirstVersion(t, passed, v) ==
  \/ v = NULL /\ \A k \in passed : ~ VersionAt(t, k)
  \/ \E k \in passed :
       /\ VersionAt(t, k) /\ v = t[k].version
       /\ \A j \in passed : VersionAt(t, j) => k <= j

\* What constraints can be about.
About(n) == {NOTHING, PACKCC} \cup 1 .. n

\* Each entry has the version that its file declares first in what has been read of
\* it, which is all of it when the file is no input any more.
InputsFit(e) ==
  \A j \in 1 .. Len(inputs) :
    inputs[j].file = finfo[e].file =>
      FirstVersion(content[finfo[e].file], Before(inputs[j]), finfo[e].version)
IsRead(e) ==
  (\A j \in 1 .. Len(inputs) : inputs[j].file # finfo[e].file) =>
    FirstVersion(content[finfo[e].file], InFront(content[finfo[e].file]), finfo[e].version)
VersionsRead ==
  /\ \A j \in 1 .. Len(inputs) :
       /\ Before(inputs[j]) \subseteq InFront(content[inputs[j].file])
       /\ inputs[j].about \in About(Len(finfo))
  /\ \A e \in 1 .. Len(finfo) : InputsFit(e) /\ IsRead(e)

\* The files of inputs are those of entries.
LEMMA FilesKnown ==
  ASSUME RInv
  PROVE  /\ Len(inputs) \in Nat /\ Len(finfo) \in Nat
         /\ \A j \in 1 .. Len(inputs) : inputs[j] \in Inputs
         /\ \A e \in 1 .. Len(finfo) : finfo[e] \in Infos /\ finfo[e].file \in File
<1>1. inputs \in Seq(Inputs) /\ finfo \in Seq(Infos)
  BY DEF RInv, TypeOK
<1>2. /\ Len(inputs) \in Nat /\ \A j \in 1 .. Len(inputs) : inputs[j] \in Inputs
      /\ Len(finfo) \in Nat /\ \A e \in 1 .. Len(finfo) : finfo[e] \in Infos
  BY <1>1, LenProperties, ElementOfSeq
<1>3. \A x \in Infos : x.file \in File
  BY DEF Infos
<1> QED
  BY <1>2, <1>3

LEMMA TextOf ==
  ASSUME RInv, NEW f \in File
  PROVE  Len(content[f]) \in Nat /\ DOMAIN content[f] = 1 .. Len(content[f])
BY ContentsAssumption DEF RInv, TypeOK

\* The first one stays the first one, if what is new declares nothing.
LEMMA FirstStays ==
  ASSUME NEW t, NEW passed, NEW v, FirstVersion(t, passed, v), NEW more, passed \subseteq more,
         \A k \in more : k \in passed \/ ~ VersionAt(t, k)
  PROVE  FirstVersion(t, more, v)
BY DEF FirstVersion

\* The item that is read is in front of %%, if it is not %% itself.
LEMMA ItemInFront ==
  ASSUME RInv, VersionsRead, inputs # <<>>, ~ AtEnd, Item.kind # "footer"
  PROVE  /\ Input.next \in InFront(content[Input.file])
         /\ \A n : n = Input.next + 1 => 1 .. (n - 1) = Before(Input) \cup {Input.next}
<1> DEFINE f == Input.file
           n == Input.next
           L == Len(content[f])
<1>1. f \in File /\ n \in Nat /\ n >= 1 /\ Input = inputs[Len(inputs)] /\ Len(inputs) \in 1 .. Len(inputs)
  BY CurrentInput
<1>2. L \in Nat
  BY <1>1, TextOf
<1>3. n <= L /\ content[f][n].kind # "footer"
  BY <1>1, <1>2 DEF AtEnd, Item
<1>4. 1 .. (n - 1) \subseteq InFront(content[f])
  BY <1>1 DEF VersionsRead, Before
<1> HIDE DEF f, n, L
<1>5. \A k \in 1 .. n : k \in 1 .. (n - 1) \/ k = n
  BY <1>1
<1>6. \A k \in 1 .. (n - 1) : ~ FooterAt(content[f], k)
  <2> SUFFICES ASSUME NEW k \in 1 .. (n - 1) PROVE ~ FooterAt(content[f], k)
    OBVIOUS
  <2>1. k \in InFront(content[f]) /\ k \in 1 .. k
    BY <1>4
  <2> QED
    BY <2>1 DEF InFront
<1>7. n \in InFront(content[f])
  <2>1. n \in 1 .. L
    BY <1>1, <1>2, <1>3
  <2>2. \A k \in 1 .. n : ~ FooterAt(content[f], k)
    BY <1>3, <1>5, <1>6 DEF FooterAt
  <2> QED
    BY <2>1, <2>2 DEF InFront, L
<1>8. \A m : m = n + 1 => 1 .. (m - 1) = 1 .. (n - 1) \cup {n}
  BY <1>1
<1> QED
  BY <1>7, <1>8 DEF f, n, Before

\* A step of the current input that is not to a version.
LEMMA VersionsBecome ==
  ASSUME RInv, VersionsRead, inputs # <<>>, NEW in \in Inputs, NEW n, Becomes(in, n),
         in.file = Input.file, finfo' = finfo, in.about \in About(Len(finfo)),
         \/ in.next = Input.next
         \/ in.next = Input.next + 1 /\ ~ AtEnd /\ Item.kind \notin {"footer", "version"}
  PROVE  VersionsRead'
<1> DEFINE N == Len(inputs)
           f == Input.file
<1>1. inputs' = Append(Front(inputs), in) /\ content' = content
  BY DEF Becomes
<1>2. /\ Len(inputs') = N /\ inputs'[N] = in
      /\ \A j \in 1 .. N - 1 : inputs'[j] = inputs[j]
  BY <1>1, InputReplaced
<1>3. N \in Nat /\ N >= 1 /\ Input = inputs[N] /\ N \in 1 .. N
  BY CurrentInput
<1>4. \A j \in 1 .. N : j = N \/ j \in 1 .. N - 1
  BY <1>3
<1>5. /\ Before(Input) \subseteq InFront(content[f])
      /\ \A e \in 1 .. Len(finfo) : InputsFit(e) /\ IsRead(e)
  BY <1>3 DEF VersionsRead
<1>6. /\ Before(in) \subseteq InFront(content[f]) /\ Before(Input) \subseteq Before(in)
      /\ \A k \in Before(in) : k \in Before(Input) \/ ~ VersionAt(content[f], k)
  <2>1. CASE in.next = Input.next
    BY <1>5, <2>1 DEF Before
  <2>2. CASE in.next = Input.next + 1 /\ ~ AtEnd /\ Item.kind \notin {"footer", "version"}
    <3>1. Input.next \in InFront(content[f]) /\ Before(in) = Before(Input) \cup {Input.next}
      BY <2>2, ItemInFront DEF Before
    <3>2. ~ VersionAt(content[f], Input.next)
      BY <2>2 DEF VersionAt, Item
    <3> QED
      BY <1>5, <3>1, <3>2
  <2> QED
    BY <2>1, <2>2
<1> HIDE DEF N
<1>7. ASSUME NEW j \in 1 .. N
      PROVE  /\ (Before(inputs[j]) \subseteq InFront(content[inputs[j].file]))'
             /\ inputs'[j].about \in About(Len(finfo))
             /\ inputs'[j].file = inputs[j].file
  <2>1. CASE j = N
    BY <1>1, <1>2, <1>3, <1>6, <2>1 DEF Before
  <2>2. CASE j \in 1 .. N - 1
    <3>1. inputs'[j] = inputs[j] /\ Before(inputs[j]) \subseteq InFront(content[inputs[j].file])
          /\ inputs[j].about \in About(Len(finfo))
      BY <1>2, <2>2 DEF VersionsRead, N
    <3> QED
      BY <1>1, <3>1 DEF Before
  <2> QED
    BY <1>4, <2>1, <2>2
<1>8. ASSUME NEW e \in 1 .. Len(finfo)
      PROVE  InputsFit(e)' /\ IsRead(e)'
  <2>1. ASSUME NEW j \in 1 .. N, inputs[j].file = finfo[e].file
        PROVE  FirstVersion(content[finfo[e].file], Before(inputs'[j]), finfo[e].version)
    <3>1. FirstVersion(content[finfo[e].file], Before(inputs[j]), finfo[e].version)
      BY <1>5, <2>1 DEF InputsFit, N
    <3>2. CASE j = N
      <4>1. finfo[e].file = f /\ inputs'[j] = in /\ inputs[j] = Input
        BY <1>2, <1>3, <2>1, <3>2
      <4> QED
        BY <1>6, <3>1, <4>1, FirstStays
    <3>3. CASE j \in 1 .. N - 1
      BY <1>2, <3>1, <3>3
    <3> QED
      BY <1>4, <3>2, <3>3
  <2>2. InputsFit(e)'
    <3> SUFFICES ASSUME NEW j \in 1 .. N, inputs'[j].file = finfo[e].file
                 PROVE  FirstVersion(content[finfo[e].file], Before(inputs'[j]), finfo[e].version)
      BY <1>1, <1>2 DEF InputsFit
    <3> QED
      BY <1>7, <2>1
  <2>3. IsRead(e)'
    <3> SUFFICES ASSUME \A j \in 1 .. N : inputs'[j].file # finfo[e].file
                 PROVE  FirstVersion(content[finfo[e].file], InFront(content[finfo[e].file]), finfo[e].version)'
      BY <1>2 DEF IsRead
    <3>1. FirstVersion(content[finfo[e].file], InFront(content[finfo[e].file]), finfo[e].version)
      BY <1>5, <1>7 DEF IsRead, N
    <3> QED
      BY <1>1, <3>1
  <2> QED
    BY <2>2, <2>3
<1> QED
  BY <1>2, <1>7, <1>8 DEF VersionsRead

\* The item is passed.
LEMMA VersionsPass ==
  ASSUME RInv, VersionsRead, inputs # <<>>, NEW legal \in BOOLEAN, NEW n \in Nat, NEW m,
         Becomes(Passed(legal, n), m), finfo' = finfo,
         ~ AtEnd, Item.kind \notin {"footer", "version"}
  PROVE  VersionsRead'
<1> DEFINE in == Passed(legal, n)
<1>1. in \in Inputs /\ in.file = Input.file /\ in.next = Input.next + 1 /\ in.about = NOTHING
  <2>1. in \in Inputs /\ in.file = Input.file
    BY PassedInput
  <2>2. Input \in Inputs
    BY CurrentInput
  <2> QED
    BY <2>1, <2>2 DEF Passed, Inputs
<1>2. Becomes(in, m) /\ in.about \in About(Len(finfo))
  BY <1>1 DEF About
<1> HIDE DEF in
<1> QED
  BY <1>1, <1>2, VersionsBecome

\* The item is passed, and constraints are expected next.
LEMMA VersionsPassAbout ==
  ASSUME RInv, VersionsRead, inputs # <<>>, NEW a \in Int, a \in About(Len(finfo)),
         Becomes([Passed(TRUE, 0) EXCEPT !.about = a], 0), finfo' = finfo,
         ~ AtEnd, Item.kind \notin {"footer", "version"}
  PROVE  VersionsRead'
<1> DEFINE p == Passed(TRUE, 0)
           in == [p EXCEPT !.about = a]
<1>1. p \in Inputs /\ p.file = Input.file /\ p.next = Input.next + 1
  <2>1. p \in Inputs /\ p.file = Input.file
    BY PassedInput
  <2>2. Input \in Inputs
    BY CurrentInput
  <2> QED
    BY <2>1, <2>2 DEF Passed, Inputs
<1> HIDE DEF p
<1>2. in \in Inputs /\ in.file = p.file /\ in.next = p.next /\ in.about = a
  BY <1>1 DEF Inputs
<1>3. Becomes(in, 0)
  BY DEF p
<1> HIDE DEF in
<1> QED
  BY <1>1, <1>2, <1>3, VersionsBecome

\* A version is taken by the entry of its file if it is the first one there.
LEMMA VersionTaken ==
  ASSUME RInv, VersionsRead, ReadVersion
  PROVE  VersionsRead'
<1> DEFINE N == Len(inputs)
           F == Len(finfo)
           f == Input.file
           n == Input.next
           w == IF finfo[Info].version = NULL THEN Item.version ELSE finfo[Info].version
<1>1. inputs # <<>> /\ ~ AtEnd /\ Item.kind = "version"
  BY ReadsItem DEF ReadVersion
<1>2. PICK m \in {0, 1} : Becomes(Passed(TRUE, m), m)
  BY DEF ReadVersion
<1> DEFINE in == Passed(TRUE, m)
<1>3. in \in Inputs /\ in.file = f /\ in.next = n + 1 /\ in.about = NOTHING /\ Becomes(in, m)
  <2>1. m \in Nat /\ TRUE \in BOOLEAN
    OBVIOUS
  <2>2. in \in Inputs /\ in.file = f
    BY <1>1, <2>1, PassedInput
  <2>3. Input \in Inputs
    BY <1>1, CurrentInput
  <2> QED
    BY <1>2, <2>2, <2>3 DEF Passed, Inputs
<1> HIDE DEF in
<1>4. inputs' = Append(Front(inputs), in) /\ content' = content
  BY <1>3 DEF Becomes
<1>5. /\ Len(inputs') = N /\ inputs'[N] = in
      /\ \A j \in 1 .. N - 1 : inputs'[j] = inputs[j]
  BY <1>1, <1>3, <1>4, InputReplaced
<1>6. N \in Nat /\ N >= 1 /\ Input = inputs[N] /\ N \in 1 .. N /\ n \in Nat /\ n >= 1 /\ f \in File
  BY <1>1, CurrentInput
<1>7. F \in Nat /\ \A e \in 1 .. F : finfo[e] \in Infos
  BY FilesKnown
<1>8. Info \in 1 .. F /\ finfo[Info].file = f
  <2>1. DOMAIN finfo = 1 .. F
    BY LenProperties DEF RInv, TypeOK
  <2>2. \E k \in DOMAIN finfo : finfo[k].file = f
    BY <1>6, <2>1 DEF RInv, Registered
  <2> QED
    BY <2>1, <2>2 DEF Info
<1>9. \A e \in 1 .. F : finfo[e].file = f => e = Info
  BY <1>8 DEF RInv, Distinct
<1>10. /\ Len(finfo') = F /\ \A e \in 1 .. F : finfo'[e].file = finfo[e].file
       /\ finfo'[Info].version = w
       /\ \A e \in 1 .. F : e # Info => finfo'[e].version = finfo[e].version
  <2>1. CASE finfo[Info].version = NULL
    <3> DEFINE x == [finfo[Info] EXCEPT !.version = Item.version]
    <3>1. x.file = finfo[Info].file /\ x.version = Item.version /\ x \in Infos
      <4>1. Item.version \in Version
        BY <1>1, ItemRead
      <4> QED
        BY <1>7, <1>8, <4>1 DEF Infos
    <3>2. finfo' = [finfo EXCEPT ![Info] = x]
      BY <2>1 DEF ReadVersion
    <3>3. finfo \in Seq(Infos)
      BY DEF RInv, TypeOK
    <3> HIDE DEF x
    <3>4. /\ Len(finfo') = F
          /\ \A k \in 1 .. F : finfo'[k] = IF k = Info THEN x ELSE finfo[k]
      BY <1>8, <3>1, <3>2, <3>3, ExceptSeq, LenProperties
    <3> QED
      BY <1>8, <2>1, <3>1, <3>4
  <2>2. CASE finfo[Info].version # NULL
    <3>1. finfo' = finfo
      BY <2>2 DEF ReadVersion
    <3> QED
      BY <2>2, <3>1
  <2> QED
    BY <2>1, <2>2
<1>11. /\ Before(Input) \subseteq InFront(content[f])
       /\ \A e \in 1 .. F : InputsFit(e) /\ IsRead(e)
  BY <1>6 DEF VersionsRead
<1>12. /\ n \in InFront(content[f]) /\ Before(in) = Before(Input) \cup {n}
       /\ VersionAt(content[f], n) /\ Item.version = content[f][n].version
  BY <1>1, <1>3, ItemInFront DEF Before, VersionAt, Item
<1>13. FirstVersion(content[f], Before(in), w)
  <2>1. FirstVersion(content[f], Before(Input), finfo[Info].version)
    BY <1>6, <1>8, <1>11 DEF InputsFit
  <2>2. \A k \in Before(Input) : k <= n
    BY <1>6 DEF Before
  <2>3. Item.version # NULL
    <3>1. IsVersion(Item.version)
      <4>1. content \in Contents /\ f \in File /\ n \in 1 .. Len(content[f])
        BY <1>6, <1>12 DEF RInv, TypeOK, InFront
      <4> QED
        BY <1>1, <4>1, ContentsAssumption DEF Item
    <3> QED
      BY <3>1 DEF IsVersion, NULL
  <2> DEFINE v == finfo[Info].version
  <2>4. CASE v = NULL
    <3>1. \A k \in Before(Input) : ~ VersionAt(content[f], k)
      <4> SUFFICES ASSUME NEW k \in Before(Input), VersionAt(content[f], k) PROVE FALSE
        OBVIOUS
      <4>1. PICK j \in Before(Input) : VersionAt(content[f], j) /\ v = content[f][j].version
        BY <2>1 DEF FirstVersion
      <4>2. j \in 1 .. Len(content[f]) /\ content \in Contents
        BY <1>11, <4>1 DEF InFront, RInv, TypeOK
      <4>3. IsVersion(content[f][j].version)
        BY <1>6, <4>1, <4>2, ContentsAssumption DEF VersionAt
      <4> QED
        BY <2>4, <4>1, <4>3 DEF IsVersion, NULL
    <3>2. \A j \in Before(in) : VersionAt(content[f], j) => n <= j
      BY <1>6, <1>12, <3>1
    <3>3. n \in Before(in) /\ w = content[f][n].version
      BY <1>12, <2>4
    <3> QED
      BY <1>12, <3>2, <3>3 DEF FirstVersion
  <2>5. CASE v # NULL
    <3>1. PICK k \in Before(Input) :
            /\ VersionAt(content[f], k) /\ v = content[f][k].version
            /\ \A j \in Before(Input) : VersionAt(content[f], j) => k <= j
      BY <2>1, <2>5 DEF FirstVersion
    <3>2. k \in Before(in) /\ w = content[f][k].version
      BY <1>12, <2>5, <3>1
    <3>3. \A j \in Before(in) : VersionAt(content[f], j) => k <= j
      BY <1>12, <2>2, <3>1
    <3> QED
      BY <3>1, <3>2, <3>3 DEF FirstVersion
  <2> QED
    BY <2>4, <2>5
<1>14. \A j \in 1 .. N : j = N \/ j \in 1 .. N - 1
  BY <1>6
<1>15. \A j \in 1 .. N - 1 : j \in 1 .. N /\ inputs[j].file # f
  <2> SUFFICES ASSUME NEW j \in 1 .. N - 1 PROVE j \in 1 .. N /\ inputs[j].file # f
    OBVIOUS
  <2>1. j \in 1 .. N /\ j # N
    BY <1>6
  <2> QED
    BY <1>6, <2>1 DEF RInv, Distinct
<1> HIDE DEF N, F, w
<1>16. ASSUME NEW j \in 1 .. N
       PROVE  /\ Before(inputs'[j]) \subseteq InFront(content[inputs'[j].file])
              /\ inputs'[j].about \in About(F)
              /\ inputs'[j].file = inputs[j].file
  <2>1. CASE j = N
    BY <1>3, <1>5, <1>6, <1>11, <1>12, <2>1 DEF About
  <2>2. CASE j \in 1 .. N - 1
    BY <1>5, <2>2 DEF VersionsRead, N, F
  <2> QED
    BY <1>14, <2>1, <2>2
<1>17. ASSUME NEW e \in 1 .. F
       PROVE  InputsFit(e)' /\ IsRead(e)'
  <2>1. InputsFit(e)'
    <3> SUFFICES ASSUME NEW j \in 1 .. N, inputs'[j].file = finfo[e].file
                 PROVE  FirstVersion(content[finfo[e].file], Before(inputs'[j]), finfo'[e].version)
      BY <1>4, <1>5, <1>10 DEF InputsFit, N
    <3>1. CASE j = N
      <4>1. finfo[e].file = f /\ e = Info
        BY <1>3, <1>5, <1>9, <3>1 DEF F
      <4> QED
        BY <1>5, <1>10, <1>13, <3>1, <4>1
    <3>2. CASE j \in 1 .. N - 1
      <4>1. inputs'[j] = inputs[j] /\ j \in 1 .. N /\ finfo[e].file # f
        BY <1>5, <1>15, <3>2
      <4>2. finfo'[e].version = finfo[e].version
        BY <1>8, <1>10, <4>1
      <4> QED
        BY <1>11, <4>1, <4>2 DEF InputsFit, N, F
    <3> QED
      BY <1>14, <3>1, <3>2
  <2>2. IsRead(e)'
    <3> SUFFICES ASSUME \A j \in 1 .. N : inputs'[j].file # finfo[e].file
                 PROVE  FirstVersion(content[finfo[e].file], InFront(content[finfo[e].file]), finfo'[e].version)
      BY <1>4, <1>5, <1>10 DEF IsRead, N
    <3>1. \A j \in 1 .. N : inputs[j].file # finfo[e].file
      BY <1>16
    <3>2. finfo'[e].version = finfo[e].version
      <4>1. finfo[e].file # f
        BY <1>6, <3>1 DEF N
      <4> QED
        BY <1>8, <1>10, <4>1
    <3> QED
      BY <1>11, <3>1, <3>2 DEF IsRead, N, F
  <2> QED
    BY <2>1, <2>2
<1> QED
  BY <1>4, <1>5, <1>10, <1>16, <1>17 DEF VersionsRead, N, F

\* The entry of an imported file has no version yet.
LEMMA VersionsImport ==
  ASSUME RInv, VersionsRead, Import
  PROVE  VersionsRead'
<1> DEFINE N == Len(inputs)
           F == Len(finfo)
           f == Input.file
           g == Located(Item.path)
           p == Passed(TRUE, 0)
           a == [p EXCEPT !.about = New]
           b == Create(g)
           x == [file |-> g, version |-> NULL]
<1>1. inputs # <<>> /\ ~ AtEnd /\ Item.kind = "import" /\ g \in File /\ Known(g) = {}
  BY ReadsItem DEF Import
<1>2. inputs' = Front(inputs) \o <<a, b>> /\ finfo' = Append(finfo, x) /\ content' = content
  BY DEF Import
<1>3. p \in Inputs /\ p.file = f /\ p.next = Input.next + 1
  <2>1. p \in Inputs /\ p.file = f
    BY <1>1, PassedInput
  <2>2. Input \in Inputs
    BY <1>1, CurrentInput
  <2> QED
    BY <2>1, <2>2 DEF Passed, Inputs
<1>4. New \in Int /\ New = F + 1 /\ F \in Nat /\ finfo \in Seq(Infos)
  BY LenProperties DEF New, RInv, TypeOK
<1> HIDE DEF p
<1>5. a \in Inputs /\ a.file = f /\ a.next = Input.next + 1 /\ a.about = F + 1
  BY <1>3, <1>4 DEF Inputs
<1>6. b \in Inputs /\ b.file = g /\ b.next = 1 /\ b.about = NOTHING
  BY <1>1 DEF Create, Inputs, NOTHING
<1>7. x \in Infos /\ x.file = g /\ x.version = NULL
  BY <1>1 DEF Infos, NULL, Version
<1> HIDE DEF g, a, b, x
<1>8. /\ Len(inputs') = N + 1 /\ inputs'[N] = a /\ inputs'[N + 1] = b
      /\ \A j \in 1 .. N - 1 : inputs'[j] = inputs[j]
  BY <1>1, <1>2, <1>5, <1>6, InputPushed
<1>9. /\ Len(finfo') = F + 1 /\ finfo'[F + 1] = x
      /\ \A e \in 1 .. F : finfo'[e] = finfo[e]
  BY <1>2, <1>4, <1>7, AppendProperties
<1>10. N \in Nat /\ N >= 1 /\ Input = inputs[N] /\ N \in 1 .. N
  BY <1>1, CurrentInput
<1>11. \A e \in 1 .. F : finfo[e].file # g
  <2>1. DOMAIN finfo = 1 .. F
    BY <1>4, LenProperties
  <2> QED
    BY <1>1, <2>1 DEF Known
<1>12. \A j \in 1 .. N : inputs[j].file # g
  BY <1>11 DEF RInv, Registered
<1>13. /\ Before(Input) \subseteq InFront(content[f])
       /\ \A e \in 1 .. F : InputsFit(e) /\ IsRead(e)
  BY <1>10 DEF VersionsRead
<1>14. /\ Before(a) \subseteq InFront(content[f]) /\ Before(Input) \subseteq Before(a)
       /\ \A k \in Before(a) : k \in Before(Input) \/ ~ VersionAt(content[f], k)
  <2>1. Input.next \in InFront(content[f]) /\ Before(a) = Before(Input) \cup {Input.next}
    BY <1>1, <1>5, ItemInFront DEF Before
  <2>2. ~ VersionAt(content[f], Input.next)
    BY <1>1 DEF VersionAt, Item
  <2> QED
    BY <1>13, <2>1, <2>2
<1>15. Before(b) = {}
  BY <1>6 DEF Before
<1>16. /\ \A j \in 1 .. N + 1 : j = N + 1 \/ j = N \/ j \in 1 .. N - 1
       /\ \A j \in 1 .. N - 1 : j \in 1 .. N
       /\ \A e \in 1 .. F + 1 : e = F + 1 \/ e \in 1 .. F
       /\ \A c : c \in About(F) => c \in About(F + 1)
       /\ F + 1 \in About(F + 1) /\ NOTHING \in About(F + 1)
  BY <1>4, <1>10 DEF About
<1> HIDE DEF N, F
<1>17. ASSUME NEW j \in 1 .. N + 1
       PROVE  /\ Before(inputs'[j]) \subseteq InFront(content[inputs'[j].file])
              /\ inputs'[j].about \in About(F + 1)
  <2>1. CASE j = N + 1
    BY <1>6, <1>8, <1>15, <1>16, <2>1
  <2>2. CASE j = N
    BY <1>5, <1>8, <1>14, <1>16, <2>2
  <2>3. CASE j \in 1 .. N - 1
    <3>1. inputs'[j] = inputs[j] /\ j \in 1 .. N
      BY <1>8, <1>16, <2>3
    <3>2. Before(inputs[j]) \subseteq InFront(content[inputs[j].file]) /\ inputs[j].about \in About(F)
      BY <3>1 DEF VersionsRead, N, F
    <3> QED
      BY <1>16, <3>1, <3>2
  <2> QED
    BY <1>16, <2>1, <2>2, <2>3
<1>18. ASSUME NEW e \in 1 .. F + 1
       PROVE  InputsFit(e)' /\ IsRead(e)'
  <2>1. CASE e = F + 1
    <3>1. finfo'[e].file = g /\ finfo'[e].version = NULL
      BY <1>7, <1>9, <2>1
    <3>2. ASSUME NEW j \in 1 .. N + 1, inputs'[j].file = g PROVE j = N + 1
      <4>1. j # N
        <5>1. inputs'[N].file = inputs[N].file
          BY <1>5, <1>8, <1>10
        <5> QED
          BY <1>10, <1>12, <3>2, <5>1
      <4>2. ~ (j \in 1 .. N - 1)
        BY <1>8, <1>12, <1>16, <3>2
      <4> QED
        BY <1>16, <4>1, <4>2
    <3>3. InputsFit(e)'
      <4> SUFFICES ASSUME NEW j \in 1 .. N + 1, inputs'[j].file = g
                   PROVE  FirstVersion(content[g], Before(inputs'[j]), NULL)
        BY <1>2, <1>8, <3>1 DEF InputsFit, N
      <4>1. Before(inputs'[j]) = {}
        BY <1>8, <1>15, <3>2
      <4> QED
        BY <4>1 DEF FirstVersion
    <3>4. IsRead(e)'
      <4>1. N + 1 \in 1 .. N + 1 /\ inputs'[N + 1].file = g
        BY <1>6, <1>8, <1>10
      <4> QED
        BY <1>8, <3>1, <4>1 DEF IsRead, N
    <3> QED
      BY <3>3, <3>4
  <2>2. CASE e \in 1 .. F
    <3>1. finfo'[e] = finfo[e] /\ finfo[e].file # g
      BY <1>9, <1>11, <2>2 DEF F
    <3>2. InputsFit(e) /\ IsRead(e)
      BY <1>13, <2>2 DEF F
    <3>3. InputsFit(e)'
      <4> SUFFICES ASSUME NEW j \in 1 .. N + 1, inputs'[j].file = finfo[e].file
                   PROVE  FirstVersion(content[finfo[e].file], Before(inputs'[j]), finfo[e].version)
        BY <1>2, <1>8, <3>1 DEF InputsFit, N
      <4>1. j # N + 1
        BY <1>6, <1>8, <3>1
      <4>2. CASE j = N
        <5>1. finfo[e].file = f /\ inputs'[j] = a /\ f = inputs[N].file
          BY <1>5, <1>8, <1>10, <4>2
        <5>2. FirstVersion(content[f], Before(Input), finfo[e].version)
          BY <1>10, <3>2, <5>1 DEF InputsFit, N
        <5> QED
          BY <1>14, <5>1, <5>2, FirstStays
      <4>3. CASE j \in 1 .. N - 1
        <5>1. inputs'[j] = inputs[j] /\ j \in 1 .. N
          BY <1>8, <1>16, <4>3
        <5> QED
          BY <3>2, <5>1 DEF InputsFit, N
      <4> QED
        BY <1>16, <4>1, <4>2, <4>3
    <3>4. IsRead(e)'
      <4> SUFFICES ASSUME \A j \in 1 .. N + 1 : inputs'[j].file # finfo[e].file
                   PROVE  FirstVersion(content[finfo[e].file], InFront(content[finfo[e].file]), finfo[e].version)
        BY <1>2, <1>8, <3>1 DEF IsRead, N
      <4>1. ASSUME NEW j \in 1 .. N PROVE inputs[j].file # finfo[e].file
        <5>1. j \in 1 .. N + 1 /\ (j = N \/ j \in 1 .. N - 1)
          BY <1>10 DEF N
        <5>2. inputs'[j].file = inputs[j].file
          BY <1>5, <1>8, <1>10, <5>1
        <5> QED
          BY <5>1, <5>2
      <4> QED
        BY <3>2, <4>1 DEF IsRead, N
    <3> QED
      BY <3>3, <3>4
  <2> QED
    BY <1>16, <2>1, <2>2
<1> QED
  BY <1>2, <1>8, <1>9, <1>17, <1>18 DEF VersionsRead, N, F

\* A file that ends has been read up to %%.
LEMMA VersionsEnd ==
  ASSUME RInv, VersionsRead, EndFile
  PROVE  VersionsRead'
<1> DEFINE N == Len(inputs)
           F == Len(finfo)
           f == Input.file
           n == Input.next
           L == Len(content[f])
<1>1. inputs # <<>> /\ (AtEnd \/ Comes("footer"))
      /\ inputs' = Front(inputs) /\ content' = content /\ finfo' = finfo
  BY DEF EndFile
<1>2. inputs \in Seq(Inputs)
  BY DEF RInv, TypeOK
<1>3. Len(inputs') = N - 1 /\ \A j \in 1 .. N - 1 : inputs'[j] = inputs[j]
  BY <1>1, <1>2, FrontOf
<1>4. N \in Nat /\ N >= 1 /\ Input = inputs[N] /\ N \in 1 .. N /\ n \in Nat /\ n >= 1 /\ f \in File
  BY <1>1, CurrentInput
<1>5. /\ Before(Input) \subseteq InFront(content[f])
      /\ \A e \in 1 .. F : InputsFit(e) /\ IsRead(e)
  BY <1>4 DEF VersionsRead
<1>6. L \in Nat
  BY <1>4, TextOf
<1>7. \A j \in 1 .. N : j = N \/ j \in 1 .. N - 1
  BY <1>4
<1>8. \A j \in 1 .. N - 1 : j \in 1 .. N
  BY <1>4
<1>9. Before(Input) = InFront(content[f])
  <2>1. n > L \/ FooterAt(content[f], n)
    BY <1>1 DEF AtEnd, Comes, Item, FooterAt
  <2> SUFFICES ASSUME NEW k \in InFront(content[f]) PROVE k \in 1 .. (n - 1)
    BY <1>5 DEF Before
  <2>2. k \in 1 .. L /\ ~ \E j \in 1 .. k : FooterAt(content[f], j)
    BY DEF InFront
  <2> HIDE DEF n, L
  <2>3. ~ (n <= k)
    <3>1. CASE n > L
      BY <1>4, <1>6, <2>2, <3>1
    <3>2. CASE FooterAt(content[f], n)
      <4>1. n <= k => n \in 1 .. k
        BY <1>4, <2>2
      <4> QED
        BY <2>2, <3>2, <4>1
    <3> QED
      BY <2>1, <3>1, <3>2
  <2> QED
    BY <1>4, <1>6, <2>2, <2>3
<1> HIDE DEF N, F
<1>10. ASSUME NEW e \in 1 .. F
       PROVE  InputsFit(e)' /\ IsRead(e)'
  <2>1. InputsFit(e) /\ IsRead(e)
    BY <1>5 DEF F
  <2>2. InputsFit(e)'
    <3> SUFFICES ASSUME NEW j \in 1 .. N - 1, inputs'[j].file = finfo[e].file
                 PROVE  FirstVersion(content[finfo[e].file], Before(inputs'[j]), finfo[e].version)
      BY <1>1, <1>3 DEF InputsFit, N
    <3> QED
      BY <1>3, <1>8, <2>1 DEF InputsFit, N
  <2>3. IsRead(e)'
    <3> SUFFICES ASSUME \A j \in 1 .. N - 1 : inputs'[j].file # finfo[e].file
                 PROVE  FirstVersion(content[finfo[e].file], InFront(content[finfo[e].file]), finfo[e].version)
      BY <1>1, <1>3 DEF IsRead, N
    <3>1. CASE finfo[e].file = f
      <4>1. FirstVersion(content[f], Before(Input), finfo[e].version)
        BY <1>4, <2>1, <3>1 DEF InputsFit, N
      <4> QED
        BY <1>9, <3>1, <4>1
    <3>2. CASE finfo[e].file # f
      <4>1. \A j \in 1 .. N : inputs[j].file # finfo[e].file
        BY <1>3, <1>4, <1>7, <3>2 DEF N
      <4> QED
        BY <2>1, <4>1 DEF IsRead, N
    <3> QED
      BY <3>1, <3>2
  <2> QED
    BY <2>2, <2>3
<1>11. ASSUME NEW j \in 1 .. N - 1
       PROVE  /\ Before(inputs'[j]) \subseteq InFront(content[inputs'[j].file])
              /\ inputs'[j].about \in About(F)
  BY <1>3, <1>8 DEF VersionsRead, N, F
<1> QED
  BY <1>1, <1>3, <1>10, <1>11 DEF VersionsRead, N, F

LEMMA InitVersions ==
  ASSUME Init
  PROVE  VersionsRead
<1> DEFINE b == Create(Root)
           x == [file |-> Root, version |-> NULL]
<1>1. inputs = <<b>> /\ finfo = <<x>>
  BY DEF Init
<1>2. b.next = 1 /\ b.file = Root /\ b.about = NOTHING /\ x.file = Root /\ x.version = NULL
  BY DEF Create
<1> HIDE DEF b, x
<1>3. /\ Len(inputs) = 1 /\ inputs[1] = b /\ Len(finfo) = 1 /\ finfo[1] = x
      /\ \A k \in 1 .. 1 : k = 1
  BY <1>1
<1>4. Before(b) = {}
  BY <1>2 DEF Before
<1>5. InputsFit(1) /\ IsRead(1)
  <2>1. FirstVersion(content[Root], {}, NULL)
    BY DEF FirstVersion
  <2>2. InputsFit(1)
    BY <1>2, <1>3, <1>4, <2>1 DEF InputsFit
  <2>3. IsRead(1)
    BY <1>2, <1>3 DEF IsRead
  <2> QED
    BY <2>2, <2>3
<1>6. ASSUME NEW k \in 1 .. 1 PROVE k = 1
  BY <1>3
<1> QED
  BY <1>2, <1>3, <1>4, <1>5 DEF VersionsRead, About

\* Every step keeps it.
LEMMA NextVersions ==
  ASSUME RInv, VersionsRead, [Next]_vars
  PROVE  VersionsRead'
<1>1. CASE UNCHANGED vars
  <2>1. content' = content /\ inputs' = inputs /\ finfo' = finfo
    BY <1>1 DEF vars
  <2> QED
    BY <2>1 DEF VersionsRead, InputsFit, IsRead
<1> TRUE \in BOOLEAN /\ FALSE \in BOOLEAN /\ 0 \in Nat /\ 1 \in Nat /\ PACKCC \in Int
  BY DEF PACKCC
<1>2. CASE ReadRule
  <2>1. Reads("rule") /\ Becomes(Passed(TRUE, Item.faults), Item.faults) /\ finfo' = finfo
    BY <1>2 DEF ReadRule
  <2>2. inputs # <<>> /\ ~ AtEnd /\ Item.kind = "rule" /\ Item.faults \in Nat
    BY <2>1, ReadsItem, ItemRead
  <2> QED
    BY <2>1, <2>2, VersionsPass
<1>3. CASE ReadIllegal
  <2>1. /\ inputs # <<>> /\ ~ AtEnd /\ Item.kind \in {"illegal", "constraints"}
        /\ finfo' = finfo
    BY <1>3, ReadsItem DEF ReadIllegal
  <2>2. PICK n \in Nat : Becomes(Passed(FALSE, n), n)
    BY <1>3 DEF ReadIllegal
  <2> QED
    BY <2>1, <2>2, VersionsPass
<1>4. CASE ReadUnknown \/ ReadMarker \/ ImportFails \/ ReadSetting
  <2>1. /\ inputs # <<>> /\ ~ AtEnd /\ Item.kind \in {"unknown", "marker", "import", "setting"}
        /\ finfo' = finfo
    BY <1>4, ReadsItem DEF ReadUnknown, ReadMarker, ImportFails, ReadSetting
  <2>2. Becomes(Passed(TRUE, 0), 0) \/ Becomes(Passed(TRUE, 1), 1)
    BY <1>4 DEF ReadUnknown, ReadMarker, ImportFails, ReadSetting
  <2> QED
    BY <2>1, <2>2, VersionsPass
<1>5. CASE ReadVersion
  BY <1>5, VersionTaken
<1>6. CASE ReadRequires
  <2>1. /\ inputs # <<>> /\ ~ AtEnd /\ Item.kind = "requires" /\ finfo' = finfo
        /\ PACKCC \in About(Len(finfo))
    BY <1>6, ReadsItem DEF ReadRequires, About
  <2>2. \/ Becomes([Passed(TRUE, 0) EXCEPT !.about = PACKCC], 0)
        \/ Becomes(Passed(TRUE, 1), 1)
    BY <1>6 DEF ReadRequires
  <2> QED
    BY <2>1, <2>2, VersionsPass, VersionsPassAbout
<1>7. CASE ImportAgain
  <2> DEFINE a == Min(Known(Located(Item.path)))
  <2>1. /\ inputs # <<>> /\ ~ AtEnd /\ Item.kind = "import" /\ finfo' = finfo
        /\ Known(Located(Item.path)) # {}
    BY <1>7, ReadsItem DEF ImportAgain
  <2>2. Len(finfo) \in Nat /\ a \in 1 .. Len(finfo)
    BY <2>1, KnownEntry, LenProperties DEF RInv, TypeOK
  <2>3. a \in Int /\ a \in About(Len(finfo)) /\ Becomes([Passed(TRUE, 0) EXCEPT !.about = a], 0)
    BY <1>7, <2>2 DEF ImportAgain, About
  <2> HIDE DEF a
  <2> QED
    BY <2>1, <2>3, VersionsPassAbout
<1>8. CASE Import
  BY <1>8, VersionsImport
<1>9. CASE CheckVersion
  <2>1. /\ inputs # <<>> /\ ~ AtEnd /\ Item.kind = "constraints" /\ finfo' = finfo
    BY <1>9 DEF CheckVersion, Comes
  <2>2. PICK rest \in Behind : Becomes(Passed(TRUE, Violated(rest)), Violated(rest))
    BY <1>9 DEF CheckVersion
  <2>3. Violated(rest) \in Nat
    BY <2>1, ItemRead DEF Violated
  <2> QED
    BY <2>1, <2>2, <2>3, VersionsPass
<1>10. CASE NoConstraints
  <2> DEFINE n == IF Input.about = PACKCC THEN 1 ELSE 0
             q == Input
             in == [q EXCEPT !.about = NOTHING, !.errnum = @ + n]
  <2>1. inputs # <<>> /\ finfo' = finfo /\ Becomes(in, n)
    BY <1>10 DEF NoConstraints
  <2>2. q \in Inputs /\ n \in Nat
    BY <2>1, CurrentInput
  <2> HIDE DEF q, n
  <2>3. in = [file |-> q.file, next |-> q.next, legal |-> q.legal,
              errnum |-> q.errnum + n, about |-> 0]
    <3>1. in = [q EXCEPT !.about = 0, !.errnum = @ + n]
      BY DEF NOTHING
    <3> HIDE DEF in
    <3> QED
      BY <2>2, <3>1 DEF Inputs
  <2> HIDE DEF in
  <2>4. in \in Inputs /\ in.file = q.file /\ in.next = q.next /\ in.about \in About(Len(finfo))
    BY <2>2, <2>3 DEF Inputs, About, NOTHING
  <2> QED
    BY <2>1, <2>4, VersionsBecome DEF q
<1>11. CASE EndFile
  BY <1>11, VersionsEnd
<1>12. CASE Done
  BY <1>1, <1>12 DEF Done
<1> QED
  BY <1>1, <1>2, <1>3, <1>4, <1>5, <1>6, <1>7, <1>8, <1>9, <1>10, <1>11, <1>12 DEF Next

\* The declared version is the one that the entry has, once the file has been read.
LEMMA EntryDeclares ==
  ASSUME RInv, VersionsRead, NEW e \in 1 .. Len(finfo),
         \A j \in 1 .. Len(inputs) : inputs[j].file # finfo[e].file
  PROVE  /\ IsVersion(DeclaredBy(finfo[e].file))
         /\ DeclaredBy(finfo[e].file) =
              IF finfo[e].version = NULL THEN IMPLICIT_VERSION ELSE finfo[e].version
<1> DEFINE x == finfo[e].file
           t == content[x]
           v == finfo[e].version
           at == {k \in DOMAIN t : t[k].kind = "version" /\ \A j \in 1 .. k : t[j].kind # "footer"}
<1>1. x \in File /\ content \in Contents
  BY FilesKnown DEF RInv, TypeOK
<1>2. Len(t) \in Nat /\ DOMAIN t = 1 .. Len(t)
  BY <1>1, TextOf
<1>3. FirstVersion(t, InFront(t), v)
  BY DEF VersionsRead, IsRead
<1>4. DeclaredBy(x) = IF at = {} THEN IMPLICIT_VERSION ELSE t[Min(at)].version
  BY DEF DeclaredBy
<1>5. \A k \in 1 .. Len(t) : t[k].kind = "version" => IsVersion(t[k].version)
  BY <1>1, ContentsAssumption
<1> HIDE DEF x, v, t
<1>6. at = {k \in InFront(t) : VersionAt(t, k)} /\ at \subseteq 1 .. Len(t)
  BY <1>2 DEF InFront, VersionAt, FooterAt
<1> HIDE DEF at
<1>7. \A w : IsVersion(w) => w # NULL
  BY DEF IsVersion, NULL
<1>8. CASE at = {}
  <2>1. v = NULL
    BY <1>3, <1>6, <1>8 DEF FirstVersion
  <2>2. IsVersion(IMPLICIT_VERSION)
    <3>1. <<0>> \in Seq(Nat) /\ IsNumeral(<<0>>)
      BY DEF IsNumeral
    <3> DEFINE d == <<0>>
    <3> HIDE DEF d
    <3>2. IMPLICIT_VERSION = <<d, d, d>>
      BY DEF IMPLICIT_VERSION, d
    <3>3. d \in Seq(Nat) /\ IsNumeral(d)
      BY <3>1 DEF d
    <3> QED
      BY <3>2, <3>3 DEF IsVersion
  <2> QED
    BY <1>4, <1>8, <2>1, <2>2 DEF x, v
<1>9. CASE at # {}
  <2>1. PICK k \in at : v = t[k].version /\ \A j \in at : k <= j
    BY <1>3, <1>6, <1>9 DEF FirstVersion
  <2>2. Min(at) = k
    BY <1>6, <2>1 DEF Min
  <2>3. IsVersion(t[k].version)
    BY <1>5, <1>6, <2>1 DEF VersionAt
  <2> QED
    BY <1>4, <1>7, <1>9, <2>1, <2>2, <2>3 DEF x, v
<1> QED
  BY <1>8, <1>9

\* The version that constraints are compared with is the one required.
LEMMA ComparedWith ==
  ASSUME RInv, VersionsRead, Checks
  PROVE  AboutVersion = Required /\ IsVersion(Required)
<1>1. CASE Input.about = PACKCC
  BY <1>1, ReadingAssumption DEF AboutVersion, Required
<1>2. CASE Input.about # PACKCC
  <2>1. /\ inputs # <<>> /\ Input.about # NOTHING
        /\ \A k \in DOMAIN inputs : inputs[k].file # finfo[Input.about].file
    BY <1>2 DEF Checks
  <2>2. Input = inputs[Len(inputs)] /\ Len(inputs) \in 1 .. Len(inputs)
    BY <2>1, CurrentInput
  <2>3. Input.about \in 1 .. Len(finfo)
    BY <1>2, <2>1, <2>2 DEF VersionsRead, About
  <2>4. DOMAIN inputs = 1 .. Len(inputs)
    BY LenProperties DEF RInv, TypeOK
  <2>5. \A k \in 1 .. Len(inputs) : inputs[k].file # finfo[Input.about].file
    BY <2>1, <2>4
  <2> DEFINE e == Input.about
  <2> HIDE DEF e
  <2>6. /\ IsVersion(DeclaredBy(finfo[e].file))
        /\ DeclaredBy(finfo[e].file) =
             IF finfo[e].version = NULL THEN IMPLICIT_VERSION ELSE finfo[e].version
    BY <2>3, <2>5, EntryDeclares DEF e
  <2> QED
    BY <1>2, <2>6 DEF e, AboutVersion, Required
<1> QED
  BY <1>1, <1>2

\* A step from where constraints are expected and follow is the check of them.
LEMMA ChecksStep ==
  ASSUME Checks, Next
  PROVE  CheckVersion
<1>1. inputs # <<>> /\ Input.about # NOTHING /\ Comes("constraints")
  BY DEF Checks
<1>2. ~ Reads("rule") /\ ~ Reads("illegal") /\ ~ Reads("constraints") /\ ~ Reads("unknown")
      /\ ~ Reads("version") /\ ~ Reads("setting") /\ ~ Reads("marker") /\ ~ Reads("requires")
      /\ ~ Reads("import")
  BY <1>1 DEF Reads
<1> QED
  BY <1>1, <1>2 DEF Next, ReadRule, ReadIllegal, ReadUnknown, ReadVersion, ReadSetting, ReadMarker,
    ReadRequires, ImportFails, ImportAgain, Import, NoConstraints, EndFile, Done

\* Version constraints are reported if and only if the numbers do not meet them
\* (parse_and_check_version_, compare_versions), for versions of any length, wherever
\* the file declares its own and however many files lie between.
THEOREM VersionsCount == Spec => VersionCounts
<1>1. RInv /\ VersionsRead /\ Next => (Checks => (Reported <=> ~ HoldsFor(Required)))
  <2> SUFFICES ASSUME RInv, VersionsRead, Next, Checks
               PROVE  Reported <=> ~ HoldsFor(Required)
    OBVIOUS
  <2>1. PICK rest \in Behind : Becomes(Passed(TRUE, Violated(rest)), Violated(rest))
    BY ChecksStep DEF CheckVersion
  <2>2. /\ inputs # <<>> /\ ~ AtEnd /\ Item.kind = "constraints" /\ ~ Item.broken
        /\ ~ (Input.file \in Unterminated /\ Input.next = Len(content[Input.file]))
    BY DEF Checks, Comes
  <2>3. Violated(rest) = IF Valid(rest) THEN 0 ELSE 1
    <3>1. CASE Valid(rest)
      BY <2>2, <3>1 DEF Violated
    <3>2. CASE ~ Valid(rest)
      BY <2>2, <3>2 DEF Violated
    <3> QED
      BY <3>1, <3>2
  <2>4. \A k \in DOMAIN Item.list : Item.list[k].op \in Operators /\ IsVersion(Item.list[k].version)
    <3>1. Input.file \in File /\ Input.next \in Nat /\ Input.next >= 1 /\ content \in Contents
      BY <2>2, CurrentInput DEF RInv, TypeOK
    <3>2. Len(content[Input.file]) \in Nat
      BY <3>1, TextOf
    <3>3. Input.next \in 1 .. Len(content[Input.file])
      BY <2>2, <3>1, <3>2 DEF AtEnd
    <3> QED
      BY <2>2, <3>1, <3>3, ContentsAssumption DEF Item
  <2>5. \A k : Seen(k, rest) = Item.list[k].version
    BY <2>2 DEF Seen
  <2>6. AboutVersion = Required /\ IsVersion(Required)
    BY ComparedWith
  <2>7. Valid(rest) <=> HoldsFor(Required)
    <3>1. Valid(rest) <=> \A k \in DOMAIN Item.list :
                            Meets(Item.list[k].op, compare_versions(Required, Item.list[k].version))
      BY <2>5, <2>6 DEF Valid
    <3>2. \A k \in DOMAIN Item.list :
            Meets(Item.list[k].op, compare_versions(Required, Item.list[k].version))
              <=> Holds(Item.list[k].op, Required, Item.list[k].version)
      BY <2>4, <2>6, OperatorsMean
    <3> QED
      BY <3>1, <3>2 DEF HoldsFor
  <2> DEFINE n == Violated(rest)
             more == [k \in 1 .. n |-> Place]
  <2>8. n \in Nat /\ (n > 0 <=> ~ Valid(rest))
    BY <2>3
  <2>9. printed' = printed \o more
    BY <2>1 DEF Becomes
  <2> HIDE DEF n
  <2>10. Len(printed') = Len(printed) + n /\ Len(printed) \in Nat
    <3>1. Place \in File \X Nat
      BY <2>2, CurrentInput
    <3>2. more \in Seq(File \X Nat) /\ Len(more) = n
      BY <2>8, <3>1
    <3>3. printed \in Seq(File \X Nat)
      BY DEF RInv, TypeOK
    <3> HIDE DEF more
    <3> QED
      BY <2>9, <3>2, <3>3, ConcatProperties, LenProperties
  <2>11. Reported <=> n > 0
    BY <2>8, <2>10 DEF Reported
  <2> QED
    BY <2>7, <2>8, <2>11
<1>2. RInv /\ VersionsRead /\ [Next]_vars => VersionsRead'
  BY NextVersions
<1>3. Init => VersionsRead
  BY InitVersions
<1> QED
  BY <1>1, <1>2, <1>3, ReadingInvariant, PTL DEF Spec, VersionCounts

-----------------------------------------------------------------------------
(* The expansion of imports.                                                *)

Results == [rules : Seq(File \X Nat), seen : SUBSET File]

\* Functions from spots to results that forget no file.
Expanders == {e \in [Spots -> Results] : \A x \in Spots : x.seen \subseteq e[x].seen}

LEMMA FromSpot ==
  ASSUME NEW f \in File, NEW k \in Nat \ {0}, NEW seen \in SUBSET File
  PROVE  /\ From(f, k, seen) \in Spots /\ From(f, k, seen).file = f
         /\ From(f, k, seen).next = k /\ From(f, k, seen).seen = seen
BY DEF From, Spots

LEMMA SpotOf ==
  ASSUME NEW x \in Spots
  PROVE  /\ x.file \in File /\ x.next \in Nat \ {0} /\ x.seen \in SUBSET File
         /\ x = From(x.file, x.next, x.seen)
         /\ Nothing(x) \in Results /\ Nothing(x).rules = <<>> /\ Nothing(x).seen = x.seen
BY DEF From, Spots, Nothing, Results

\* The file that is met first at a spot.
LEMMA MetAt ==
  ASSUME NEW text, NEW x \in Spots, FirstMet(text, x) # {}
  PROVE  \E f \in FirstMet(text, x) :
           /\ f \in File /\ f \notin x.seen
           /\ From(f, 1, x.seen \cup {f}) \in Spots
           /\ \A e : Inner(text, e, x) = e[From(f, 1, x.seen \cup {f})]
<1> DEFINE f == CHOOSE f \in FirstMet(text, x) : TRUE
<1>1. f \in FirstMet(text, x)
  OBVIOUS
<1>2. \A e : Inner(text, e, x) = e[From(f, 1, x.seen \cup {f})]
  BY DEF Inner
<1> HIDE DEF f
<1>3. f \in File /\ f \notin x.seen
  BY <1>1 DEF FirstMet
<1>4. x.seen \in SUBSET File
  BY SpotOf
<1>5. x.seen \cup {f} \in SUBSET File /\ 1 \in Nat \ {0}
  BY <1>3, <1>4
<1> QED
  BY <1>1, <1>2, <1>3, <1>5, FromSpot

\* What is expanded at a spot, and the spot behind it.
LEMMA InnerOf ==
  ASSUME NEW text, NEW e \in Expanders, NEW x \in Spots
  PROVE  /\ Inner(text, e, x) \in Results /\ x.seen \subseteq Inner(text, e, x).seen
         /\ From(x.file, x.next + 1, Inner(text, e, x).seen) \in Spots
<1>1. Inner(text, e, x) \in Results /\ x.seen \subseteq Inner(text, e, x).seen
  <2>1. CASE FirstMet(text, x) = {}
    BY <2>1, SpotOf DEF Inner
  <2>2. CASE FirstMet(text, x) # {}
    <3>1. PICK f \in FirstMet(text, x) :
            /\ f \in File
            /\ From(f, 1, x.seen \cup {f}) \in Spots
            /\ Inner(text, e, x) = e[From(f, 1, x.seen \cup {f})]
      BY <2>2, MetAt
    <3>2. From(f, 1, x.seen \cup {f}).seen = x.seen \cup {f}
      BY DEF From
    <3> QED
      BY <3>1, <3>2 DEF Expanders
  <2> QED
    BY <2>1, <2>2
<1>2. /\ Inner(text, e, x).seen \in SUBSET File
      /\ x.file \in File /\ x.next \in Nat \ {0}
  BY <1>1, SpotOf DEF Results
<1>3. x.next + 1 \in Nat \ {0}
  BY <1>2
<1> QED
  BY <1>1, <1>2, <1>3, FromSpot

LEMMA UnfoldGrows ==
  ASSUME NEW text, NEW e \in Expanders, NEW x \in Spots
  PROVE  Unfold(text, e, x) \in Results /\ x.seen \subseteq Unfold(text, e, x).seen
<1>1. CASE Ends(text, x)
  BY <1>1, SpotOf DEF Unfold
<1>2. CASE ~ Ends(text, x)
  <2> DEFINE i == Inner(text, e, x)
             y == From(x.file, x.next + 1, i.seen)
             h == Here(text, x)
             s == h \o i.rules \o e[y].rules
  <2>1. i \in Results /\ x.seen \subseteq i.seen /\ y \in Spots
    BY InnerOf
  <2>2. y.seen = i.seen
    BY DEF From
  <2>3. e[y] \in Results /\ y.seen \subseteq e[y].seen
    BY <2>1 DEF Expanders
  <2>4. h \in Seq(File \X Nat)
    <3>1. <<x.file, x.next>> \in File \X Nat
      BY SpotOf
    <3> QED
      BY <3>1 DEF Here
  <2>5. Unfold(text, e, x) = [rules |-> s, seen |-> e[y].seen]
    BY <1>2 DEF Unfold
  <2> HIDE DEF i, y, h
  <2>6. s \in Seq(File \X Nat)
    BY <2>1, <2>3, <2>4 DEF Results
  <2> HIDE DEF s
  <2> QED
    BY <2>1, <2>2, <2>3, <2>5, <2>6 DEF Results
<1> QED
  BY <1>1, <1>2

\* There are as many places as there are items.
LEMMA PlacesFinite ==
  ASSUME NEW text \in Contents
  PROVE  IsFiniteSet(Places(text)) /\ Cardinality(Places(text)) \in Nat
<1> DEFINE Of(f) == {f} \X (1 .. Len(text[f]))
           of == [f \in File |-> Of(f)]
           T == {Of(f) : f \in File}
<1>1. IsFiniteSet(T)
  <2>1. of \in Surjection(File, T)
    BY DEF Surjection
  <2> HIDE DEF of, T
  <2> QED
    BY <2>1, FS_Surjection, ReadingAssumption
<1>2. ASSUME NEW t \in T PROVE IsFiniteSet(t)
  <2>1. PICK f \in File : t = Of(f)
    OBVIOUS
  <2>2. Len(text[f]) \in Nat
    BY ContentsAssumption
  <2> DEFINE L == Len(text[f])
  <2>3. IsFiniteSet({f})
    BY FS_Singleton
  <2>4. L \in Int /\ 1 \in Int
    BY <2>2
  <2> HIDE DEF L
  <2>5. IsFiniteSet(1 .. L)
    BY <2>4, FS_Interval
  <2>6. IsFiniteSet({f} \X (1 .. L))
    BY <2>3, <2>5, FS_Product
  <2> QED
    BY <2>1, <2>6 DEF L
<1>3. Places(text) = UNION T
  BY DEF Places
<1> HIDE DEF T
<1> QED
  BY <1>1, <1>2, <1>3, FS_UNION, FS_CardinalityType

\* The functions that a text is expanded by.
LEMMA ExpansionsOf ==
  ASSUME NEW text \in Contents, NEW m, m = Cardinality(Places(text))
  PROVE  /\ \A n \in 0 .. m : Expansions(text)[n] \in Expanders
         /\ \A x \in Spots : Expansions(text)[0][x] = Nothing(x)
         /\ \A n \in 1 .. m : \A x \in Spots :
              Expansions(text)[n][x] = Unfold(text, Expansions(text)[n - 1], x)
<1> DEFINE none == [x \in Spots |-> Nothing(x)]
           More(e) == [x \in Spots |-> Unfold(text, e, x)]
           Step == [n \in 1 .. m |-> [e \in Expanders |-> More(e)]]
<1>1. m \in Nat
  BY PlacesFinite
<1>2. none \in Expanders
  BY SpotOf DEF Expanders
<1>3. ASSUME NEW e \in Expanders PROVE More(e) \in Expanders
  BY UnfoldGrows DEF Expanders
<1>4. Step \in [1 .. m -> [Expanders -> Expanders]]
  BY <1>3
<1> HIDE DEF none, Step, More
<1>5. PICK g \in [0 .. m -> Expanders] : Iterate(g, m, none, Step)
  BY <1>1, <1>2, <1>4, Iterates
<1> DEFINE Fits(e) == e = [n \in 0 .. m |-> IF n = 0 THEN none ELSE More(e[n - 1])]
<1>6. Fits(g)
  <2>1. g = [n \in 0 .. m |-> IF n = 0 THEN none ELSE Step[n][g[n - 1]]]
    BY <1>5 DEF Iterate
  <2>2. \A n \in 0 .. m : n # 0 => Step[n][g[n - 1]] = More(g[n - 1])
    <3> SUFFICES ASSUME NEW n \in 0 .. m, n # 0 PROVE Step[n][g[n - 1]] = More(g[n - 1])
      OBVIOUS
    <3>1. n \in 1 .. m /\ g[n - 1] \in Expanders
      BY <1>1
    <3> QED
      BY <3>1 DEF Step
  <2>3. \A n \in 0 .. m : g[n] = IF n = 0 THEN none ELSE More(g[n - 1])
    <3> SUFFICES ASSUME NEW n \in 0 .. m PROVE g[n] = IF n = 0 THEN none ELSE More(g[n - 1])
      OBVIOUS
    <3>1. g[n] = IF n = 0 THEN none ELSE Step[n][g[n - 1]]
      BY <2>1
    <3> QED
      BY <2>2, <3>1
  <2> QED
    BY <2>3
<1> DEFINE E == CHOOSE e : Fits(e)
<1>7. Fits(E)
  BY <1>6
<1>8. Expansions(text) = E
  BY DEF Expansions, none, More
<1> HIDE DEF E
<1>9. \A n \in 0 .. m : E[n] = IF n = 0 THEN none ELSE More(E[n - 1])
  BY <1>7
<1> HIDE DEF Fits
<1> DEFINE S == {n \in 0 .. m : E[n] \in Expanders}
<1>10. \A n \in 0 .. m : n \in S
  <2>1. 0 \in S
    BY <1>1, <1>2, <1>9
  <2>2. ASSUME NEW n \in 0 .. m, n # m, n \in S PROVE n + 1 \in S
    <3>1. n + 1 \in 0 .. m /\ n + 1 # 0 /\ (n + 1) - 1 = n /\ E[n] \in Expanders
      BY <1>1, <2>2
    <3>2. E[n + 1] = More(E[n])
      BY <1>9, <3>1
    <3> QED
      BY <1>3, <3>1, <3>2
  <2> HIDE DEF S
  <2> QED
    BY <1>1, <2>1, <2>2, Upwards
<1>11. \A x \in Spots : E[0][x] = Nothing(x)
  <2>1. 0 \in 0 .. m
    BY <1>1
  <2> QED
    BY <1>9, <2>1 DEF none
<1>12. \A n \in 1 .. m : \A x \in Spots : E[n][x] = Unfold(text, E[n - 1], x)
  <2> SUFFICES ASSUME NEW n \in 1 .. m, NEW x \in Spots PROVE E[n][x] = Unfold(text, E[n - 1], x)
    OBVIOUS
  <2>1. n \in 0 .. m /\ n # 0
    BY <1>1
  <2> QED
    BY <1>9, <2>1 DEF More
<1> QED
  BY <1>8, <1>10, <1>11, <1>12

-----------------------------------------------------------------------------
(* What is left to expand.                                                  *)

\* The places that are left at a spot, those of the files that have not been met and
\* those of its own file, and their number.
Left(text, x) == {p \in Places(text) : p[1] \notin x.seen \/ (p[1] = x.file /\ p[2] >= x.next)}
Size(text, x) == Cardinality(Left(text, x))
Reached == {x \in Spots : x.file \in x.seen}

LEMMA SizeOf ==
  ASSUME NEW text \in Contents, NEW x
  PROVE  /\ IsFiniteSet(Left(text, x)) /\ Size(text, x) \in Nat
         /\ Size(text, x) <= Cardinality(Places(text))
<1>1. Left(text, x) \in SUBSET Places(text)
  BY DEF Left
<1> QED
  BY <1>1, PlacesFinite, FS_Subset, FS_CardinalityType DEF Size

\* Where reading is in front of an item, its place is left.
LEMMA PlaceLeft ==
  ASSUME NEW text \in Contents, NEW x \in Spots, ~ Ends(text, x)
  PROVE  <<x.file, x.next>> \in Left(text, x)
<1>1. x.file \in File /\ x.next \in Nat \ {0} /\ Len(text[x.file]) \in Nat
  BY SpotOf, ContentsAssumption
<1>2. x.next \in 1 .. Len(text[x.file])
  BY <1>1 DEF Ends
<1>3. <<x.file, x.next>> \in {x.file} \X (1 .. Len(text[x.file]))
  BY <1>2
<1>4. <<x.file, x.next>> \in Places(text)
  BY <1>1, <1>3 DEF Places
<1> QED
  BY <1>1, <1>4 DEF Left

\* Fewer places are left where one is missing.
LEMMA FewerLeft ==
  ASSUME NEW text \in Contents, NEW x, NEW y, NEW p,
         Left(text, y) \subseteq Left(text, x), p \in Left(text, x), p \notin Left(text, y)
  PROVE  Size(text, y) < Size(text, x)
<1>1. Left(text, y) \in SUBSET Left(text, x) /\ Left(text, y) # Left(text, x)
  OBVIOUS
<1>2. IsFiniteSet(Left(text, x)) /\ Size(text, x) \in Nat /\ Size(text, y) \in Nat
  BY SizeOf
<1>3. Size(text, y) <= Size(text, x) /\ Size(text, y) # Size(text, x)
  BY <1>1, <1>2, FS_Subset DEF Size
<1> QED
  BY <1>2, <1>3

\* They become fewer behind an item, and in a file that is met first.
LEMMA FewerBehind ==
  ASSUME NEW text \in Contents, NEW x \in Reached, ~ Ends(text, x),
         NEW s \in SUBSET File, x.seen \subseteq s
  PROVE  Size(text, From(x.file, x.next + 1, s)) < Size(text, x)
<1> DEFINE y == From(x.file, x.next + 1, s)
           p == <<x.file, x.next>>
<1>1. x.file \in x.seen /\ x.next \in Nat /\ x \in Spots
  BY DEF Reached, Spots
<1>2. y.file = x.file /\ y.next = x.next + 1 /\ y.seen = s
  BY DEF From
<1>3. p \in Left(text, x)
  BY <1>1, PlaceLeft
<1>4. p \notin Left(text, y)
  BY <1>1, <1>2 DEF Left
<1>5. Left(text, y) \subseteq Left(text, x)
  <2> SUFFICES ASSUME NEW q \in Left(text, y) PROVE q \in Left(text, x)
    OBVIOUS
  <2>1. q \in Places(text) /\ (q[1] \notin s \/ (q[1] = x.file /\ q[2] >= x.next + 1))
    BY <1>2 DEF Left
  <2>2. q[2] \in Int
    BY <2>1 DEF Places
  <2>3. q[1] \notin x.seen \/ (q[1] = x.file /\ q[2] >= x.next)
    BY <1>1, <2>1, <2>2
  <2> QED
    BY <2>1, <2>3 DEF Left
<1> HIDE DEF y, p
<1> QED
  BY <1>3, <1>4, <1>5, FewerLeft DEF y

LEMMA FewerInside ==
  ASSUME NEW text \in Contents, NEW x \in Reached, ~ Ends(text, x), NEW f \in File, f \notin x.seen
  PROVE  Size(text, From(f, 1, x.seen \cup {f})) < Size(text, x)
<1> DEFINE y == From(f, 1, x.seen \cup {f})
           p == <<x.file, x.next>>
<1>1. x.file \in x.seen /\ x.file # f /\ x \in Spots
  BY DEF Reached
<1>2. y.file = f /\ y.next = 1 /\ y.seen = x.seen \cup {f}
  BY DEF From
<1>3. p \in Left(text, x)
  BY <1>1, PlaceLeft
<1>4. p \notin Left(text, y)
  BY <1>1, <1>2 DEF Left
<1>5. Left(text, y) \subseteq Left(text, x)
  BY <1>2 DEF Left
<1> HIDE DEF y, p
<1> QED
  BY <1>3, <1>4, <1>5, FewerLeft DEF y

\* What is expanded at a spot depends on smaller ones only.
LEMMA UnfoldAgrees ==
  ASSUME NEW text \in Contents, NEW x \in Reached, NEW d \in Expanders, NEW e \in Expanders,
         \A y \in Reached : Size(text, y) < Size(text, x) => d[y] = e[y]
  PROVE  Unfold(text, d, x) = Unfold(text, e, x)
<1>1. CASE Ends(text, x)
  BY <1>1 DEF Unfold
<1>2. CASE ~ Ends(text, x)
  <2>1. x \in Spots /\ x.file \in x.seen
    BY DEF Reached
  <2>2. Inner(text, d, x) = Inner(text, e, x)
    <3>1. CASE FirstMet(text, x) = {}
      BY <3>1 DEF Inner
    <3>2. CASE FirstMet(text, x) # {}
      <4>1. PICK f \in FirstMet(text, x) :
              /\ f \in File /\ f \notin x.seen
              /\ From(f, 1, x.seen \cup {f}) \in Spots
              /\ \A a : Inner(text, a, x) = a[From(f, 1, x.seen \cup {f})]
        BY <2>1, <3>2, MetAt
      <4> DEFINE y == From(f, 1, x.seen \cup {f})
      <4>2. y.file = f /\ y.seen = x.seen \cup {f}
        BY DEF From
      <4>3. y \in Reached
        BY <4>1, <4>2 DEF Reached
      <4>4. Size(text, y) < Size(text, x)
        BY <1>2, <4>1, FewerInside
      <4> HIDE DEF y
      <4>5. d[y] = e[y]
        BY <4>3, <4>4
      <4> QED
        BY <4>1, <4>5 DEF y
    <3> QED
      BY <3>1, <3>2
  <2> DEFINE i == Inner(text, d, x)
             z == From(x.file, x.next + 1, i.seen)
  <2>3. i \in Results /\ x.seen \subseteq i.seen /\ z \in Spots
    BY <2>1, InnerOf
  <2>4. i.seen \in SUBSET File
    BY <2>3 DEF Results
  <2>5. z.file = x.file /\ z.seen = i.seen
    BY DEF From
  <2>6. z \in Reached
    BY <2>1, <2>3, <2>5 DEF Reached
  <2>7. Size(text, z) < Size(text, x)
    BY <1>2, <2>3, <2>4, FewerBehind
  <2>8. d[z] = e[z]
    BY <2>6, <2>7
  <2> QED
    BY <1>2, <2>2, <2>8 DEF Unfold
<1> QED
  BY <1>1, <1>2

\* What is expanded in n steps stays so, where no more than n places are left.
LEMMA Settled ==
  ASSUME NEW text \in Contents, NEW m, m = Cardinality(Places(text)),
         NEW n \in 1 .. m, NEW x \in Reached, Size(text, x) <= n - 1
  PROVE  Expansions(text)[n][x] = Expansions(text)[n - 1][x]
<1> DEFINE E == Expansions(text)
           Same(k) == \A y \in Reached : Size(text, y) <= k => E[k + 1][y] = E[k][y]
           l == m - 1
           S == {k \in 0 .. l : Same(k)}
<1>1. m \in Nat /\ l \in Nat
  BY PlacesFinite
<1>2. /\ \A k \in 0 .. m : E[k] \in Expanders
      /\ \A y \in Spots : E[0][y] = Nothing(y)
      /\ \A k \in 1 .. m : \A y \in Spots : E[k][y] = Unfold(text, E[k - 1], y)
  BY ExpansionsOf
<1>3. \A y \in Reached : y \in Spots /\ Size(text, y) \in Nat
  BY SizeOf DEF Reached
<1> HIDE DEF E
<1>4. 0 \in S
  <2> SUFFICES ASSUME NEW y \in Reached, Size(text, y) <= 0 PROVE E[0 + 1][y] = E[0][y]
    BY <1>1
  <2>1. y \in Spots /\ Size(text, y) = 0
    BY <1>3
  <2>2. Left(text, y) = {}
    BY <2>1, SizeOf, FS_EmptySet DEF Size
  <2>3. Ends(text, y)
    BY <2>1, <2>2, PlaceLeft
  <2>4. 0 + 1 \in 1 .. m
    BY <1>1
  <2>5. E[0 + 1][y] = Unfold(text, E[0 + 1 - 1], y)
    BY <1>2, <2>1, <2>4
  <2> QED
    BY <1>2, <2>1, <2>3, <2>5 DEF Unfold
<1>5. ASSUME NEW k \in 0 .. l, k # l, k \in S
      PROVE  k + 1 \in S
  <2>1. k + 1 \in 0 .. l /\ k \in Nat
    BY <1>1, <1>5
  <2> SUFFICES ASSUME NEW y \in Reached, Size(text, y) <= k + 1 PROVE E[k + 1 + 1][y] = E[k + 1][y]
    BY <2>1
  <2>2. k + 1 \in 1 .. m /\ k + 1 + 1 \in 1 .. m /\ k \in 0 .. m /\ k + 1 \in 0 .. m
        /\ k + 1 - 1 = k /\ k + 1 + 1 - 1 = k + 1
    BY <1>1, <2>1
  <2>3. E[k + 1][y] = Unfold(text, E[k], y) /\ E[k + 1 + 1][y] = Unfold(text, E[k + 1], y)
    BY <1>2, <1>3, <2>2
  <2>4. E[k] \in Expanders /\ E[k + 1] \in Expanders
    BY <1>2, <2>2
  <2>5. \A z \in Reached : Size(text, z) < Size(text, y) => E[k + 1][z] = E[k][z]
    <3> SUFFICES ASSUME NEW z \in Reached, Size(text, z) < Size(text, y) PROVE E[k + 1][z] = E[k][z]
      OBVIOUS
    <3>1. Size(text, z) <= k
      BY <1>3, <2>1
    <3> QED
      BY <1>5, <3>1
  <2>6. Unfold(text, E[k + 1], y) = Unfold(text, E[k], y)
    BY <2>4, <2>5, UnfoldAgrees
  <2> QED
    BY <2>3, <2>6
<1>6. n - 1 \in 0 .. l /\ (n - 1) + 1 = n
  BY <1>1
<1>7. n - 1 \in S
  <2> HIDE DEF S
  <2>1. \A k \in 0 .. l : k \in S
    BY <1>1, <1>4, <1>5, Upwards
  <2> QED
    BY <1>6, <2>1
<1> QED
  BY <1>6, <1>7 DEF E

\* The expansion of a text is what the item at a spot says, and then the expansion of
\* the rest.
LEMMA ExpansionUnfolds ==
  ASSUME NEW text \in Contents
  PROVE  /\ Expansion(text) \in Expanders
         /\ \A x \in Reached : Expansion(text)[x] = Unfold(text, Expansion(text), x)
<1> DEFINE m == Cardinality(Places(text))
           E == Expansions(text)
<1>1. m \in Nat /\ m \in 0 .. m
  BY PlacesFinite
<1>2. /\ \A k \in 0 .. m : E[k] \in Expanders
      /\ \A y \in Spots : E[0][y] = Nothing(y)
      /\ \A k \in 1 .. m : \A y \in Spots : E[k][y] = Unfold(text, E[k - 1], y)
  BY ExpansionsOf
<1>3. \A y \in Reached : y \in Spots /\ Size(text, y) \in Nat /\ Size(text, y) <= m
  BY SizeOf DEF Reached
<1>4. Expansion(text) = E[m]
  BY DEF Expansion
<1>5. \A n \in 1 .. m : \A x \in Reached : Size(text, x) <= n - 1 => E[n][x] = E[n - 1][x]
  BY Settled
<1> HIDE DEF m, E
<1>6. ASSUME NEW x \in Reached
      PROVE  E[m][x] = Unfold(text, E[m], x)
  <2>1. CASE m = 0
    <3>1. Size(text, x) = 0 /\ x \in Spots
      BY <1>3, <2>1
    <3>2. Left(text, x) = {}
      BY <3>1, SizeOf, FS_EmptySet DEF Size
    <3>3. Ends(text, x)
      BY <3>1, <3>2, PlaceLeft
    <3> QED
      BY <1>2, <2>1, <3>1, <3>3 DEF Unfold
  <2>2. CASE m # 0
    <3>1. m \in 1 .. m /\ m - 1 \in 0 .. m
      BY <1>1, <2>2
    <3>2. E[m][x] = Unfold(text, E[m - 1], x)
      BY <1>2, <1>3, <3>1
    <3>3. \A y \in Reached : Size(text, y) < Size(text, x) => E[m][y] = E[m - 1][y]
      <4> SUFFICES ASSUME NEW y \in Reached, Size(text, y) < Size(text, x) PROVE E[m][y] = E[m - 1][y]
        OBVIOUS
      <4>1. Size(text, y) <= m - 1
        BY <1>1, <1>3
      <4> QED
        BY <1>5, <3>1, <4>1
    <3>4. Unfold(text, E[m], x) = Unfold(text, E[m - 1], x)
      BY <1>1, <1>2, <3>1, <3>3, UnfoldAgrees
    <3> QED
      BY <3>2, <3>4
  <2> QED
    BY <2>1, <2>2
<1>7. E[m] \in Expanders
  BY <1>1, <1>2
<1> QED
  BY <1>4, <1>6, <1>7

-----------------------------------------------------------------------------
(* What the expansion says of an item.                                      *)

\* What has been read, c, is followed by what the input in has to come.
Then(c, d) == [rules |-> c.rules \o d.rules, seen |-> d.seen]
Come(text, in, c) == Then(c, Expansion(text)[From(in.file, in.next, c.seen)])
Read(done, files) == [rules |-> done, seen |-> files]

LEMMA ReadResult ==
  ASSUME NEW done \in Seq(File \X Nat), NEW files \in SUBSET File
  PROVE  Read(done, files) \in Results
BY DEF Read, Results

LEMMA ThenResult ==
  ASSUME NEW c \in Results, NEW d \in Results
  PROVE  Then(c, d) \in Results
<1>1. c.rules \in Seq(File \X Nat) /\ d.rules \in Seq(File \X Nat) /\ d.seen \in SUBSET File
  BY DEF Results
<1>2. c.rules \o d.rules \in Seq(File \X Nat)
  BY <1>1, ConcatProperties
<1> QED
  BY <1>1, <1>2 DEF Then, Results

LEMMA ThenAssociative ==
  ASSUME NEW b \in Results, NEW c \in Results, NEW d \in Results
  PROVE  Then(Then(b, c), d) = Then(b, Then(c, d))
<1>1. b.rules \in Seq(File \X Nat) /\ c.rules \in Seq(File \X Nat) /\ d.rules \in Seq(File \X Nat)
  BY DEF Results
<1> DEFINE S == File \X Nat
           s == b.rules
           t == c.rules
           u == d.rules
<1>2. (s \o t) \o u = s \o (t \o u)
  <2>1. s \in Seq(S) /\ t \in Seq(S) /\ u \in Seq(S)
    BY <1>1
  <2> HIDE DEF S, s, t, u
  <2> QED
    BY <2>1, ConcatAssociative
<1> QED
  BY <1>2 DEF Then

LEMMA ComeResult ==
  ASSUME NEW text \in Contents, NEW f \in File, NEW k \in Nat \ {0}, NEW c \in Results
  PROVE  Expansion(text)[From(f, k, c.seen)] \in Results
<1>1. From(f, k, c.seen) \in Spots
  BY FromSpot DEF Results
<1> QED
  BY <1>1, ExpansionUnfolds DEF Expanders

\* Nothing comes at the end.
LEMMA EndComes ==
  ASSUME NEW text \in Contents, NEW f \in File, NEW k \in Nat \ {0}, NEW c \in Results, f \in c.seen,
         Ends(text, From(f, k, c.seen))
  PROVE  Then(c, Expansion(text)[From(f, k, c.seen)]) = c
<1> DEFINE x == From(f, k, c.seen)
<1>1. x \in Spots /\ x.file = f /\ x.seen = c.seen
  BY FromSpot DEF Results
<1>2. x \in Reached
  BY <1>1 DEF Reached
<1>3. Expansion(text)[x] = Nothing(x)
  BY <1>2, ExpansionUnfolds DEF Unfold
<1> HIDE DEF x
<1>4. Expansion(text)[x].rules = <<>> /\ Expansion(text)[x].seen = c.seen
  BY <1>1, <1>3 DEF Nothing
<1>5. c.rules \o <<>> = c.rules
  BY ConcatEmptySeq DEF Results
<1>6. c = [rules |-> c.rules, seen |-> c.seen]
  BY DEF Results
<1> QED
  BY <1>4, <1>5, <1>6 DEF Then, x

\* An item at which nothing is met, which may be a rule.
LEMMA ItemComes ==
  ASSUME NEW text \in Contents, NEW f \in File, NEW k \in Nat \ {0}, NEW c \in Results, f \in c.seen,
         ~ Ends(text, From(f, k, c.seen)), FirstMet(text, From(f, k, c.seen)) = {}
  PROVE  Then(c, Expansion(text)[From(f, k, c.seen)]) =
           Then([c EXCEPT !.rules = @ \o Here(text, From(f, k, c.seen))],
                Expansion(text)[From(f, k + 1, c.seen)])
<1> DEFINE x == From(f, k, c.seen)
           y == From(f, k + 1, c.seen)
           F == Expansion(text)
           h == Here(text, x)
<1>1. x \in Spots /\ x.file = f /\ x.next = k /\ x.seen = c.seen
  BY FromSpot DEF Results
<1>2. x \in Reached
  BY <1>1 DEF Reached
<1>3. F[x] = Unfold(text, F, x) /\ F \in Expanders
  BY <1>2, ExpansionUnfolds
<1>4. F[y] \in Results
  BY ComeResult
<1>5. h \in Seq(File \X Nat)
  BY <1>1 DEF Here
<1>6. ~ Ends(text, x) /\ Inner(text, F, x) = Nothing(x)
  BY DEF Inner
<1>7. y = From(x.file, x.next + 1, Nothing(x).seen)
  BY <1>1 DEF Nothing
<1> HIDE DEF x, y, F, h
<1>8. F[x] = [rules |-> h \o <<>> \o F[y].rules, seen |-> F[y].seen]
  BY <1>3, <1>6, <1>7 DEF Unfold, Nothing, h
<1>9. h \o <<>> = h
  BY <1>5, ConcatEmptySeq
<1>10. F[x].rules = h \o F[y].rules /\ F[x].seen = F[y].seen
  BY <1>8, <1>9
<1>11. c.rules \in Seq(File \X Nat) /\ F[y].rules \in Seq(File \X Nat)
  BY <1>4 DEF Results
<1>12. c.rules \o (h \o F[y].rules) = (c.rules \o h) \o F[y].rules
  <2> DEFINE S == File \X Nat
             s == c.rules
             u == F[y].rules
  <2>1. s \in Seq(S) /\ h \in Seq(S) /\ u \in Seq(S)
    BY <1>5, <1>11
  <2> HIDE DEF S, s, u
  <2>2. (s \o h) \o u = s \o (h \o u)
    BY <2>1, ConcatAssociative
  <2> QED
    BY <2>2 DEF s, u
<1>13. [c EXCEPT !.rules = @ \o h].rules = c.rules \o h
  BY DEF Results
<1> QED
  BY <1>10, <1>12, <1>13 DEF Then, x, y, F, h

\* An item at which a file is met first.
LEMMA ImportComes ==
  ASSUME NEW text \in Contents, NEW f \in File, NEW k \in Nat \ {0}, NEW c \in Results, f \in c.seen,
         ~ Ends(text, From(f, k, c.seen)), text[f][k].kind # "rule",
         NEW g, FirstMet(text, From(f, k, c.seen)) = {g},
         NEW d, d = Then(c, Expansion(text)[From(g, 1, c.seen \cup {g})])
  PROVE  /\ d \in Results
         /\ Then(c, Expansion(text)[From(f, k, c.seen)]) =
              Then(d, Expansion(text)[From(f, k + 1, d.seen)])
<1> DEFINE x == From(f, k, c.seen)
           y == From(g, 1, c.seen \cup {g})
           F == Expansion(text)
           z == From(f, k + 1, F[y].seen)
<1>1. x \in Spots /\ x.file = f /\ x.next = k /\ x.seen = c.seen
  BY FromSpot DEF Results
<1>2. x \in Reached
  BY <1>1 DEF Reached
<1>3. F[x] = Unfold(text, F, x) /\ F \in Expanders
  BY <1>2, ExpansionUnfolds
<1>4. y \in Spots /\ Inner(text, F, x) = F[y]
  <2>1. FirstMet(text, x) # {}
    OBVIOUS
  <2>2. PICK e \in FirstMet(text, x) :
          /\ From(e, 1, x.seen \cup {e}) \in Spots
          /\ \A a : Inner(text, a, x) = a[From(e, 1, x.seen \cup {e})]
    BY <1>1, <2>1, MetAt
  <2>3. e = g
    OBVIOUS
  <2> QED
    BY <1>1, <2>2, <2>3
<1>5. F[y] \in Results
  BY <1>3, <1>4 DEF Expanders
<1>6. F[z] \in Results
  BY <1>5, ComeResult
<1>7. ~ Ends(text, x) /\ Here(text, x) = <<>>
  BY <1>1 DEF Here
<1>8. d = Then(c, F[y])
  OBVIOUS
<1> HIDE DEF x, y, F
<1>9. F[x] = [rules |-> <<>> \o F[y].rules \o F[z].rules, seen |-> F[z].seen]
  BY <1>1, <1>3, <1>4, <1>7 DEF Unfold
<1> HIDE DEF z
<1>10. <<>> \o F[y].rules = F[y].rules
  BY <1>5, ConcatEmptySeq DEF Results
<1>11. F[x] = Then(F[y], F[z])
  BY <1>9, <1>10 DEF Then
<1>12. d \in Results
  BY <1>5, <1>8, ThenResult
<1>13. Then(c, F[x]) = Then(d, F[z])
  BY <1>5, <1>6, <1>8, <1>11, ThenAssociative
<1>14. d.seen = F[y].seen
  <2> DEFINE a == F[y]
  <2>1. d = [rules |-> c.rules \o a.rules, seen |-> a.seen]
    BY <1>8 DEF Then
  <2> HIDE DEF a
  <2> QED
    BY <2>1 DEF a
<1>15. z = From(f, k + 1, d.seen)
  BY <1>14 DEF z
<1> QED
  BY <1>12, <1>13, <1>15 DEF x, F

-----------------------------------------------------------------------------
(* The rules read so far, and what the inputs on the stack have to come.    *)

\* c has what will have been read when each input is at its end, the first one last.
Chain(c, text, ins, done, files) ==
  /\ c \in [0 .. Len(ins) -> Results]
  /\ c[Len(ins)] = Read(done, files)
  /\ \A k \in 1 .. Len(ins) : c[k - 1] = Come(text, ins[k], c[k])
  /\ c[0].rules = Expansion(text)[From(Root, 1, {Root})].rules
Met == {finfo[k].file : k \in 1 .. Len(finfo)}
InPlace == \E c : Chain(c, content, inputs, rules, Met)

\* The last input is replaced.
LEMMA ChainReplaced ==
  ASSUME NEW c, NEW text, NEW ins, NEW done, NEW files, Chain(c, text, ins, done, files),
         NEW n \in Nat \ {0}, Len(ins) = n,
         NEW outs, Len(outs) = n, \A j \in 1 .. n - 1 : outs[j] = ins[j],
         NEW done1, NEW files1, Read(done1, files1) \in Results,
         Come(text, outs[n], Read(done1, files1)) = Come(text, ins[n], Read(done, files))
  PROVE  \E d : Chain(d, text, outs, done1, files1)
<1> DEFINE d == [k \in 0 .. n |-> IF k = n THEN Read(done1, files1) ELSE c[k]]
<1>1. /\ c \in [0 .. n -> Results] /\ c[n] = Read(done, files)
      /\ \A k \in 1 .. n : c[k - 1] = Come(text, ins[k], c[k])
      /\ c[0].rules = Expansion(text)[From(Root, 1, {Root})].rules
  BY DEF Chain
<1>2. d \in [0 .. n -> Results] /\ d[n] = Read(done1, files1) /\ \A k \in 0 .. n : k # n => d[k] = c[k]
  BY <1>1
<1> HIDE DEF d
<1>3. ASSUME NEW k \in 1 .. n PROVE d[k - 1] = Come(text, outs[k], d[k])
  <2>1. k - 1 \in 0 .. n /\ k - 1 # n /\ k \in 0 .. n
    OBVIOUS
  <2>2. d[k - 1] = Come(text, ins[k], c[k])
    BY <1>1, <1>2, <2>1
  <2>3. CASE k = n
    BY <1>1, <1>2, <2>2, <2>3
  <2>4. CASE k # n
    <3>1. k \in 1 .. n - 1
      BY <2>4
    <3> QED
      BY <1>2, <2>1, <2>2, <2>4, <3>1
  <2> QED
    BY <2>3, <2>4
<1>4. d[0] = c[0]
  BY <1>2
<1> QED
  BY <1>1, <1>2, <1>3, <1>4 DEF Chain

\* An input is put on top.
LEMMA ChainPushed ==
  ASSUME NEW c, NEW text, NEW ins, NEW done, NEW files, Chain(c, text, ins, done, files),
         NEW n \in Nat \ {0}, Len(ins) = n,
         NEW outs, Len(outs) = n + 1, \A j \in 1 .. n - 1 : outs[j] = ins[j],
         NEW files1, Read(done, files1) \in Results,
         NEW d, d \in Results, d = Come(text, outs[n + 1], Read(done, files1)),
         Come(text, outs[n], d) = Come(text, ins[n], Read(done, files))
  PROVE  \E e : Chain(e, text, outs, done, files1)
<1> DEFINE e == [k \in 0 .. n + 1 |-> IF k = n + 1 THEN Read(done, files1) ELSE IF k = n THEN d ELSE c[k]]
<1>1. /\ c \in [0 .. n -> Results] /\ c[n] = Read(done, files)
      /\ \A k \in 1 .. n : c[k - 1] = Come(text, ins[k], c[k])
      /\ c[0].rules = Expansion(text)[From(Root, 1, {Root})].rules
  BY DEF Chain
<1>2. /\ e \in [0 .. n + 1 -> Results] /\ e[n + 1] = Read(done, files1) /\ e[n] = d
      /\ \A k \in 0 .. n - 1 : e[k] = c[k]
  <2>1. \A k \in 0 .. n + 1 : k = n + 1 \/ k = n \/ k \in 0 .. n
    OBVIOUS
  <2>2. e \in [0 .. n + 1 -> Results]
    BY <1>1, <2>1
  <2>3. n + 1 \in 0 .. n + 1 /\ n \in 0 .. n + 1 /\ n # n + 1
    OBVIOUS
  <2>4. \A k \in 0 .. n - 1 : k \in 0 .. n + 1 /\ k # n /\ k # n + 1
    OBVIOUS
  <2> QED
    BY <2>2, <2>3, <2>4
<1> HIDE DEF e
<1>3. ASSUME NEW k \in 1 .. n + 1 PROVE e[k - 1] = Come(text, outs[k], e[k])
  <2>1. CASE k = n + 1
    <3>1. k - 1 = n
      BY <2>1
    <3> QED
      BY <1>2, <2>1, <3>1
  <2>2. CASE k = n
    <3>1. k - 1 \in 0 .. n - 1 /\ k \in 1 .. n
      BY <2>2
    <3> QED
      BY <1>1, <1>2, <2>2, <3>1
  <2>3. CASE k # n + 1 /\ k # n
    <3>1. k - 1 \in 0 .. n - 1 /\ k \in 1 .. n /\ k \in 1 .. n - 1 /\ k \in 0 .. n - 1
      BY <2>3
    <3> QED
      BY <1>1, <1>2, <3>1
  <2> QED
    BY <2>1, <2>2, <2>3
<1>4. e[0] = c[0]
  BY <1>2
<1> QED
  BY <1>1, <1>2, <1>3, <1>4 DEF Chain

\* The last input ends.
LEMMA ChainPopped ==
  ASSUME NEW c, NEW text, NEW ins, NEW done, NEW files, Chain(c, text, ins, done, files),
         NEW n \in Nat \ {0}, Len(ins) = n,
         NEW outs, Len(outs) = n - 1, \A j \in 1 .. n - 1 : outs[j] = ins[j],
         Come(text, ins[n], Read(done, files)) = Read(done, files)
  PROVE  \E d : Chain(d, text, outs, done, files)
<1> DEFINE m == n - 1
           d == [k \in 0 .. m |-> c[k]]
<1>1. /\ c \in [0 .. n -> Results] /\ c[n] = Read(done, files)
      /\ \A k \in 1 .. n : c[k - 1] = Come(text, ins[k], c[k])
      /\ c[0].rules = Expansion(text)[From(Root, 1, {Root})].rules
  BY DEF Chain
<1>2. m \in Nat /\ \A k \in 0 .. m : k \in 0 .. n
  OBVIOUS
<1>3. d \in [0 .. m -> Results] /\ \A k \in 0 .. m : d[k] = c[k]
  BY <1>1, <1>2
<1>4. m \in 0 .. m /\ n \in 1 .. n /\ n - 1 = m /\ 0 \in 0 .. m
  OBVIOUS
<1>5. d[m] = Read(done, files) /\ d[0] = c[0]
  BY <1>1, <1>3, <1>4
<1> HIDE DEF d
<1>6. ASSUME NEW k \in 1 .. m PROVE d[k - 1] = Come(text, outs[k], d[k])
  <2>1. k - 1 \in 0 .. m /\ k \in 0 .. m /\ k \in 1 .. n /\ k \in 1 .. n - 1
    BY <1>2
  <2> QED
    BY <1>1, <1>3, <2>1
<1>7. Len(outs) = m
  OBVIOUS
<1> HIDE DEF m
<1> QED
  BY <1>1, <1>3, <1>5, <1>6, <1>7 DEF Chain

-----------------------------------------------------------------------------
(* What the step meets is what the expansion does.                          *)

\* The file that a path leads to is the one that is located.
LEMMA LeadsLocated ==
  ASSUME Input.file \in File, NEW path \in Path, NEW g \in File
  PROVE  Leads(Input.file, path, g) <=> Located(path) = g
<1> DEFINE tries == Opened[<<Input.file, path>>]
           found == {k \in DOMAIN tries : tries[k] # absent}
<1>1. tries \in Seq(File \cup {absent, denied})
  BY ReadingAssumption
<1>2. Len(tries) \in Nat /\ DOMAIN tries = 1 .. Len(tries) /\ found \subseteq Nat
  BY <1>1, LenProperties
<1>3. g # absent
  BY ReadingAssumption
<1>4. Leads(Input.file, path, g) <=>
        \E j \in DOMAIN tries : tries[j] = g /\ \A i \in 1 .. j - 1 : tries[i] = absent
  BY DEF Leads
<1>5. Located(path) = IF found = {} THEN absent ELSE tries[Min(found)]
  BY DEF Located
<1>6. found # {} => Min(found) \in found /\ \A k \in found : Min(found) <= k
  BY <1>2, MinOf
<1> HIDE DEF tries
<1>7. ASSUME NEW j \in DOMAIN tries, tries[j] = g, \A i \in 1 .. j - 1 : tries[i] = absent
      PROVE  Located(path) = g
  <2>1. j \in found
    BY <1>3, <1>7
  <2> DEFINE m == Min(found)
  <2>2. m \in found /\ m <= j
    BY <1>6, <2>1
  <2> HIDE DEF m
  <2>3. m \in 1 .. Len(tries) /\ tries[m] # absent /\ j \in 1 .. Len(tries)
    BY <1>2, <2>2
  <2>4. m = j
    BY <1>2, <1>7, <2>2, <2>3
  <2> QED
    BY <1>5, <1>7, <2>1, <2>4 DEF m
<1>8. ASSUME Located(path) = g
      PROVE  \E j \in DOMAIN tries : tries[j] = g /\ \A i \in 1 .. j - 1 : tries[i] = absent
  <2>1. found # {}
    BY <1>3, <1>5, <1>8
  <2> DEFINE m == Min(found)
  <2>2. m \in found /\ (\A k \in found : m <= k) /\ tries[m] = g
    BY <1>5, <1>6, <1>8, <2>1
  <2> HIDE DEF m
  <2>3. m \in 1 .. Len(tries)
    BY <1>2, <2>2
  <2>4. \A i \in 1 .. m - 1 : i \in 1 .. Len(tries) /\ ~(m <= i)
    BY <1>2, <2>3
  <2>5. \A i \in 1 .. m - 1 : tries[i] = absent
    BY <1>2, <2>2, <2>4
  <2> QED
    BY <1>2, <2>2, <2>3, <2>5
<1> QED
  BY <1>4, <1>7, <1>8

\* The place of reading as a spot of the expansion.
LEMMA SpotRead ==
  ASSUME RInv, inputs # <<>>, NEW x, x = From(Input.file, Input.next, Met)
  PROVE  /\ Met \in SUBSET File /\ Input.file \in Met
         /\ Input.file \in File /\ Input.next \in Nat \ {0}
         /\ x \in Spots /\ x.file = Input.file /\ x.next = Input.next /\ x.seen = Met
         /\ Ends(content, x) <=> AtEnd \/ Item.kind = "footer"
         /\ ~ AtEnd => content[x.file][x.next] = Item
<1>1. Met \in SUBSET File
  BY FilesKnown DEF Met
<1>2. Input.file \in File /\ Input.next \in Nat \ {0} /\ Input = inputs[Len(inputs)]
      /\ Len(inputs) \in 1 .. Len(inputs)
  BY CurrentInput
<1>3. Input.file \in Met
  BY <1>2 DEF RInv, Registered, Met
<1>4. x \in Spots /\ x.file = Input.file /\ x.next = Input.next /\ x.seen = Met
  BY <1>1, <1>2, FromSpot
<1>5. content[x.file][x.next] = Item
  BY <1>4 DEF Item
<1>6. Ends(content, x) <=> AtEnd \/ Item.kind = "footer"
  BY <1>4, <1>5 DEF Ends, AtEnd
<1> QED
  BY <1>1, <1>2, <1>3, <1>4, <1>5, <1>6

\* The files that are known.
LEMMA KnownMet ==
  ASSUME RInv, NEW f
  PROVE  Known(f) # {} <=> f \in Met
<1>1. DOMAIN finfo = 1 .. Len(finfo)
  BY LenProperties DEF RInv, TypeOK
<1> QED
  BY <1>1 DEF Known, Met

\* What is met first at the place of reading.
LEMMA MetHere ==
  ASSUME RInv, inputs # <<>>, ~ AtEnd, NEW x, x = From(Input.file, Input.next, Met)
  PROVE  /\ Item.kind # "import" => FirstMet(content, x) = {}
         /\ Item.kind = "import" =>
              FirstMet(content, x) = {g \in File : g \notin Met /\ Located(Item.path) = g}
<1>1. /\ x.file = Input.file /\ x.seen = Met /\ content[x.file][x.next] = Item
      /\ Input.file \in File /\ Input.next \in Nat \ {0} /\ Met \in SUBSET File
  BY SpotRead
<1>2. FirstMet(content, x) =
        {f \in File \ Met : Item.kind = "import" /\ Leads(Input.file, Item.path, f)}
  BY <1>1 DEF FirstMet
<1>3. Item.kind = "import" => Item.path \in Path
  <2> DEFINE f == Input.file
             k == Input.next
  <2>1. f \in File /\ k \in Nat \ {0} /\ content \in Contents /\ ~ (k > Len(content[f])) /\ Item = content[f][k]
    BY <1>1 DEF RInv, TypeOK, AtEnd, Item
  <2>2. k \in 1 .. Len(content[f])
    BY <2>1, ContentsAssumption
  <2> HIDE DEF f, k
  <2> QED
    BY <2>1, <2>2, ContentsAssumption
<1>4. CASE Item.kind = "import"
  <2>1. \A f \in File : Leads(Input.file, Item.path, f) <=> Located(Item.path) = f
    BY <1>1, <1>3, <1>4, LeadsLocated
  <2> QED
    BY <1>2, <1>4, <2>1
<1>5. CASE Item.kind # "import"
  BY <1>2, <1>5
<1> QED
  BY <1>4, <1>5

-----------------------------------------------------------------------------
(* Steps.                                                                   *)

LEMMA MetStays ==
  ASSUME Len(finfo') = Len(finfo), \A k \in 1 .. Len(finfo) : finfo'[k].file = finfo[k].file
  PROVE  Met' = Met
BY DEF Met

\* What has been read is a result.
LEMMA ReadSoFar ==
  ASSUME RInv, InPlace
  PROVE  Read(rules, Met) \in Results /\ rules \in Seq(File \X Nat)
<1>1. PICK c : Chain(c, content, inputs, rules, Met)
  BY DEF InPlace
<1>2. Len(inputs) \in Nat
  BY FilesKnown
<1>3. Read(rules, Met) \in Results
  BY <1>1, <1>2 DEF Chain
<1> QED
  BY <1>3 DEF Read, Results

\* What the current input has to come, in front of an item.
LEMMA ComeHere ==
  ASSUME RInv, InPlace, inputs # <<>>, ~ AtEnd, Item.kind # "footer",
         FirstMet(content, From(Input.file, Input.next, Met)) = {},
         NEW done, done = IF Item.kind = "rule" THEN Append(rules, Place) ELSE rules,
         NEW in, in.file = Input.file, in.next = Input.next + 1
  PROVE  /\ Read(done, Met) \in Results
         /\ Come(content, in, Read(done, Met)) = Come(content, Input, Read(rules, Met))
<1> DEFINE c == Read(rules, Met)
           x == From(Input.file, Input.next, Met)
           f == Input.file
           k == Input.next
           h == Here(content, x)
<1>1. /\ x.file = f /\ x.next = k /\ f \in Met /\ f \in File /\ k \in Nat \ {0}
      /\ ~ Ends(content, x) /\ content[x.file][x.next] = Item
      /\ Met \in SUBSET File
  BY SpotRead
<1>2. c \in Results /\ c.seen = Met /\ c.rules = rules /\ rules \in Seq(File \X Nat)
  BY ReadSoFar DEF Read
<1>3. content \in Contents
  BY DEF RInv, TypeOK
<1>4. Then(c, Expansion(content)[From(f, k, c.seen)]) =
        Then([c EXCEPT !.rules = @ \o Here(content, From(f, k, c.seen))],
             Expansion(content)[From(f, k + 1, c.seen)])
  BY <1>1, <1>2, <1>3, ItemComes
<1>5. h = IF Item.kind = "rule" THEN <<Place>> ELSE <<>>
  BY <1>1 DEF Here, Place
<1>6. rules \o h = done /\ done \in Seq(File \X Nat)
  <2>1. CASE Item.kind = "rule"
    <3>1. Place \in File \X Nat
      BY CurrentInput
    <3> QED
      BY <1>2, <1>5, <2>1, <3>1, AppendIsConcat, AppendProperties
  <2>2. CASE Item.kind # "rule"
    BY <1>2, <1>5, <2>2, ConcatEmptySeq
  <2> QED
    BY <2>1, <2>2
<1>7. Read(done, Met) \in Results
  BY <1>1, <1>6, ReadResult
<1>8. [c EXCEPT !.rules = @ \o h] = Read(done, Met)
  <2>1. c = [rules |-> rules, seen |-> Met]
    BY DEF Read
  <2>2. c \in [rules : Seq(File \X Nat), seen : SUBSET File] /\ c.rules = rules /\ c.seen = Met
    BY <1>2 DEF Results
  <2> HIDE DEF c, h
  <2> DEFINE r == c.rules \o h
  <2>3. r = done
    BY <1>6, <2>2, Zenon
  <2> HIDE DEF r
  <2>4. [c EXCEPT !.rules = r] = [rules |-> r, seen |-> c.seen]
    <3>1. \A q : [c EXCEPT !.rules = q] = [rules |-> q, seen |-> c.seen]
      BY <2>2
    <3> QED
      BY <3>1
  <2>5. [c EXCEPT !.rules = @ \o h] = [c EXCEPT !.rules = r]
    BY DEF r
  <2> QED
    BY <2>2, <2>3, <2>4, <2>5 DEF Read
<1>9. From(f, k, c.seen) = x
  BY <1>2
<1>10. Come(content, Input, c) = Then(c, Expansion(content)[From(f, k, c.seen)])
  BY DEF Come
<1>11. Come(content, in, Read(done, Met)) =
         Then(Read(done, Met), Expansion(content)[From(f, k + 1, Met)])
  BY DEF Come, Read
<1> HIDE DEF x, h, c
<1>12. Come(content, Input, c) = Then(Read(done, Met), Expansion(content)[From(f, k + 1, Met)])
  BY <1>2, <1>4, <1>8, <1>9, <1>10 DEF h
<1> QED
  BY <1>7, <1>11, <1>12 DEF c

\* A step of the current input after which as much is to come as before.
LEMMA PlaceBecomes ==
  ASSUME RInv, InPlace, inputs # <<>>, NEW in \in Inputs, NEW n, Becomes(in, n), Met' = Met,
         Read(rules', Met) \in Results,
         Come(content, in, Read(rules', Met)) = Come(content, Input, Read(rules, Met))
  PROVE  InPlace'
<1> DEFINE N == Len(inputs)
<1>1. inputs' = Append(Front(inputs), in) /\ content' = content
  BY DEF Becomes
<1>2. /\ Len(inputs') = N /\ inputs'[N] = in
      /\ \A j \in 1 .. N - 1 : inputs'[j] = inputs[j]
  BY <1>1, InputReplaced
<1>3. N \in Nat \ {0} /\ Input = inputs[N]
  BY CurrentInput
<1>4. PICK c : Chain(c, content, inputs, rules, Met)
  BY DEF InPlace
<1> HIDE DEF N
<1>5. Len(inputs) = N
  BY DEF N
<1>6. \E d : Chain(d, content, inputs', rules', Met)
  BY <1>2, <1>3, <1>4, <1>5, ChainReplaced
<1> QED
  BY <1>1, <1>6 DEF InPlace

\* An item is passed.
LEMMA PlacePasses ==
  ASSUME RInv, InPlace, inputs # <<>>, NEW in \in Inputs, NEW n, Becomes(in, n), Met' = Met,
         ~ AtEnd, Item.kind # "footer",
         FirstMet(content, From(Input.file, Input.next, Met)) = {},
         rules' = IF Item.kind = "rule" THEN Append(rules, Place) ELSE rules,
         in.file = Input.file, in.next = Input.next + 1
  PROVE  InPlace'
<1>1. /\ Read(rules', Met) \in Results
      /\ Come(content, in, Read(rules', Met)) = Come(content, Input, Read(rules, Met))
  BY ComeHere
<1> QED
  BY <1>1, PlaceBecomes

\* The inputs behind an item.
LEMMA PassedBehind ==
  ASSUME RInv, inputs # <<>>, NEW legal \in BOOLEAN, NEW n \in Nat, NEW a \in Int
  PROVE  /\ Passed(legal, n) \in Inputs /\ Passed(legal, n).file = Input.file
         /\ Passed(legal, n).next = Input.next + 1
         /\ [Passed(legal, n) EXCEPT !.about = a] \in Inputs
         /\ [Passed(legal, n) EXCEPT !.about = a].file = Input.file
         /\ [Passed(legal, n) EXCEPT !.about = a].next = Input.next + 1
<1> DEFINE p == Passed(legal, n)
           in == [p EXCEPT !.about = a]
<1>1. p \in Inputs /\ p.file = Input.file /\ p.next = Input.next + 1
  <2>1. p \in Inputs /\ p.file = Input.file
    BY PassedInput
  <2>2. Input \in Inputs
    BY CurrentInput
  <2> QED
    BY <2>1, <2>2 DEF Passed, Inputs
<1> HIDE DEF p
<1>2. in \in Inputs /\ in.file = p.file /\ in.next = p.next
  BY <1>1 DEF Inputs
<1> QED
  BY <1>1, <1>2 DEF p

\* The files of the entries stay the same, whatever version is declared.
LEMMA MetAtVersion ==
  ASSUME RInv, ReadVersion
  PROVE  Met' = Met
<1>1. inputs # <<>> /\ Item.version \in Version
  BY ReadsItem, ItemRead DEF ReadVersion
<1>2. CASE finfo' = finfo
  BY <1>2 DEF Met
<1>3. CASE finfo' = [finfo EXCEPT ![Info].version = Item.version]
  <2> DEFINE e == [finfo[Info] EXCEPT !.version = Item.version]
  <2>1. finfo \in Seq(Infos) /\ Info \in 1 .. Len(finfo) /\ finfo[Info] \in Infos
    BY <1>1, InfoEntry, ElementOfSeq DEF RInv, TypeOK
  <2>2. e \in Infos /\ e.file = finfo[Info].file
    BY <1>1, <2>1 DEF Infos
  <2>3. finfo' = [finfo EXCEPT ![Info] = e]
    BY <1>3
  <2> HIDE DEF e
  <2>4. /\ Len(finfo') = Len(finfo)
        /\ \A k \in 1 .. Len(finfo) : finfo'[k] = IF k = Info THEN e ELSE finfo[k]
    BY <2>1, <2>2, <2>3, ExceptSeq, LenProperties
  <2>5. \A k \in 1 .. Len(finfo) : finfo'[k].file = finfo[k].file
    BY <2>2, <2>4
  <2> QED
    BY <2>4, <2>5, MetStays
<1> QED
  BY <1>2, <1>3 DEF ReadVersion

\* What an %import directive meets that fails or names a file met before.
LEMMA NothingMet ==
  ASSUME RInv, ImportFails \/ ImportAgain
  PROVE  FirstMet(content, From(Input.file, Input.next, Met)) = {}
<1>1. inputs # <<>> /\ ~ AtEnd /\ Item.kind = "import"
  BY ReadsItem DEF ImportFails, ImportAgain
<1>2. FirstMet(content, From(Input.file, Input.next, Met)) =
        {g \in File : g \notin Met /\ Located(Item.path) = g}
  BY <1>1, MetHere
<1>3. CASE ImportFails
  <2>1. Located(Item.path) \notin File
    BY <1>3, ReadingAssumption DEF ImportFails
  <2> QED
    BY <1>2, <2>1
<1>4. CASE ImportAgain
  <2>1. Located(Item.path) \in Met
    BY <1>4, KnownMet DEF ImportAgain
  <2> QED
    BY <1>2, <2>1
<1> QED
  BY <1>3, <1>4

\* A file is met first, and its text stands where the directive is.
LEMMA PlaceImport ==
  ASSUME RInv, InPlace, Import
  PROVE  InPlace'
<1> DEFINE N == Len(inputs)
           F == Len(finfo)
           f == Input.file
           k == Input.next
           g == Located(Item.path)
           a == [Passed(TRUE, 0) EXCEPT !.about = New]
           b == Create(g)
           e == [file |-> g, version |-> NULL]
           c == Read(rules, Met)
           files == Met \cup {g}
           d == Then(c, Expansion(content)[From(g, 1, files)])
           x == From(f, k, Met)
<1>1. inputs # <<>> /\ ~ AtEnd /\ Item.kind = "import" /\ g \in File /\ Known(g) = {}
  BY ReadsItem DEF Import
<1>2. /\ inputs' = Front(inputs) \o <<a, b>> /\ finfo' = Append(finfo, e)
      /\ content' = content /\ rules' = rules
  BY DEF Import
<1>3. F \in Nat /\ New \in Int /\ finfo \in Seq(Infos)
  BY LenProperties DEF New, RInv, TypeOK
<1>4. a \in Inputs /\ a.file = f /\ a.next = k + 1
  BY <1>1, <1>3, PassedBehind
<1>5. b \in Inputs /\ b.file = g /\ b.next = 1
  BY <1>1 DEF Create, Inputs, NOTHING
<1>6. e \in Infos /\ e.file = g
  BY <1>1 DEF Infos, Version, NULL
<1>7. /\ x.file = f /\ x.next = k /\ x.seen = Met /\ f \in Met /\ f \in File /\ k \in Nat \ {0}
      /\ (Ends(content, x) <=> AtEnd \/ Item.kind = "footer") /\ content[f][k] = Item
      /\ Met \in SUBSET File
  BY <1>1, SpotRead DEF Item
<1>8. FirstMet(content, x) = {g}
  <2>1. FirstMet(content, x) = {y \in File : y \notin Met /\ g = y}
    BY <1>1, MetHere
  <2>2. g \notin Met
    BY <1>1, KnownMet
  <2> HIDE DEF g, x
  <2> QED
    BY <1>1, <2>1, <2>2
<1>9. c \in Results /\ c.seen = Met /\ rules \in Seq(File \X Nat) /\ c.rules = rules
  BY ReadSoFar DEF Read
<1>10. content \in Contents
  BY DEF RInv, TypeOK
<1> HIDE DEF g, a, b, e
<1>11. /\ Len(inputs') = N + 1 /\ inputs'[N] = a /\ inputs'[N + 1] = b
       /\ \A j \in 1 .. N - 1 : inputs'[j] = inputs[j]
  BY <1>1, <1>2, <1>4, <1>5, InputPushed
<1>12. Met' = files
  <2>1. /\ Len(finfo') = F + 1 /\ finfo'[F + 1] = e
        /\ \A j \in 1 .. F : finfo'[j] = finfo[j]
    BY <1>2, <1>3, <1>6, AppendProperties
  <2>2. \A j \in 1 .. F + 1 : j = F + 1 \/ j \in 1 .. F
    BY <1>3
  <2>3. \A j \in 1 .. F : j \in 1 .. F + 1
    BY <1>3
  <2>4. F + 1 \in 1 .. F + 1
    BY <1>3
  <2> QED
    BY <1>6, <2>1, <2>2, <2>3, <2>4 DEF Met
<1>13. N \in Nat \ {0} /\ Input = inputs[N]
  BY <1>1, CurrentInput
<1>14. /\ ~ Ends(content, From(f, k, c.seen)) /\ content[f][k].kind # "rule"
       /\ FirstMet(content, From(f, k, c.seen)) = {g}
       /\ d = Then(c, Expansion(content)[From(g, 1, c.seen \cup {g})])
  BY <1>1, <1>7, <1>8, <1>9
<1> HIDE DEF c, d, x
<1>15. /\ d \in Results
       /\ Then(c, Expansion(content)[From(f, k, c.seen)]) =
            Then(d, Expansion(content)[From(f, k + 1, d.seen)])
  BY <1>7, <1>9, <1>10, <1>14, ImportComes
<1>16. Come(content, a, d) = Come(content, Input, c)
  BY <1>4, <1>15 DEF Come
<1>17. Read(rules, files) \in Results
  BY <1>1, <1>7, <1>9, ReadResult
<1>18. d = Come(content, b, Read(rules, files))
  <2>1. Then(c, Expansion(content)[From(g, 1, files)]) =
          Then(Read(rules, files), Expansion(content)[From(g, 1, files)])
    BY <1>9 DEF Then, Read
  <2>2. Read(rules, files).seen = files
    BY DEF Read
  <2> QED
    BY <1>5, <2>1, <2>2 DEF Come, d
<1>19. PICK z : Chain(z, content, inputs, rules, Met)
  BY DEF InPlace
<1> HIDE DEF N, files
<1>20. Len(inputs) = N
  BY DEF N
<1>21. \E y : Chain(y, content, inputs', rules, files)
  <2>1. Come(content, inputs'[N], d) = Come(content, inputs[N], Read(rules, Met))
    BY <1>11, <1>13, <1>16 DEF c
  <2>2. d = Come(content, inputs'[N + 1], Read(rules, files))
    BY <1>11, <1>18
  <2> QED
    BY <1>11, <1>13, <1>15, <1>17, <1>19, <1>20, <2>1, <2>2, ChainPushed
<1> QED
  BY <1>2, <1>12, <1>21 DEF InPlace

\* A file that ends has nothing to come.
LEMMA PlaceEnds ==
  ASSUME RInv, InPlace, EndFile
  PROVE  InPlace'
<1> DEFINE N == Len(inputs)
           c == Read(rules, Met)
           f == Input.file
           k == Input.next
<1>1. /\ inputs # <<>> /\ (AtEnd \/ Comes("footer")) /\ inputs' = Front(inputs)
      /\ content' = content /\ finfo' = finfo /\ rules' = rules
  BY DEF EndFile
<1>2. inputs \in Seq(Inputs) /\ content \in Contents
  BY DEF RInv, TypeOK
<1>3. Len(inputs') = N - 1 /\ \A j \in 1 .. N - 1 : inputs'[j] = inputs[j]
  BY <1>1, <1>2, FrontOf
<1>4. N \in Nat \ {0} /\ Input = inputs[N]
  BY <1>1, CurrentInput
<1>5. c \in Results /\ c.seen = Met
  BY ReadSoFar DEF Read
<1>6. /\ f \in Met /\ f \in File /\ k \in Nat \ {0}
      /\ Ends(content, From(f, k, Met))
  BY <1>1, SpotRead DEF Comes
<1> HIDE DEF c
<1>7. Then(c, Expansion(content)[From(f, k, c.seen)]) = c
  BY <1>2, <1>5, <1>6, EndComes
<1>8. Come(content, Input, c) = c
  BY <1>7 DEF Come
<1>9. PICK z : Chain(z, content, inputs, rules, Met)
  BY DEF InPlace
<1>10. Met' = Met
  BY <1>1 DEF Met
<1> HIDE DEF N
<1>11. Len(inputs) = N
  BY DEF N
<1>12. \E y : Chain(y, content, inputs', rules, Met)
  BY <1>3, <1>4, <1>8, <1>9, <1>11, ChainPopped DEF c
<1> QED
  BY <1>1, <1>10, <1>12 DEF InPlace

LEMMA InitPlace ==
  ASSUME Init
  PROVE  InPlace
<1> DEFINE b == Create(Root)
           e == [file |-> Root, version |-> NULL]
           F == Expansion(content)
           r == Read(<<>>, {Root})
           x == From(Root, 1, {Root})
           c == [k \in 0 .. 1 |-> IF k = 1 THEN r ELSE Then(r, F[x])]
<1>1. inputs = <<b>> /\ finfo = <<e>> /\ rules = <<>> /\ content \in Contents
  BY DEF Init
<1>2. b.file = Root /\ b.next = 1 /\ e.file = Root
  BY DEF Create
<1> HIDE DEF b, e
<1>3. Len(inputs) = 1 /\ inputs[1] = b /\ Len(finfo) = 1 /\ finfo[1] = e
  BY <1>1
<1>4. Met = {Root}
  <2>1. \A k \in 1 .. 1 : k = 1
    OBVIOUS
  <2> QED
    BY <1>2, <1>3, <2>1 DEF Met
<1>5. r \in Results /\ r.rules = <<>> /\ r.seen = {Root}
  <2>1. <<>> \in Seq(File \X Nat) /\ {Root} \in SUBSET File
    BY ReadingAssumption
  <2> QED
    BY <2>1, ReadResult DEF Read
<1>6. F[x] \in Results
  <2>1. Root \in File /\ 1 \in Nat \ {0}
    BY ReadingAssumption
  <2> QED
    BY <1>1, <1>5, <2>1, ComeResult
<1> HIDE DEF r, F
<1>7. Then(r, F[x]) \in Results /\ Then(r, F[x]).rules = F[x].rules
  <2>1. <<>> \o F[x].rules = F[x].rules
    BY <1>6, ConcatEmptySeq DEF Results
  <2> QED
    BY <1>5, <1>6, <2>1, ThenResult DEF Then
<1>8. Come(content, b, r) = Then(r, F[x])
  BY <1>2, <1>5 DEF Come, F
<1> HIDE DEF x
<1>9. c \in [0 .. 1 -> Results] /\ c[1] = r /\ c[0] = Then(r, F[x])
  BY <1>5, <1>7
<1> HIDE DEF c
<1>10. \A k \in 1 .. 1 : c[k - 1] = Come(content, inputs[k], c[k])
  <2>1. \A k \in 1 .. 1 : k = 1 /\ k - 1 = 0
    OBVIOUS
  <2> QED
    BY <1>3, <1>8, <1>9, <2>1
<1>11. Chain(c, content, inputs, rules, Met)
  BY <1>1, <1>3, <1>4, <1>7, <1>9, <1>10 DEF Chain, r, F, x
<1> QED
  BY <1>11 DEF InPlace

\* Every step keeps it.
LEMMA NextPlace ==
  ASSUME RInv, InPlace, [Next]_vars
  PROVE  InPlace'
<1>1. CASE UNCHANGED vars
  <2>1. content' = content /\ inputs' = inputs /\ finfo' = finfo /\ rules' = rules
    BY <1>1 DEF vars
  <2>2. Met' = Met
    BY <2>1 DEF Met
  <2> QED
    BY <2>1, <2>2 DEF InPlace
<1> TRUE \in BOOLEAN /\ FALSE \in BOOLEAN /\ 0 \in Nat /\ 1 \in Nat /\ 0 \in Int /\ PACKCC \in Int
  BY DEF PACKCC
<1>2. ASSUME ~ AtEnd, inputs # <<>>, Item.kind # "footer",
             rules' = IF Item.kind = "rule" THEN Append(rules, Place) ELSE rules,
             FirstMet(content, From(Input.file, Input.next, Met)) = {}, Met' = Met,
             NEW legal \in BOOLEAN, NEW n \in Nat, NEW m, Becomes(Passed(legal, n), m)
      PROVE  InPlace'
  <2> DEFINE in == Passed(legal, n)
  <2>1. in \in Inputs /\ in.file = Input.file /\ in.next = Input.next + 1 /\ Becomes(in, m)
    BY <1>2, PassedBehind
  <2> HIDE DEF in
  <2> QED
    BY <1>2, <2>1, PlacePasses
<1>3. ASSUME ~ AtEnd, inputs # <<>>, Item.kind \notin {"rule", "footer"}, rules' = rules,
             FirstMet(content, From(Input.file, Input.next, Met)) = {}, Met' = Met,
             NEW a \in Int, Becomes([Passed(TRUE, 0) EXCEPT !.about = a], 0)
      PROVE  InPlace'
  <2> DEFINE in == [Passed(TRUE, 0) EXCEPT !.about = a]
  <2>1. in \in Inputs /\ in.file = Input.file /\ in.next = Input.next + 1 /\ Becomes(in, 0)
    BY <1>3, PassedBehind
  <2> HIDE DEF in
  <2> QED
    BY <1>3, <2>1, PlacePasses
<1>4. inputs # <<>> /\ ~ AtEnd /\ Item.kind # "import" =>
        FirstMet(content, From(Input.file, Input.next, Met)) = {}
  BY MetHere
<1>5. finfo' = finfo => Met' = Met
  BY DEF Met
<1>6. CASE ReadRule
  <2>1. /\ inputs # <<>> /\ ~ AtEnd /\ Item.kind = "rule" /\ finfo' = finfo
        /\ rules' = Append(rules, Place) /\ Becomes(Passed(TRUE, Item.faults), Item.faults)
    BY <1>6, ReadsItem DEF ReadRule
  <2>2. Item.faults \in Nat
    BY <2>1, ItemRead
  <2> QED
    BY <1>2, <1>4, <1>5, <2>1, <2>2
<1>7. CASE ReadIllegal
  <2>1. /\ inputs # <<>> /\ ~ AtEnd /\ Item.kind \in {"illegal", "constraints"}
        /\ finfo' = finfo /\ rules' = rules
    BY <1>7, ReadsItem DEF ReadIllegal
  <2>2. PICK n \in Nat : Becomes(Passed(FALSE, n), n)
    BY <1>7 DEF ReadIllegal
  <2> QED
    BY <1>2, <1>4, <1>5, <2>1, <2>2
<1>8. CASE ReadUnknown \/ ReadMarker \/ ReadSetting
  <2>1. /\ inputs # <<>> /\ ~ AtEnd /\ Item.kind \in {"unknown", "marker", "setting"}
        /\ finfo' = finfo /\ rules' = rules
    BY <1>8, ReadsItem DEF ReadUnknown, ReadMarker, ReadSetting
  <2>2. Becomes(Passed(TRUE, 0), 0) \/ Becomes(Passed(TRUE, 1), 1)
    BY <1>8 DEF ReadUnknown, ReadMarker, ReadSetting
  <2> QED
    BY <1>2, <1>4, <1>5, <2>1, <2>2
<1>9. CASE ReadVersion
  <2>1. inputs # <<>> /\ ~ AtEnd /\ Item.kind = "version" /\ rules' = rules
    BY <1>9, ReadsItem DEF ReadVersion
  <2>2. Becomes(Passed(TRUE, 0), 0) \/ Becomes(Passed(TRUE, 1), 1)
    BY <1>9 DEF ReadVersion
  <2> QED
    BY <1>2, <1>4, <1>9, <2>1, <2>2, MetAtVersion
<1>10. CASE ReadRequires
  <2>1. inputs # <<>> /\ ~ AtEnd /\ Item.kind = "requires" /\ finfo' = finfo /\ rules' = rules
    BY <1>10, ReadsItem DEF ReadRequires
  <2>2. \/ Becomes([Passed(TRUE, 0) EXCEPT !.about = PACKCC], 0)
        \/ Becomes(Passed(TRUE, 1), 1)
    BY <1>10 DEF ReadRequires
  <2> QED
    BY <1>2, <1>3, <1>4, <1>5, <2>1, <2>2
<1>11. CASE ImportFails
  <2>1. /\ inputs # <<>> /\ ~ AtEnd /\ Item.kind = "import" /\ finfo' = finfo /\ rules' = rules
        /\ Becomes(Passed(TRUE, 1), 1)
    BY <1>11, ReadsItem DEF ImportFails
  <2> QED
    BY <1>2, <1>5, <1>11, <2>1, NothingMet
<1>12. CASE ImportAgain
  <2> DEFINE a == Min(Known(Located(Item.path)))
  <2>1. /\ inputs # <<>> /\ ~ AtEnd /\ Item.kind = "import" /\ finfo' = finfo /\ rules' = rules
        /\ Known(Located(Item.path)) # {}
    BY <1>12, ReadsItem DEF ImportAgain
  <2>2. Len(finfo) \in Nat /\ a \in 1 .. Len(finfo)
    BY <2>1, KnownEntry, LenProperties DEF RInv, TypeOK
  <2>3. a \in Int /\ Becomes([Passed(TRUE, 0) EXCEPT !.about = a], 0)
    BY <1>12, <2>2 DEF ImportAgain
  <2> HIDE DEF a
  <2> QED
    BY <1>3, <1>5, <1>12, <2>1, <2>3, NothingMet
<1>13. CASE Import
  BY <1>13, PlaceImport
<1>14. CASE CheckVersion
  <2>1. /\ inputs # <<>> /\ ~ AtEnd /\ Item.kind = "constraints"
        /\ finfo' = finfo /\ rules' = rules
    BY <1>14 DEF CheckVersion, Comes
  <2>2. PICK rest \in Behind : Becomes(Passed(TRUE, Violated(rest)), Violated(rest))
    BY <1>14 DEF CheckVersion
  <2>3. Violated(rest) \in Nat
    BY <2>1, ItemRead DEF Violated
  <2> QED
    BY <1>2, <1>4, <1>5, <2>1, <2>2, <2>3
<1>15. CASE NoConstraints
  <2> DEFINE n == IF Input.about = PACKCC THEN 1 ELSE 0
             q == Input
             in == [q EXCEPT !.about = NOTHING, !.errnum = @ + n]
  <2>1. inputs # <<>> /\ finfo' = finfo /\ rules' = rules /\ Becomes(in, n)
    BY <1>15 DEF NoConstraints
  <2>2. q \in Inputs /\ n \in Nat
    BY <2>1, CurrentInput
  <2> HIDE DEF q, n
  <2>3. in = [file |-> q.file, next |-> q.next, legal |-> q.legal,
              errnum |-> q.errnum + n, about |-> 0]
    <3>1. in = [q EXCEPT !.about = 0, !.errnum = @ + n]
      BY DEF NOTHING
    <3> HIDE DEF in
    <3> QED
      BY <2>2, <3>1 DEF Inputs
  <2> HIDE DEF in
  <2>4. in \in Inputs /\ in.file = q.file /\ in.next = q.next
    BY <2>2, <2>3 DEF Inputs
  <2>5. Come(content, in, Read(rules, Met)) = Come(content, Input, Read(rules, Met))
    BY <2>4 DEF Come, q
  <2>6. Read(rules, Met) \in Results
    BY ReadSoFar
  <2> QED
    BY <1>5, <2>1, <2>4, <2>5, <2>6, PlaceBecomes
<1>16. CASE EndFile
  BY <1>16, PlaceEnds
<1>17. CASE Done
  BY <1>1, <1>17 DEF Done
<1> QED
  BY <1>1, <1>6, <1>7, <1>8, <1>9, <1>10, <1>11, <1>12, <1>13, <1>14, <1>15, <1>16, <1>17 DEF Next

\* The rules are in the order of the text in which each %import is replaced with the
\* file where it is met first (parse_file_, parse_directive_import_), however files
\* import one another, and so is the rule that the parser starts from.
THEOREM ImportsExpanded == Spec => []ExpandedInPlace
<1>1. RInv /\ InPlace /\ [Next]_vars => InPlace'
  BY NextPlace
<1>2. InPlace => ExpandedInPlace
  <2> SUFFICES ASSUME InPlace, inputs = <<>> PROVE rules = Expansion(content)[From(Root, 1, {Root})].rules
    BY DEF ExpandedInPlace
  <2>1. PICK c : Chain(c, content, inputs, rules, Met)
    BY DEF InPlace
  <2>2. Len(inputs) = 0
    OBVIOUS
  <2> QED
    BY <2>1, <2>2 DEF Chain, Read
<1> QED
  BY <1>1, <1>2, InitPlace, ReadingInvariant, PTL DEF Spec
=============================================================================
