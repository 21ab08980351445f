---------------------------- MODULE DecoderProofs ----------------------------
(***************************************************************************)
(* Theorems about the decoders, NetFlowDecode and SFlowDecode, for         *)
(* datagrams, templates, samples and declared lengths of any size.         *)
(*                                                                         *)
(* The walk over the flow sets of NetFlow does not depend on what is read  *)
(* inside the sets, so WalkTypeOK leaves their variables out.              *)
(* MessageEndsAtItsLength rests on WithinSize: every set was begun within  *)
(* the declared size, in the arithmetic of uint16, which is exact because  *)
(* a datagram is shorter than 2^16.                                        *)
(*                                                                         *)
(* Inside the sets the sizes are sums over the fields of a template. That  *)
(* Sum adds up numbers is proved by induction; on it rest the types of all *)
(* variables, the packing of fixed records and the measure that falls in   *)
(* every step.                                                             *)
(*                                                                         *)
(* For sFlow, WorkIsBoundedByBytes needs the types, for lengths are not    *)
(* negative, and that nothing is left of a sample when a datagram begins;  *)
(* the alignment of the samples holds inside a sample as well as between.  *)
(***************************************************************************)
EXTENDS NetFlowDecode, SFlowDecode, NumberLemmas, SequenceTheorems, TLAPS

WalkTypeOK ==
  /\ version \in {9, 10}
  /\ msg \in [declared : 0 .. Word - 1, start : 0 .. MaxBytes, left : 0 .. MaxBytes,
              taken : Nat, sum : Nat, begin : 0 .. MaxBytes]
  /\ msg.left <= msg.start

Aligned == msg.start - msg.left = Least(msg.start, msg.sum)

WithinSize ==
  /\ version = 9 => msg.taken <= Size
  /\ version = 10 => (msg.taken > 0 => msg.begin < Size)

IInv == WalkTypeOK /\ Aligned /\ WithinSize

-----------------------------------------------------------------------------
\* What uint16 makes of the numbers that occur: Length less the header, and the
\* bytes read so far.
LEMMA Wrap ==
  ASSUME NEW n \in Int, -16 <= n, n < Word
  PROVE  n % Word = IF n < 0 THEN n + Word ELSE n
  BY DecodeAssumption DEF DecodeAssumption

\* The size the loop compares, for a declared length of either version.
LEMMA SizeValue ==
  ASSUME WalkTypeOK
  PROVE  Size = IF version = 9 THEN msg.declared
                ELSE IF msg.declared < 16 THEN msg.declared - 16 + Word
                ELSE msg.declared - 16
<1>1. msg.declared \in 0 .. Word - 1 /\ Word \in Nat
  BY DecodeAssumption DEF DecodeAssumption, WalkTypeOK
<1>2. msg.declared - 16 \in Int /\ -16 <= msg.declared - 16 /\ msg.declared - 16 < Word
  BY <1>1
<1> QED
  BY <1>1, <1>2, Wrap DEF Size

\* The condition of the loop over flow sets without the wrap of uint16.
LEMMA MoreValue ==
  ASSUME WalkTypeOK
  PROVE  More <=> /\ msg.left > 0
                  /\ IF version = 9 THEN msg.taken < Size ELSE msg.start - msg.left < Size
<1>1. msg.start - msg.left \in 0 .. MaxBytes
  BY DecodeAssumption DEF DecodeAssumption, WalkTypeOK
<1>2. (msg.start - msg.left) % Word = msg.start - msg.left
  BY <1>1, Wrap, DecodeAssumption DEF DecodeAssumption
<1> QED
  BY <1>2 DEF More

-----------------------------------------------------------------------------
\* A message that begins, and that of a decoder without one.
LEMMA MessageKeeps ==
  ASSUME NEW d \in 0 .. Word - 1, NEW n \in 0 .. MaxBytes,
         msg' = Message(d, n), version' \in {9, 10}
  PROVE  IInv'
<1>1. /\ msg'.declared = d /\ msg'.start = n /\ msg'.left = n /\ msg'.taken = 0
      /\ msg'.sum = 0 /\ msg'.begin = 0
  BY DEF Message
<1>2. WalkTypeOK'
  BY DecodeAssumption DEF DecodeAssumption, WalkTypeOK, Message
<1>3. Aligned'
  BY <1>1, DecodeAssumption DEF DecodeAssumption, Aligned, Least
<1>4. WithinSize'
  BY <1>1 DEF WithinSize, Size
<1> QED
  BY <1>2, <1>3, <1>4 DEF IInv

\* No message has been begun.
LEMMA Initially == Init => IInv
<1> SUFFICES ASSUME Init PROVE IInv
  OBVIOUS
<1>1. /\ msg.declared = 0 /\ msg.start = 0 /\ msg.left = 0 /\ msg.taken = 0
      /\ msg.sum = 0 /\ msg.begin = 0 /\ version \in {9, 10}
  BY DEF Init, Message
<1>2. WalkTypeOK
  BY DecodeAssumption DEF DecodeAssumption, WalkTypeOK, Init, Message
<1>3. Aligned
  BY <1>1 DEF Aligned, Least
<1>4. WithinSize
  BY <1>1 DEF WithinSize, Size
<1> QED
  BY <1>2, <1>3, <1>4 DEF IInv

\* Reading a flow set's header begins it within the size.
LEMMA TakeFlowSetKeeps ==
  ASSUME IInv, NEW length \in SetLengths, TakeFlowSet(length)
  PROVE  IInv'
<1> DEFINE left == Monus(msg.left, length)
<1>1. length \in Nat /\ length >= 4
  BY DecodeAssumption DEF DecodeAssumption, TakeFlowSet
<1>2. msg \in [declared : 0 .. Word - 1, start : 0 .. MaxBytes, left : 0 .. MaxBytes,
               taken : Nat, sum : Nat, begin : 0 .. MaxBytes]
  BY DEF IInv, WalkTypeOK
<1>3. left \in 0 .. MaxBytes /\ left <= msg.left /\ msg.start - msg.left \in 0 .. MaxBytes
  BY <1>1, <1>2, DecodeAssumption DEF DecodeAssumption, Monus, IInv, WalkTypeOK
<1>4. msg.taken + 1 \in Nat /\ msg.sum + length \in Nat
  BY <1>1, <1>2
<1>5. msg' = [msg EXCEPT !.left = left, !.begin = msg.start - msg.left,
                         !.taken = @ + 1, !.sum = @ + length]
  BY DEF TakeFlowSet
<1>6. /\ msg'.declared = msg.declared /\ msg'.start = msg.start /\ msg'.left = left
      /\ msg'.taken = msg.taken + 1 /\ msg'.sum = msg.sum + length
      /\ msg'.begin = msg.start - msg.left
  BY <1>2, <1>5
<1>7. WalkTypeOK'
  <2>1. msg' \in [declared : 0 .. Word - 1, start : 0 .. MaxBytes, left : 0 .. MaxBytes,
                  taken : Nat, sum : Nat, begin : 0 .. MaxBytes]
    BY <1>2, <1>3, <1>4, <1>5
  <2> QED
    BY <1>2, <1>3, <1>6, <2>1 DEF IInv, WalkTypeOK, TakeFlowSet
<1>8. Aligned'
  BY <1>1, <1>2, <1>6 DEF IInv, WalkTypeOK, Aligned, Least, Monus
<1>9. WithinSize'
  <2>1. Size' = Size /\ version' = version
    BY <1>6 DEF TakeFlowSet, Size
  <2>2. /\ version = 9 => msg.taken < Size
        /\ version = 10 => msg.start - msg.left < Size
    BY MoreValue DEF IInv, TakeFlowSet, WalkTypeOK
  <2>3. version = 9 => Size \in Nat
    BY <1>2 DEF Size
  <2> QED
    BY <1>2, <1>6, <2>1, <2>2, <2>3 DEF WithinSize
<1> QED
  BY <1>7, <1>8, <1>9 DEF IInv

\* The steps inside of a set leave the walk alone.
LEMMA OutsideKeeps ==
  ASSUME IInv, UNCHANGED <<msg, version>>
  PROVE  IInv'
  BY DEF IInv, WalkTypeOK, Aligned, WithinSize, Size

\* Leaving the decoder, with or without an error.
LEMMA ReturnKeeps ==
  ASSUME IInv, Return
  PROVE  IInv'
<1>1. 0 \in 0 .. Word - 1 /\ 0 \in 0 .. MaxBytes
  BY DecodeAssumption DEF DecodeAssumption
<1> QED
  BY <1>1, MessageKeeps DEF Return, IInv, WalkTypeOK

\* Every action of the walk keeps its invariant.
LEMMA Inductive ==
  ASSUME IInv, [Next]_vars
  PROVE  IInv'
<1>1. CASE DecodeMessage
  <2>1. PICK d \in 0 .. Word - 1, n \in 0 .. MaxBytes : msg' = Message(d, n)
    BY <1>1, DecodeAssumption DEF DecodeMessage, DecodeAssumption
  <2> QED
    BY <1>1, <2>1, MessageKeeps DEF DecodeMessage, IInv, WalkTypeOK
<1>2. CASE EndOfMessage \/ BadFlowSet \/ BadTemplate \/ StarvedRecord
  BY <1>2, ReturnKeeps DEF EndOfMessage, BadFlowSet, BadTemplate, StarvedRecord
<1>3. CASE TakeTemplateSet \/ TakeDataSet \/ SkipDataSet
  BY <1>3, TakeFlowSetKeeps DEF TakeTemplateSet, TakeDataSet, SkipDataSet
<1>4. CASE ReadTemplate \/ AddTemplates \/ ReadRecord \/ EndOfDataSet
  BY <1>4, OutsideKeeps DEF ReadTemplate, AddTemplates, ReadRecord, EndOfDataSet
<1>5. CASE UNCHANGED vars
  BY <1>5, OutsideKeeps DEF vars
<1> QED
  BY <1>1, <1>2, <1>3, <1>4, <1>5 DEF Next, Decode

-----------------------------------------------------------------------------
\* Flow sets follow one another as they declare their lengths, whatever is in
\* them (netflow.go 303-316).
THEOREM FlowSetsStayAligned == Spec => []FlowSetsAreAligned
<1>1. IInv => FlowSetsAreAligned
  BY DEF IInv, Aligned, FlowSetsAreAligned
<1> QED
  BY <1>1, Initially, Inductive, PTL DEF Spec

\* A message that is not given up ends where its header says, although the size
\* is computed in uint16: a Length below that of the header wraps around to a
\* size no datagram reaches (netflow.go 286-301, 491).
THEOREM MessagesEndAtTheirLength == Spec => []MessageEndsAtItsLength
<1>1. IInv => MessageEndsAtItsLength
  <2> SUFFICES ASSUME IInv, pc = "message", ~More
               PROVE  \/ msg.left = 0
                      \/ version = 9 /\ msg.taken = msg.declared
                      \/ /\ version = 10 /\ msg.declared >= 16
                         /\ msg.start - msg.left >= msg.declared - 16
                         /\ msg.taken > 0 => msg.begin < msg.declared - 16
    BY DEF MessageEndsAtItsLength
  <2>1. WalkTypeOK /\ WithinSize
    BY DEF IInv
  <2>2. /\ msg.declared \in 0 .. Word - 1 /\ msg.start \in 0 .. MaxBytes
        /\ msg.left \in 0 .. MaxBytes /\ msg.taken \in Nat /\ msg.begin \in 0 .. MaxBytes
        /\ Word \in Nat /\ MaxBytes \in Nat /\ MaxBytes + 16 < Word
    BY <2>1, DecodeAssumption DEF WalkTypeOK, DecodeAssumption
  <2>3. CASE version = 9
    BY <2>1, <2>2, <2>3, MoreValue, SizeValue DEF WithinSize
  <2>4. CASE version = 10
    BY <2>1, <2>2, <2>4, MoreValue, SizeValue DEF WithinSize
  <2> QED
    BY <2>1, <2>3, <2>4 DEF WalkTypeOK
<1> QED
  BY <1>1, Initially, Inductive, PTL DEF Spec
-----------------------------------------------------------------------------
(* Induction over data. The least element of a set of numbers comes from    *)
(* the library's theorem that < is well-founded on Nat; on it rest what     *)
(* recursive functions are, and what they give for every argument.          *)

\* A function on 1 .. n is a sequence of length n.
LEMMA ListLength ==
  ASSUME NEW S, NEW n \in Nat, NEW s \in [1 .. n -> S]
  PROVE  s \in Seq(S) /\ Len(s) = n
<1>1. s \in Seq(S)
  BY SeqDef
<1>2. DOMAIN s = 1 .. Len(s) /\ Len(s) \in Nat
  BY <1>1, LenProperties
<1> QED
  BY <1>1, <1>2

\* g holds the sums of the first elements of s.
Sums(s, n, g) == g = [i \in 0 .. n |-> IF i = 0 THEN 0 ELSE g[i - 1] + s[i]]
PartialSums(s) == CHOOSE g : Sums(s, Len(s), g)

\* The recursion of Sum defines a function for lists of any length.
LEMMA SumsExist ==
  ASSUME NEW s
  PROVE  \A n \in Nat : \E g : Sums(s, n, g)
<1> DEFINE T == {n \in Nat : \E g : Sums(s, n, g)}
<1>1. 0 \in T
  <2> DEFINE g == [i \in 0 .. 0 |-> 0]
  <2>1. Sums(s, 0, g)
    BY DEF Sums
  <2> QED
    BY <2>1
<1>2. ASSUME NEW n \in Nat, n \in T PROVE n + 1 \in T
  <2>1. PICK g : Sums(s, n, g)
    BY <1>2
  <2> DEFINE h == [i \in 0 .. n + 1 |-> IF i = n + 1 THEN g[n] + s[n + 1] ELSE g[i]]
             k == [i \in 0 .. n + 1 |-> IF i = 0 THEN 0 ELSE h[i - 1] + s[i]]
  <2>2. ASSUME NEW i \in 0 .. n + 1 PROVE h[i] = k[i]
    <3>1. CASE i = 0
      BY <2>1, <3>1 DEF Sums
    <3>2. CASE i = n + 1
      <4>1. i # 0 /\ i - 1 = n /\ h[n] = g[n]
        BY <3>2
      <4> QED
        BY <3>2, <4>1
    <3>3. CASE i # 0 /\ i # n + 1
      <4>1. i \in 0 .. n /\ i - 1 \in 0 .. n /\ i - 1 # n + 1
        BY <3>3
      <4>2. g[i] = g[i - 1] + s[i]
        BY <2>1, <3>3, <4>1 DEF Sums
      <4> QED
        BY <3>3, <4>1, <4>2
    <3> QED
      BY <3>1, <3>2, <3>3
  <2>3. h = k
    BY <2>2
  <2>4. Sums(s, n + 1, h)
    BY <2>3 DEF Sums
  <2> HIDE DEF h
  <2> QED
    BY <2>4
<1>3. Nat \subseteq T
  <2> HIDE DEF T
  <2> QED
    BY <1>1, <1>2, Induction
<1> QED
  BY <1>3

\* Sum is the last of the partial sums.
LEMMA SumIsLast == \A s : Sum(s) = PartialSums(s)[Len(s)]
  BY DEF Sum, PartialSums, Sums

\* The sum of numbers is a number, and none of them exceeds it.
LEMMA SumBounds ==
  ASSUME NEW n \in Nat, NEW s \in [1 .. n -> Nat]
  PROVE  Sum(s) \in Nat /\ \A i \in 1 .. n : s[i] <= Sum(s)
<1> DEFINE f == PartialSums(s)
           T == {m \in Nat : m <= n => f[m] \in Nat /\ \A i \in 1 .. m : s[i] <= f[m]}
<1>0. Len(s) = n
  BY ListLength
<1>1. \A i \in 0 .. n : f[i] = IF i = 0 THEN 0 ELSE f[i - 1] + s[i]
  <2>1. Sums(s, n, f)
    BY <1>0, SumsExist DEF PartialSums
  <2> HIDE DEF f
  <2> QED
    BY <2>1 DEF Sums
<1> HIDE DEF f
<1>2. 0 \in T
  BY <1>1
<1>3. ASSUME NEW m \in Nat, m \in T PROVE m + 1 \in T
  <2> SUFFICES ASSUME m + 1 <= n
               PROVE  f[m + 1] \in Nat /\ \A i \in 1 .. m + 1 : s[i] <= f[m + 1]
    OBVIOUS
  <2>1. f[m] \in Nat /\ \A i \in 1 .. m : s[i] <= f[m]
    BY <1>3
  <2>2. f[m + 1] = f[m] + s[m + 1] /\ s[m + 1] \in Nat
    BY <1>1
  <2>3. \A i \in 1 .. m : s[i] \in Nat
    OBVIOUS
  <2> QED
    BY <2>1, <2>2, <2>3
<1>4. n \in T
  <2> HIDE DEF T
  <2> QED
    BY <1>2, <1>3, Induction
<1>5. Sum(s) = f[n]
  BY <1>0, SumIsLast DEF f
<1> QED
  BY <1>4, <1>5

-----------------------------------------------------------------------------
(* Sizes of templates and bytes of records *)

\* A list of fields is a function on its numbers.
LEMMA ListFacts ==
  ASSUME NEW list \in Lists
  PROVE  \E n \in Nat : /\ list \in [1 .. n -> FieldLengths \cup {Var}]
                        /\ DOMAIN list = 1 .. n /\ Len(list) = n /\ n <= MaxFields
<1>1. PICK n \in 0 .. MaxFields : list \in [1 .. n -> FieldLengths \cup {Var}]
  BY DEF Lists
<1>2. n \in Nat /\ n <= MaxFields
  BY <1>1, DecodeAssumption DEF DecodeAssumption
<1> QED
  BY <1>1, <1>2, ListLength

\* The size of a template is a number.
LEMMA TemplateSizeFacts ==
  ASSUME NEW list \in Lists
  PROVE  GetTemplateSize(list) \in Nat
<1>1. PICK n \in Nat : list \in [1 .. n -> FieldLengths \cup {Var}] /\ DOMAIN list = 1 .. n
  BY ListFacts
<1>2. [i \in DOMAIN list |-> IF list[i] = Var THEN 0 ELSE list[i]] \in [1 .. n -> Nat]
  BY <1>1, DecodeAssumption DEF DecodeAssumption
<1> QED
  BY <1>2, SumBounds DEF GetTemplateSize

FixedList(list) == \A i \in DOMAIN list : list[i] # Var

\* What a record takes: at least one byte if a field has its length in the record,
\* the size of the template otherwise.
LEMMA NeedFacts ==
  ASSUME NEW list \in Lists, NEW ls \in Lengths(list)
  PROVE  /\ \E n \in Nat : DOMAIN list = 1 .. n /\ Need(list, ls) \in [1 .. n -> Nat]
         /\ Sum(Need(list, ls)) \in Nat
         /\ FixedList(list) => Sum(Need(list, ls)) = GetTemplateSize(list)
         /\ ~FixedList(list) => Sum(Need(list, ls)) >= 1
<1>1. PICK n \in Nat : list \in [1 .. n -> FieldLengths \cup {Var}] /\ DOMAIN list = 1 .. n
  BY ListFacts
<1>2. ASSUME NEW i \in 1 .. n
      PROVE  /\ list[i] # Var => list[i] \in Nat
             /\ list[i] = Var => Head1(ls[i]) \in Nat /\ Head1(ls[i]) >= 1 /\ ls[i] \in Nat
  <2>1. list[i] = Var => ls[i] \in VarLengths
    BY <1>1 DEF Lengths
  <2>2. VarLengths \subseteq Nat /\ FieldLengths \subseteq Nat
    BY DecodeAssumption DEF DecodeAssumption
  <2>3. Head1(ls[i]) \in Nat /\ Head1(ls[i]) >= 1
    BY DEF Head1
  <2>4. list[i] \in FieldLengths \cup {Var}
    BY <1>1
  <2> QED
    BY <2>1, <2>2, <2>3, <2>4
<1>3. Need(list, ls) \in [1 .. n -> Nat]
  BY <1>1, <1>2 DEF Need
<1>4. ASSUME FixedList(list) PROVE Sum(Need(list, ls)) = GetTemplateSize(list)
  <2>1. Need(list, ls) = [i \in DOMAIN list |-> IF list[i] = Var THEN 0 ELSE list[i]]
    BY <1>4 DEF Need, FixedList
  <2> QED
    BY <2>1 DEF GetTemplateSize
<1>5. ASSUME ~FixedList(list) PROVE Sum(Need(list, ls)) >= 1
  <2>1. PICK i \in 1 .. n : list[i] = Var
    BY <1>1, <1>5 DEF FixedList
  <2>2. Need(list, ls)[i] >= 1 /\ Need(list, ls)[i] \in Nat
    BY <1>1, <1>2, <2>1 DEF Need
  <2>3. Sum(Need(list, ls)) \in Nat /\ Need(list, ls)[i] <= Sum(Need(list, ls))
    BY <1>3, SumBounds
  <2> QED
    BY <2>2, <2>3
<1>6. Sum(Need(list, ls)) \in Nat
  BY <1>3, SumBounds
<1> QED
  BY <1>1, <1>3, <1>4, <1>5, <1>6

\* What is left after the values of a list: never more than before, less if one has
\* a length of its own, exactly the list's size less if none has.
LEMMA AfterFacts ==
  ASSUME NEW list \in Lists, NEW ls \in Lengths(list), NEW b \in Nat
  PROVE  /\ After(list, ls, b) \in 0 .. b
         /\ FixedList(list) /\ b >= GetTemplateSize(list) =>
              /\ After(list, ls, b) = b - GetTemplateSize(list)
              /\ Complete(list, ls, b)
         /\ ~FixedList(list) /\ b >= GetTemplateSize(list) /\ b > 0 =>
              After(list, ls, b) < b
  BY NeedFacts, TemplateSizeFacts DEF After, Complete, Monus

\* A length that can be read is a byte that is there.
LEMMA NotStarved ==
  ASSUME NEW list \in Lists, NEW ls \in Lengths(list), NEW b \in Nat,
         ~Starved(list, ls, b), b >= GetTemplateSize(list), ~FixedList(list)
  PROVE  b > 0
<1>1. PICK n \in Nat : DOMAIN list = 1 .. n /\ Need(list, ls) \in [1 .. n -> Nat]
  BY NeedFacts
<1>2. PICK i \in 1 .. n : list[i] = Var
  BY <1>1 DEF FixedList
<1> DEFINE before == SubSeq(Need(list, ls), 1, i - 1)
<1>3. Sum(before) \in Nat
  <2>1. Need(list, ls) \in Seq(Nat) /\ Len(Need(list, ls)) = n
    BY <1>1, ListLength
  <2>2. before \in Seq(Nat)
    BY <1>2, <2>1
  <2>3. before \in [1 .. Len(before) -> Nat] /\ Len(before) \in Nat
    BY <2>2, LenProperties
  <2> QED
    BY <2>3, SumBounds
<1>4. Sum(before) + Head1(ls[i]) <= b
  <2>1. ~(Sum(before) + Head1(ls[i]) > b)
    BY <1>1, <1>2 DEF Starved
  <2>2. Head1(ls[i]) \in Nat
    BY DEF Head1
  <2> QED
    BY <1>3, <2>1, <2>2
<1>5. Head1(ls[i]) \in Nat /\ Head1(ls[i]) >= 1
  BY DEF Head1
<1> QED
  BY <1>3, <1>4, <1>5
-----------------------------------------------------------------------------
(* Inside of the sets *)

SetTypeOK ==
  /\ pc \in {"idle", "message", "templates", "data"}
  /\ set \in Sets /\ set.rest <= set.room
  /\ pc = "data" => set.tmpl # NoTemplate
  /\ store \in [Ids -> Templates \cup {NoTemplate}]

\* The types in two halves: the walk and the sets.
LEMMA TypeParts == TypeOK <=> WalkTypeOK /\ SetTypeOK
  BY DEF TypeOK, WalkTypeOK, SetTypeOK, Messages

\* What is left of a set between two sets.
LEMMA NoSetFacts ==
  /\ NoSet \in Sets /\ NoSet.rest = 0 /\ NoSet.room = 0
  /\ NoSet.records = 0 /\ NoSet.whole = TRUE
<1>1. 0 \in 0 .. MaxBytes /\ 0 \in 0 .. MaxBytes + 1
  BY DecodeAssumption DEF DecodeAssumption
<1>2. <<>> \in Seq([id : Ids, tmpl : Templates])
  OBVIOUS
<1> QED
  BY <1>1, <1>2 DEF NoSet, Sets

\* A set begins with room for what is there of it, and nothing read.
LEMMA OpenSetFacts ==
  ASSUME IInv, NEW length \in SetLengths, TakeFlowSet(length)
  PROVE  /\ Room(length) \in 0 .. MaxBytes /\ Room(length) < msg.left
         /\ msg'.left < msg.left
         /\ OpenSet(length) \in Sets
         /\ OpenSet(length).rest = Room(length) /\ OpenSet(length).room = Room(length)
         /\ OpenSet(length).records = 0 /\ OpenSet(length).whole = TRUE
<1>1. /\ length \in Nat /\ length >= 4 /\ MaxBytes \in Nat
      /\ msg.left \in 0 .. MaxBytes /\ msg.left >= 4
  BY DecodeAssumption DEF DecodeAssumption, TakeFlowSet, IInv, WalkTypeOK
<1>2. Room(length) \in 0 .. MaxBytes /\ Room(length) < msg.left
  BY <1>1 DEF Room, Least
<1>3. msg'.left < msg.left
  <2>1. msg'.left = Monus(msg.left, length)
    BY DEF TakeFlowSet, IInv, WalkTypeOK
  <2> QED
    BY <1>1, <2>1 DEF Monus
<1> QED
  BY <1>2, <1>3, NoSetFacts DEF OpenSet, Sets

\* A template record takes at least four bytes of its set.
LEMMA ReadTemplateFacts ==
  ASSUME SetTypeOK, ReadTemplate
  PROVE  /\ set' \in Sets /\ set'.rest < set.rest /\ set'.room = set.room
         /\ set'.rest <= set.rest - 4 /\ Len(set'.batch) = Len(set.batch) + 1
<1> DEFINE Bytes(t, e) == TemplateHeader + 4 * (Len(t.scopes) + Len(t.fields)) + 4 * e
<1>1. PICK id \in Ids, t \in Templates :
        \E e \in IF version = 10 THEN 0 .. Len(t.scopes) + Len(t.fields) ELSE {0} :
          /\ Bytes(t, e) <= set.rest
          /\ set' = [set EXCEPT !.rest = @ - Bytes(t, e),
                                !.batch = Append(@, [id |-> id, tmpl |-> t])]
  BY DEF ReadTemplate
<1> DEFINE n == Len(t.scopes) + Len(t.fields)
<1>a. PICK e \in IF version = 10 THEN 0 .. n ELSE {0} :
        /\ Bytes(t, e) <= set.rest
        /\ set' = [set EXCEPT !.rest = @ - Bytes(t, e),
                              !.batch = Append(@, [id |-> id, tmpl |-> t])]
  BY <1>1
<1> DEFINE bytes == Bytes(t, e)
<1>2. n \in Nat
  <2>1. t.scopes \in Lists /\ t.fields \in Lists
    BY DEF Templates
  <2>2. Len(t.scopes) \in Nat /\ Len(t.fields) \in Nat
    BY <2>1, ListFacts
  <2>3. \A a, b \in Nat : a + b \in Nat
    OBVIOUS
  <2> QED
    BY <2>2, <2>3
<1>3. e \in Nat
  <2> HIDE DEF n
  <2> QED
    BY <1>2
<1>4. bytes \in Nat /\ bytes >= 4 /\ bytes <= set.rest
  <2>1. bytes = TemplateHeader + 4 * n + 4 * e
    OBVIOUS
  <2>2. bytes <= set.rest
    BY <1>a
  <2> HIDE DEF n, bytes
  <2> QED
    BY <1>2, <1>3, <2>1, <2>2 DEF TemplateHeader
<1>5. set' = [set EXCEPT !.rest = @ - bytes,
                         !.batch = Append(@, [id |-> id, tmpl |-> t])]
  BY <1>a
<1> HIDE DEF bytes, n
<1>6. set.rest \in 0 .. MaxBytes /\ MaxBytes \in Nat
  BY DecodeAssumption DEF DecodeAssumption, SetTypeOK, Sets
<1>7. /\ set.rest - bytes \in 0 .. MaxBytes /\ set.rest - bytes < set.rest
      /\ set.rest - bytes <= set.rest - 4
  BY <1>4, <1>6
<1>8. /\ Append(set.batch, [id |-> id, tmpl |-> t]) \in Seq([id : Ids, tmpl : Templates])
      /\ Len(Append(set.batch, [id |-> id, tmpl |-> t])) = Len(set.batch) + 1
  BY DEF SetTypeOK, Sets
<1> QED
  BY <1>5, <1>7, <1>8 DEF SetTypeOK, Sets

\* The last template read for an id is the one stored.
LEMMA AddTemplatesFacts ==
  ASSUME SetTypeOK, AddTemplates
  PROVE  store' \in [Ids -> Templates \cup {NoTemplate}]
<1> SUFFICES ASSUME NEW i \in Ids,
                    NEW of, of = {k \in DOMAIN set.batch : set.batch[k].id = i}
             PROVE  (IF of = {} THEN store[i]
                     ELSE set.batch[CHOOSE k \in of : \A j \in of : j <= k].tmpl)
                       \in Templates \cup {NoTemplate}
  BY DEF AddTemplates
<1>1. set.batch \in Seq([id : Ids, tmpl : Templates])
  BY DEF SetTypeOK, Sets
<1>2. CASE of = {}
  BY <1>2 DEF SetTypeOK
<1>3. CASE of # {}
  <2>1. DOMAIN set.batch = 1 .. Len(set.batch) /\ Len(set.batch) \in Nat
    BY <1>1, LenProperties
  <2>2. of \subseteq 0 .. Len(set.batch)
    BY <2>1
  <2>3. \E k \in of : \A j \in of : j <= k
    BY <1>3, <2>1, <2>2, GreatestElement
  <2>4. (CHOOSE k \in of : \A j \in of : j <= k) \in of
    BY <2>3
  <2>5. \A k \in of : set.batch[k].tmpl \in Templates
    <3>1. \A k \in 1 .. Len(set.batch) : set.batch[k] \in [id : Ids, tmpl : Templates]
      BY <1>1, ElementOfSeq
    <3> QED
      BY <2>1, <3>1
  <2> QED
    BY <1>3, <2>4, <2>5
<1> QED
  BY <1>2, <1>3

\* What one record does to the bytes of its set.
LEMMA RecordFacts ==
  ASSUME IInv, SetTypeOK, ReadRecord
  PROVE  /\ set'.rest \in 0 .. set.rest
         /\ ~Endless => set'.rest < set.rest
         /\ Fixed(set.tmpl) => /\ set'.rest = set.rest - RecordSize(set.tmpl)
                               /\ set'.whole = set.whole
         /\ set' = [set EXCEPT !.rest = set'.rest, !.records = Least(@ + 1, MaxBytes + 1),
                               !.whole = set'.whole]
         /\ set'.whole \in BOOLEAN
<1> DEFINE scopes == set.tmpl.scopes
           fields == set.tmpl.fields
<1>1. PICK ls \in Lengths(scopes), lf \in Lengths(fields) :
        LET between == After(scopes, ls, set.rest) IN
        /\ ~Starved(scopes, ls, set.rest) /\ ~Starved(fields, lf, between)
        /\ set' = [set EXCEPT
             !.rest = After(fields, lf, between),
             !.records = Least(@ + 1, MaxBytes + 1),
             !.whole = @ /\ Complete(scopes, ls, set.rest)
                         /\ Complete(fields, lf, between)]
  BY DEF ReadRecord
<1> DEFINE between == After(scopes, ls, set.rest)
           rest == After(fields, lf, between)
<1>2. /\ pc = "data" /\ set.rest \in Nat /\ set.rest >= RecordSize(set.tmpl)
      /\ scopes \in Lists /\ fields \in Lists /\ set.whole \in BOOLEAN
  BY DEF ReadRecord, MoreRecords, SetTypeOK, Sets, Templates
<1>3. /\ GetTemplateSize(scopes) \in Nat /\ GetTemplateSize(fields) \in Nat
      /\ RecordSize(set.tmpl) = GetTemplateSize(scopes) + GetTemplateSize(fields)
  BY <1>2, TemplateSizeFacts DEF RecordSize
<1>4. between \in 0 .. set.rest /\ rest \in 0 .. between
  <2>1. between \in 0 .. set.rest
    BY <1>2, AfterFacts
  <2> HIDE DEF between
  <2>2. between \in Nat
    BY <2>1
  <2> QED
    BY <1>2, <2>1, <2>2, AfterFacts
<1>5. Fixed(set.tmpl) <=> FixedList(scopes) /\ FixedList(fields)
  BY DEF Fixed, FixedList
<1>6. set'.rest = rest /\ set' = [set EXCEPT !.rest = set'.rest,
                                            !.records = Least(@ + 1, MaxBytes + 1),
                                            !.whole = set'.whole]
      /\ set'.whole = (set.whole /\ Complete(scopes, ls, set.rest)
                                 /\ Complete(fields, lf, between))
  BY <1>1 DEF SetTypeOK, Sets
<1>7. FixedList(scopes) => /\ between = set.rest - GetTemplateSize(scopes)
                           /\ Complete(scopes, ls, set.rest)
  BY <1>2, <1>3, AfterFacts
<1>8. FixedList(fields) /\ between >= GetTemplateSize(fields) =>
        rest = between - GetTemplateSize(fields) /\ Complete(fields, lf, between)
  <2>1. between \in Nat
    BY <1>4
  <2> HIDE DEF between
  <2> QED
    BY <1>2, <2>1, AfterFacts
<1>9. ~FixedList(scopes) => between < set.rest
  <2>1. ~FixedList(scopes) => set.rest > 0
    BY <1>1, <1>2, <1>3, NotStarved
  <2> QED
    BY <1>2, <1>3, <2>1, AfterFacts
<1>10. FixedList(scopes) /\ ~FixedList(fields) => rest < between
  <2>1. between \in Nat /\ ~Starved(fields, lf, between)
    BY <1>1, <1>4
  <2> HIDE DEF between
  <2>2. FixedList(scopes) => between >= GetTemplateSize(fields)
    BY <1>2, <1>3, <1>7
  <2>3. FixedList(scopes) /\ ~FixedList(fields) => between > 0
    BY <1>2, <2>1, <2>2, NotStarved
  <2> QED
    BY <1>2, <2>1, <2>2, <2>3, AfterFacts
<1> HIDE DEF between, rest, scopes, fields
<1>11. Fixed(set.tmpl) => /\ rest = set.rest - RecordSize(set.tmpl)
                          /\ set'.whole = set.whole
  BY <1>2, <1>3, <1>5, <1>6, <1>7, <1>8
<1>12. ~Endless => rest < set.rest
  <2>1. ASSUME ~Endless, Fixed(set.tmpl) PROVE rest < set.rest
    <3>1. RecordSize(set.tmpl) # 0
      BY <1>2, <2>1 DEF Endless
    <3> QED
      BY <1>2, <1>3, <1>11, <2>1, <3>1
  <2>2. ASSUME ~Fixed(set.tmpl) PROVE rest < set.rest
    BY <1>2, <1>4, <1>5, <1>9, <1>10, <2>2
  <2> QED
    BY <2>1, <2>2
<1> QED
  BY <1>2, <1>4, <1>6, <1>11, <1>12
\* Records of b bytes each: one more takes b more, and there are no more of them
\* than bytes.
LEMMA Products ==
  ASSUME NEW k \in Nat, NEW b \in Nat
  PROVE  /\ k * b \in Nat /\ 0 * b = 0 /\ (k + 1) * b = k * b + b
         /\ b >= 1 => k <= k * b
<1>1. k * b \in Nat /\ 0 * b = 0 /\ (k + 1) * b = k * b + b
  OBVIOUS
<1>2. ASSUME b >= 1 PROVE k <= k * b
  <2>1. k * b = k * (b - 1) + k
    OBVIOUS
  <2>2. k * (b - 1) \in Nat
    BY <1>2
  <2> QED
    BY <2>1, <2>2
<1> QED
  BY <1>1, <1>2

SetInv == IInv /\ SetTypeOK /\ FixedRecordsAreWhole

\* No set has been begun.
LEMMA SetInit == Init => SetInv
<1> SUFFICES ASSUME Init PROVE SetInv
  OBVIOUS
<1>1. SetTypeOK
  BY NoSetFacts DEF Init, SetTypeOK
<1>2. FixedRecordsAreWhole
  BY DEF Init, FixedRecordsAreWhole
<1> QED
  BY <1>1, <1>2, Initially DEF SetInv

\* Outside of a data set nothing is said of records.
LEMMA NoDataSet ==
  ASSUME pc' # "data"
  PROVE  FixedRecordsAreWhole'
  BY DEF FixedRecordsAreWhole

\* Leaving the decoder closes the set.
LEMMA SetReturn ==
  ASSUME SetInv, Return
  PROVE  SetTypeOK' /\ FixedRecordsAreWhole'
  BY NoSetFacts, NoDataSet DEF Return, SetInv, SetTypeOK

\* A data set begins with no record read.
LEMMA TakeDataSetKeeps ==
  ASSUME SetInv, TakeDataSet
  PROVE  SetTypeOK' /\ FixedRecordsAreWhole'
<1>1. PICK length \in SetLengths, id \in Ids :
        /\ TakeFlowSet(length) /\ store[id] # NoTemplate
        /\ set' = [OpenSet(length) EXCEPT !.tmpl = store[id]] /\ pc' = "data"
  BY DEF TakeDataSet
<1>2. /\ OpenSet(length) \in Sets /\ OpenSet(length).rest = OpenSet(length).room
      /\ OpenSet(length).room \in 0 .. MaxBytes
      /\ OpenSet(length).records = 0 /\ OpenSet(length).whole = TRUE
  BY <1>1, OpenSetFacts DEF SetInv
<1>3. store[id] \in Templates
  BY <1>1 DEF SetInv, SetTypeOK
<1>4. /\ set' \in Sets /\ set'.rest = set'.room /\ set'.tmpl = store[id]
      /\ set'.records = 0 /\ set'.whole = TRUE /\ set'.room \in 0 .. MaxBytes
  BY <1>1, <1>2, <1>3 DEF Sets
<1>5. SetTypeOK'
  BY <1>1, <1>4 DEF SetInv, SetTypeOK, TakeFlowSet
<1>6. FixedRecordsAreWhole'
  <2>1. RecordSize(set'.tmpl) \in Nat
    BY <1>3, <1>4, TemplateSizeFacts DEF RecordSize, Templates
  <2>2. set'.records * RecordSize(set'.tmpl) = 0
    BY <1>4, <2>1, Products
  <2> QED
    BY <1>4, <2>2 DEF FixedRecordsAreWhole
<1> QED
  BY <1>5, <1>6

\* Reading a record keeps the set packed.
LEMMA ReadRecordKeeps ==
  ASSUME SetInv, ReadRecord
  PROVE  SetTypeOK' /\ FixedRecordsAreWhole'
<1>1. /\ pc = "data" /\ set \in Sets /\ set.rest <= set.room /\ MaxBytes \in Nat
      /\ set.tmpl \in Templates /\ UNCHANGED <<pc, store>>
  BY DecodeAssumption
     DEF DecodeAssumption, ReadRecord, MoreRecords, SetInv, SetTypeOK, Sets
<1>2. /\ set'.rest \in 0 .. set.rest /\ set'.whole \in BOOLEAN
      /\ Fixed(set.tmpl) => /\ set'.rest = set.rest - RecordSize(set.tmpl)
                            /\ set'.whole = set.whole
      /\ set' = [set EXCEPT !.rest = set'.rest, !.records = Least(@ + 1, MaxBytes + 1),
                            !.whole = set'.whole]
  BY RecordFacts DEF SetInv
<1>3. /\ set.rest \in 0 .. MaxBytes /\ set.room \in 0 .. MaxBytes
      /\ set.records \in 0 .. MaxBytes + 1
  BY <1>1 DEF Sets
<1>4. Least(set.records + 1, MaxBytes + 1) \in 0 .. MaxBytes + 1
  BY <1>1, <1>3 DEF Least
<1>5. set'.rest \in 0 .. MaxBytes /\ set'.rest <= set.room
  BY <1>1, <1>2, <1>3
<1>6. /\ set' \in Sets /\ set'.room = set.room /\ set'.tmpl = set.tmpl
      /\ set'.records = Least(set.records + 1, MaxBytes + 1)
  BY <1>1, <1>2, <1>4, <1>5 DEF Sets
<1>7. SetTypeOK'
  BY <1>1, <1>5, <1>6 DEF SetInv, SetTypeOK
<1>8. ASSUME Fixed(set.tmpl), RecordSize(set.tmpl) > 0
      PROVE  /\ set'.whole
             /\ set.room = set'.rest + set'.records * RecordSize(set.tmpl)
  <2> DEFINE size == RecordSize(set.tmpl)
             k == set.records
  <2>1. size \in Nat /\ size >= 1
    BY <1>1, <1>8, TemplateSizeFacts DEF RecordSize, Templates
  <2>2. set.whole /\ set.room = set.rest + k * size
    BY <1>1, <1>8 DEF SetInv, FixedRecordsAreWhole
  <2>3. set'.rest = set.rest - size /\ set'.whole = set.whole
    BY <1>2, <1>8
  <2> HIDE DEF size
  <2>4. k \in Nat /\ k * size \in Nat /\ (k + 1) * size = k * size + size /\ k <= k * size
    BY <1>3, <2>1, Products
  <2>5. k <= MaxBytes
    BY <1>1, <1>3, <2>2, <2>4
  <2>6. set'.records = k + 1
    BY <1>1, <1>6, <2>4, <2>5 DEF Least
  <2>7. set.room = set'.rest + (k + 1) * size
    BY <1>3, <2>1, <2>2, <2>3, <2>4
  <2> QED
    BY <2>2, <2>3, <2>6, <2>7 DEF size
<1>9. FixedRecordsAreWhole'
  BY <1>1, <1>6, <1>8 DEF FixedRecordsAreWhole
<1> QED
  BY <1>7, <1>9

\* Every action keeps the invariant of the sets.
LEMMA SetNext == SetInv /\ [Next]_vars => SetInv'
<1> SUFFICES ASSUME SetInv, [Next]_vars PROVE SetTypeOK' /\ FixedRecordsAreWhole'
  BY Inductive DEF SetInv
<1>1. CASE DecodeMessage
  BY <1>1, NoDataSet DEF DecodeMessage, SetInv, SetTypeOK
<1>2. CASE EndOfMessage \/ BadFlowSet \/ BadTemplate \/ StarvedRecord
  BY <1>2, SetReturn DEF EndOfMessage, BadFlowSet, BadTemplate, StarvedRecord
<1>3. CASE TakeTemplateSet
  <2>1. PICK length \in SetLengths, o \in BOOLEAN :
          /\ TakeFlowSet(length) /\ pc' = "templates"
          /\ set' = [OpenSet(length) EXCEPT !.options = o]
    BY <1>3 DEF TakeTemplateSet
  <2>2. /\ OpenSet(length) \in Sets /\ OpenSet(length).rest = OpenSet(length).room
        /\ OpenSet(length).room \in 0 .. MaxBytes
    BY <2>1, OpenSetFacts DEF SetInv
  <2>3. set' \in Sets /\ set'.rest <= set'.room
    BY <2>1, <2>2 DEF Sets
  <2> QED
    BY <2>1, <2>3, NoDataSet DEF TakeFlowSet, SetInv, SetTypeOK
<1>4. CASE TakeDataSet
  BY <1>4, TakeDataSetKeeps
<1>5. CASE SkipDataSet
  BY <1>5, NoDataSet DEF SkipDataSet, TakeFlowSet, SetInv, SetTypeOK
<1>6. CASE ReadTemplate
  <2>1. set' \in Sets /\ set'.rest < set.rest /\ set'.room = set.room
    BY <1>6, ReadTemplateFacts DEF SetInv
  <2>2. set'.rest <= set'.room
    BY <2>1 DEF SetInv, SetTypeOK, Sets
  <2> QED
    BY <1>6, <2>1, <2>2, NoDataSet DEF ReadTemplate, SetInv, SetTypeOK
<1>7. CASE AddTemplates
  <2>1. store' \in [Ids -> Templates \cup {NoTemplate}]
    BY <1>7, AddTemplatesFacts DEF SetInv
  <2>2. pc' = "message" /\ set' = NoSet
    BY <1>7 DEF AddTemplates
  <2> QED
    BY <2>1, <2>2, NoSetFacts, NoDataSet DEF SetTypeOK
<1>8. CASE ReadRecord
  BY <1>8, ReadRecordKeeps
<1>9. CASE EndOfDataSet
  BY <1>9, NoSetFacts, NoDataSet DEF EndOfDataSet, SetInv, SetTypeOK
<1>10. CASE UNCHANGED vars
  BY <1>10 DEF vars, SetInv, SetTypeOK, FixedRecordsAreWhole
<1> QED
  BY <1>1, <1>2, <1>3, <1>4, <1>5, <1>6, <1>7, <1>8, <1>9, <1>10 DEF Next, Decode

\* The invariant behind the next two theorems: types, and records read whole.
THEOREM SetInvariance == Spec => []SetInv
  BY SetInit, SetNext, PTL DEF Spec

\* The decoder's variables keep their types: no step takes more bytes than are left
\* of the datagram or of the set, whatever lengths and counts they declare.
THEOREM DecoderTypes == Spec => []TypeOK
<1>1. SetInv => TypeOK
  BY TypeParts DEF SetInv, IInv
<1> QED
  BY <1>1, SetInvariance, PTL

\* With a template without fields of variable length, of any number and lengths,
\* records are read whole and none is skipped or read twice (netflow.go 201-284).
THEOREM FixedRecordsStayWhole == Spec => []FixedRecordsAreWhole
<1>1. SetInv => FixedRecordsAreWhole
  BY DEF SetInv
<1> QED
  BY <1>1, SetInvariance, PTL

-----------------------------------------------------------------------------
(* Why decoding ends                                                        *)

\* A step ends the datagram, or leaves less of it, or closes a set, or leaves less
\* of the set it is in: the measure of three parts falls in every step.
Progress ==
  \/ pc' = "idle"
  \/ msg'.left < msg.left
  \/ msg'.left = msg.left /\ pc # "message" /\ pc' = "message"
  \/ msg'.left = msg.left /\ pc' = pc /\ set'.rest < set.rest

\* Every step of the decoder makes progress, except for the records of a template
\* that take no byte: the loops at netflow.go 247, 271 and 289 end for every other
\* datagram. That it ends is the step from here under fairness (DecodeEnds).
StepsMakeProgress == [][Decode => Progress \/ Endless]_vars

\* The measure of the walk falls unless records take no byte.
LEMMA DecodeProgresses ==
  ASSUME SetInv, Decode, ~Endless
  PROVE  Progress
<1>1. CASE EndOfMessage \/ BadFlowSet \/ BadTemplate \/ StarvedRecord
  BY <1>1 DEF EndOfMessage, BadFlowSet, BadTemplate, StarvedRecord, Return, Progress
<1>2. CASE TakeTemplateSet \/ TakeDataSet \/ SkipDataSet
  BY <1>2, OpenSetFacts
     DEF TakeTemplateSet, TakeDataSet, SkipDataSet, SetInv, Progress
<1>3. CASE ReadTemplate
  BY <1>3, ReadTemplateFacts DEF ReadTemplate, SetInv, Progress
<1>4. CASE AddTemplates \/ EndOfDataSet
  BY <1>4 DEF AddTemplates, EndOfDataSet, Progress
<1>5. CASE ReadRecord
  BY <1>5, RecordFacts DEF ReadRecord, SetInv, Progress
<1> QED
  BY <1>1, <1>2, <1>3, <1>4, <1>5 DEF Decode

\* The measure falls for datagrams of any length (netflow.go 247, 271, 289).
THEOREM DecodingProgresses == Spec => StepsMakeProgress
<1> DEFINE P == Decode => Progress \/ Endless
<1>1. SetInv /\ [Next]_vars => [P]_vars
  BY DecodeProgresses
<1> QED
  BY <1>1, SetInvariance, PTL DEF Spec, StepsMakeProgress

-----------------------------------------------------------------------------
(* What decoding costs                                                      *)

\* A flow set costs four bytes of the datagram and a template four bytes of its
\* set; so does a record cost a byte of its set, unless its template takes none.
RecordsCostBytes ==
  /\ msg.left + 4 * msg.taken <= msg.start
  /\ 4 * Len(set.batch) + set.rest <= set.room
  /\ (pc = "data" /\ ~Endless) => set.records + set.rest <= set.room

\* Outside of a set there is nothing to account for.
LEMMA NoSetCosts ==
  ASSUME set' = NoSet, pc' # "data", msg'.left + 4 * msg'.taken <= msg'.start
  PROVE  RecordsCostBytes'
  BY DEF RecordsCostBytes, NoSet

\* A set is opened with nothing read, at the cost of its header.
LEMMA OpenSetCosts ==
  ASSUME SetInv, RecordsCostBytes, NEW length \in SetLengths, TakeFlowSet(length)
  PROVE  /\ msg'.left + 4 * msg'.taken <= msg'.start
         /\ Len(OpenSet(length).batch) = 0
<1>1. /\ length \in Nat /\ length >= 4 /\ msg.left \in Nat /\ msg.left >= 4
      /\ msg.taken \in Nat /\ msg.start \in Nat
  BY DecodeAssumption DEF DecodeAssumption, TakeFlowSet, SetInv, IInv, WalkTypeOK
<1>2. /\ msg'.left = Monus(msg.left, length) /\ msg'.taken = msg.taken + 1
      /\ msg'.start = msg.start
  BY DEF TakeFlowSet, SetInv, IInv, WalkTypeOK
<1>3. msg'.left <= msg.left - 4
  BY <1>1, <1>2 DEF Monus
<1>4. msg.left + 4 * msg.taken <= msg.start /\ msg'.left \in Int
  BY <1>1, <1>2 DEF RecordsCostBytes, Monus
<1>5. Len(OpenSet(length).batch) = 0
  BY DEF OpenSet, NoSet
<1> QED
  BY <1>1, <1>2, <1>3, <1>4, <1>5

\* Every step pays for what it reads.
LEMMA CostsArePaid ==
  ASSUME SetInv, RecordsCostBytes, [Next]_vars
  PROVE  RecordsCostBytes'
<1>1. CASE DecodeMessage
  <2>1. PICK d \in IF version = 9 THEN Counts ELSE MessageLengths, n \in 0 .. MaxBytes :
          msg' = Message(d, n)
    BY <1>1 DEF DecodeMessage
  <2>2. msg'.left = n /\ msg'.taken = 0 /\ msg'.start = n /\ n \in Nat
    BY <2>1 DEF Message
  <2> QED
    BY <1>1, <2>2 DEF DecodeMessage, RecordsCostBytes
<1>2. CASE EndOfMessage \/ BadFlowSet \/ BadTemplate \/ StarvedRecord
  <2>1. Return
    BY <1>2 DEF EndOfMessage, BadFlowSet, BadTemplate, StarvedRecord
  <2>2. msg'.left + 4 * msg'.taken <= msg'.start
    BY <2>1 DEF Return, Message
  <2> QED
    BY <2>1, <2>2, NoSetCosts DEF Return
<1>3. CASE TakeTemplateSet
  <2>1. PICK length \in SetLengths, o \in BOOLEAN :
          /\ TakeFlowSet(length) /\ pc' = "templates"
          /\ set' = [OpenSet(length) EXCEPT !.options = o]
    BY <1>3 DEF TakeTemplateSet
  <2>2. /\ OpenSet(length) \in Sets /\ OpenSet(length).rest = OpenSet(length).room
        /\ OpenSet(length).room \in 0 .. MaxBytes
    BY <2>1, OpenSetFacts DEF SetInv
  <2>3. set'.rest = set'.room /\ set'.room \in Nat /\ set'.batch = OpenSet(length).batch
    BY <2>1, <2>2 DEF Sets
  <2> QED
    BY <2>1, <2>3, OpenSetCosts DEF RecordsCostBytes
<1>4. CASE TakeDataSet
  <2>1. PICK length \in SetLengths, id \in Ids :
          /\ TakeFlowSet(length) /\ pc' = "data"
          /\ set' = [OpenSet(length) EXCEPT !.tmpl = store[id]]
    BY <1>4 DEF TakeDataSet
  <2>2. /\ OpenSet(length) \in Sets /\ OpenSet(length).rest = OpenSet(length).room
        /\ OpenSet(length).room \in 0 .. MaxBytes /\ OpenSet(length).records = 0
    BY <2>1, OpenSetFacts DEF SetInv
  <2>3. /\ set'.rest = set'.room /\ set'.room \in Nat /\ set'.batch = OpenSet(length).batch
        /\ set'.records = 0
    BY <2>1, <2>2 DEF Sets
  <2> QED
    BY <2>1, <2>3, OpenSetCosts DEF RecordsCostBytes
<1>5. CASE SkipDataSet
  <2>1. PICK length \in SetLengths : TakeFlowSet(length)
    BY <1>5 DEF SkipDataSet
  <2>2. pc' = pc /\ set' = set /\ pc = "message"
    BY <1>5, <2>1 DEF SkipDataSet, TakeFlowSet
  <2> QED
    BY <2>1, <2>2, OpenSetCosts DEF RecordsCostBytes
<1>6. CASE ReadTemplate
  <2>1. /\ set' \in Sets /\ set'.room = set.room /\ set'.rest <= set.rest - 4
        /\ Len(set'.batch) = Len(set.batch) + 1
    BY <1>6, ReadTemplateFacts DEF SetInv
  <2>2. set.rest \in Nat /\ set.room \in Nat /\ Len(set.batch) \in Nat /\ set'.rest \in Nat
    BY <2>1 DEF SetInv, SetTypeOK, Sets
  <2>3. pc' = "templates" /\ msg' = msg
    BY <1>6 DEF ReadTemplate
  <2>4. 4 * Len(set.batch) + set.rest <= set.room
    BY DEF RecordsCostBytes
  <2> DEFINE n == Len(set.batch)
             m == Len(set'.batch)
  <2>5. 4 * m + set'.rest <= set'.room
    <3>1. n \in Nat /\ m = n + 1 /\ 4 * n + set.rest <= set.room
      BY <2>1, <2>2, <2>4
    <3>2. set'.rest <= set.rest - 4 /\ set'.room = set.room
      BY <2>1
    <3> HIDE DEF n, m
    <3>3. 4 * m = 4 * n + 4
      BY <3>1
    <3> QED
      BY <2>2, <3>1, <3>2, <3>3
  <2>6. msg'.left + 4 * msg'.taken <= msg'.start
    BY <2>3 DEF RecordsCostBytes
  <2> QED
    BY <2>3, <2>5, <2>6 DEF RecordsCostBytes
<1>7. CASE AddTemplates \/ EndOfDataSet
  <2>1. pc' = "message" /\ set' = NoSet /\ msg' = msg
    BY <1>7 DEF AddTemplates, EndOfDataSet
  <2> QED
    BY <2>1, NoSetCosts DEF RecordsCostBytes
<1>8. CASE ReadRecord
  <2>1. /\ set'.rest \in 0 .. set.rest /\ (~Endless => set'.rest < set.rest)
        /\ set' = [set EXCEPT !.rest = set'.rest, !.records = Least(@ + 1, MaxBytes + 1),
                              !.whole = set'.whole]
    BY <1>8, RecordFacts DEF SetInv
  <2>2. /\ set.rest \in Nat /\ set.room \in Nat /\ set.records \in Nat
        /\ Len(set.batch) \in Nat /\ MaxBytes \in Nat
    BY DecodeAssumption DEF DecodeAssumption, SetInv, SetTypeOK, Sets
  <2>3. /\ set'.room = set.room /\ set'.batch = set.batch /\ set'.tmpl = set.tmpl
        /\ set'.records = Least(set.records + 1, MaxBytes + 1)
    BY <2>1 DEF SetInv, SetTypeOK, Sets
  <2>4. set'.records <= set.records + 1 /\ set'.records \in Nat
    BY <2>2, <2>3 DEF Least
  <2>5. pc' = pc /\ msg' = msg /\ pc = "data"
    BY <1>8 DEF ReadRecord, MoreRecords
  <2>6. Endless' <=> Endless
    BY <2>3, <2>5 DEF Endless
  <2>7. set'.rest \in Nat /\ set'.rest <= set.rest
    BY <2>1, <2>2
  <2>8. 4 * Len(set'.batch) + set'.rest <= set'.room
    BY <2>2, <2>3, <2>7 DEF RecordsCostBytes
  <2>9. ASSUME ~Endless PROVE set'.records + set'.rest <= set'.room
    <3>1. set.records + set.rest <= set.room
      BY <2>5, <2>9 DEF RecordsCostBytes
    <3> QED
      BY <2>1, <2>2, <2>3, <2>4, <2>7, <2>9, <3>1
  <2>10. msg'.left + 4 * msg'.taken <= msg'.start
    BY <2>5 DEF RecordsCostBytes
  <2> QED
    BY <2>6, <2>8, <2>9, <2>10 DEF RecordsCostBytes
<1>9. CASE UNCHANGED vars
  BY <1>9 DEF vars, RecordsCostBytes, Endless
<1> QED
  BY <1>1, <1>2, <1>3, <1>4, <1>5, <1>6, <1>7, <1>8, <1>9 DEF Next, Decode

\* What is decoded of a datagram is bounded by its bytes and not by the counts it
\* declares, whatever lengths its templates give their fields: only records that
\* take no byte are without a bound (netflow.go 44, 106, 149, 247, 271, 289).
THEOREM BytesBoundTheRecords == Spec => []RecordsCostBytes
<1>1. Init => RecordsCostBytes
  BY DEF Init, RecordsCostBytes, Message, NoSet
<1>2. SetInv /\ RecordsCostBytes /\ [Next]_vars => RecordsCostBytes'
  BY CostsArePaid
<1> QED
  BY <1>1, <1>2, SetInvariance, PTL DEF Spec

-----------------------------------------------------------------------------
(* sFlow                                                                    *)

SFlowAligned == pkt.start - pkt.left = pkt.sum
IdleIsEmpty == spc = "idle" => smp.rest = 0

SFlowInv == SFlowTypeOK /\ SFlowAligned /\ IdleIsEmpty /\ WorkIsBoundedByBytes

\* A datagram that has just been opened.
LEMMA PacketType ==
  ASSUME SFlowAssumption, NEW n \in 0 .. MaxCount, NEW bytes \in Nat
  PROVE  /\ Packet(n, bytes) \in [count : 0 .. MaxCount, taken : Nat, start : Nat,
                                  left : Nat, sum : Nat, records : Nat]
         /\ Packet(n, bytes).taken = 0 /\ Packet(n, bytes).records = 0
         /\ Packet(n, bytes).count = n /\ Packet(n, bytes).sum = 0
         /\ Packet(n, bytes).start = bytes /\ Packet(n, bytes).left = bytes
  BY DEF Packet

\* A sample that has just been opened.
LEMMA SampleType ==
  ASSUME NEW f \in SampleFormats, NEW n \in Nat, NEW bytes \in Nat
  PROVE  /\ Sample(f, n, bytes) \in [format : SampleFormats, count : Nat, taken : Nat, rest : Nat]
         /\ Sample(f, n, bytes).taken = 0 /\ Sample(f, n, bytes).count = n
         /\ Sample(f, n, bytes).rest = bytes
  BY DEF Sample

\* What is left of a sample between two samples.
LEMMA NoSampleType ==
  /\ NoSample \in [format : SampleFormats, count : Nat, taken : Nat, rest : Nat]
  /\ NoSample.taken = 0 /\ NoSample.count = 0 /\ NoSample.rest = 0
<1>1. "flow" \in SampleFormats
  BY DEF SampleFormats, SampleBytes
<1> QED
  BY <1>1, SampleType DEF NoSample

\* The fixed part of a sample has a size.
LEMMA SampleBytesType == SampleBytes \in [SampleFormats -> Nat]
  BY DEF SampleBytes, SampleFormats

\* A decoder that returns is where it was before the datagram.
LEMMA SFlowReturnKeeps ==
  ASSUME SFlowAssumption, SFlowReturn
  PROVE  SFlowInv'
<1>1. 0 \in 0 .. MaxCount
  BY DEF SFlowAssumption
<1> QED
  BY <1>1, PacketType, NoSampleType
     DEF SFlowReturn, SFlowInv, SFlowTypeOK, SFlowAligned, IdleIsEmpty, WorkIsBoundedByBytes

\* No datagram has been opened.
LEMMA SFlowInitially ==
  ASSUME SFlowAssumption, SFlowInit
  PROVE  SFlowInv
<1>1. 0 \in 0 .. MaxCount
  BY DEF SFlowAssumption
<1> QED
  BY <1>1, PacketType, NoSampleType
     DEF SFlowInit, SFlowInv, SFlowTypeOK, SFlowAligned, IdleIsEmpty, WorkIsBoundedByBytes

\* Opening a datagram.
LEMMA DecodeMessageKeeps ==
  ASSUME SFlowAssumption, SFlowInv, SFlowDecodeMessage
  PROVE  SFlowInv'
<1>1. PICK n \in SFlowCounts, bytes \in Datagrams : n <= MaxCount /\ pkt' = Packet(n, bytes)
  BY DEF SFlowDecodeMessage
<1>2. n \in 0 .. MaxCount /\ bytes \in Nat
  BY <1>1 DEF SFlowAssumption
<1>3. smp' = smp /\ smp.rest = 0 /\ spc' = "samples"
  BY DEF SFlowDecodeMessage, SFlowInv, IdleIsEmpty
<1> QED
  BY <1>1, <1>2, <1>3, PacketType
     DEF SFlowInv, SFlowTypeOK, SFlowAligned, IdleIsEmpty, WorkIsBoundedByBytes

\* A sample takes its header and its announced length from the datagram, and
\* has no more than that length for its records.
LEMMA DecodeSampleKeeps ==
  ASSUME SFlowAssumption, SFlowInv, DecodeSample
  PROVE  SFlowInv'
<1>1. PICK length \in SampleLengths, f \in SampleFormats, n \in SFlowCounts :
        /\ length <= pkt.left - 8 /\ length >= SampleBytes[f]
        /\ pkt' = [pkt EXCEPT !.taken = @ + 1, !.left = @ - (8 + length),
                              !.sum = @ + 8 + length]
        /\ smp' = Sample(f, n, length - SampleBytes[f])
  BY DEF DecodeSample
<1>2. length \in Nat /\ n \in Nat /\ SampleBytes[f] \in Nat
  BY SampleBytesType DEF SFlowAssumption
<1> DEFINE rest == length - SampleBytes[f]
<1>3. rest \in Nat
  BY <1>1, <1>2
<1>4. /\ smp' \in [format : SampleFormats, count : Nat, taken : Nat, rest : Nat]
      /\ smp'.taken = 0 /\ smp'.count = n /\ smp'.rest = rest
  BY <1>1, <1>2, <1>3, SampleType
<1>5. /\ pkt' \in [count : 0 .. MaxCount, taken : Nat, start : Nat, left : Nat,
                   sum : Nat, records : Nat]
      /\ pkt'.taken = pkt.taken + 1 /\ pkt'.left = pkt.left - (8 + length)
      /\ pkt'.sum = pkt.sum + 8 + length /\ pkt'.start = pkt.start
      /\ pkt'.records = pkt.records /\ pkt'.count = pkt.count
  <2>1. pkt \in [count : 0 .. MaxCount, taken : Nat, start : Nat, left : Nat,
                 sum : Nat, records : Nat]
    BY DEF SFlowInv, SFlowTypeOK
  <2>2. /\ pkt.taken + 1 \in Nat /\ pkt.left - (8 + length) \in Nat
        /\ pkt.sum + 8 + length \in Nat
    BY <1>1, <1>2, <2>1
  <2> QED
    BY <1>1, <2>1, <2>2
<1>6. pkt.taken < pkt.count /\ spc' = "records"
  BY DEF DecodeSample, MoreSamples
<1>7. SFlowTypeOK'
  BY <1>2, <1>4, <1>5, <1>6 DEF SFlowInv, SFlowTypeOK, SFlowAssumption
<1>8. SFlowAligned' /\ IdleIsEmpty'
  BY <1>2, <1>5, <1>6 DEF SFlowInv, SFlowTypeOK, SFlowAligned, IdleIsEmpty
<1>9. WorkIsBoundedByBytes'
  BY <1>2, <1>3, <1>4, <1>5 DEF SFlowInv, SFlowTypeOK, WorkIsBoundedByBytes
<1> QED
  BY <1>7, <1>8, <1>9 DEF SFlowInv

\* A record takes its header and its announced length from the sample.
LEMMA DecodeRecordKeeps ==
  ASSUME SFlowAssumption, SFlowInv, DecodeRecord
  PROVE  SFlowInv'
<1>1. PICK length \in RecordLengths :
        /\ length <= smp.rest - 8
        /\ smp' = [smp EXCEPT !.taken = @ + 1, !.rest = @ - (8 + length)]
  BY DEF DecodeRecord
<1>2. length \in Nat
  BY DEF SFlowAssumption
<1>3. /\ smp' \in [format : SampleFormats, count : Nat, taken : Nat, rest : Nat]
      /\ smp'.taken = smp.taken + 1 /\ smp'.count = smp.count
      /\ smp'.rest = smp.rest - (8 + length)
  <2>1. smp \in [format : SampleFormats, count : Nat, taken : Nat, rest : Nat]
    BY DEF SFlowInv, SFlowTypeOK
  <2>2. smp.taken + 1 \in Nat /\ smp.rest - (8 + length) \in Nat
    BY <1>1, <1>2, <2>1
  <2> QED
    BY <1>1, <2>1, <2>2
<1>4. /\ pkt' \in [count : 0 .. MaxCount, taken : Nat, start : Nat, left : Nat,
                   sum : Nat, records : Nat]
      /\ pkt'.taken = pkt.taken /\ pkt'.left = pkt.left /\ pkt'.sum = pkt.sum
      /\ pkt'.start = pkt.start /\ pkt'.count = pkt.count
      /\ pkt'.records = pkt.records + 1
  BY DEF DecodeRecord, SFlowInv, SFlowTypeOK
<1>5. spc' = "records" /\ smp.taken < smp.count
  BY DEF DecodeRecord, SFlowMoreRecords
<1>6. SFlowTypeOK'
  BY <1>3, <1>4, <1>5 DEF SFlowInv, SFlowTypeOK
<1>7. SFlowAligned' /\ IdleIsEmpty'
  BY <1>4, <1>5 DEF SFlowInv, SFlowAligned, IdleIsEmpty
<1>8. WorkIsBoundedByBytes'
  BY <1>2, <1>3, <1>4 DEF SFlowInv, SFlowTypeOK, WorkIsBoundedByBytes
<1> QED
  BY <1>6, <1>7, <1>8 DEF SFlowInv

\* Leaving a sample: the bytes behind it are those its length announced.
LEMMA EndOfSampleKeeps ==
  ASSUME SFlowInv, EndOfSample
  PROVE  SFlowInv'
<1>1. spc' = "samples" /\ smp' = NoSample /\ pkt' = pkt
  BY DEF EndOfSample
<1> QED
  BY <1>1, NoSampleType DEF SFlowInv, SFlowTypeOK, SFlowAligned, IdleIsEmpty, WorkIsBoundedByBytes

\* Every action keeps the invariant.
LEMMA SFlowInductive ==
  ASSUME SFlowAssumption, SFlowInv, [SFlowNext]_sflowVars
  PROVE  SFlowInv'
<1>1. CASE SFlowDecodeMessage
  BY <1>1, DecodeMessageKeeps
<1>2. CASE SFlowEndOfMessage \/ BadSample \/ BadRecord
  BY <1>2, SFlowReturnKeeps DEF SFlowEndOfMessage, BadSample, BadRecord
<1>3. CASE DecodeSample
  BY <1>3, DecodeSampleKeeps
<1>4. CASE DecodeRecord
  BY <1>4, DecodeRecordKeeps
<1>5. CASE EndOfSample
  BY <1>5, EndOfSampleKeeps
<1>6. CASE UNCHANGED sflowVars
  BY <1>6 DEF sflowVars, SFlowInv, SFlowTypeOK, SFlowAligned, IdleIsEmpty, WorkIsBoundedByBytes
<1> QED
  BY <1>1, <1>2, <1>3, <1>4, <1>5, <1>6 DEF SFlowNext, SFlowStep

\* The decoder keeps the types of its variables and fills no more slots than
\* were announced.
THEOREM SFlowTypes ==
  ASSUME SFlowAssumption
  PROVE  SFlowSpec => []SFlowTypeOK
<1>1. SFlowInv => SFlowTypeOK
  BY DEF SFlowInv
<1> QED
  BY <1>1, SFlowInitially, SFlowInductive, PTL DEF SFlowSpec

\* Each sample is read behind the announced length of the one before, for
\* records of any kind, number and length (sflow.go 544-560).
THEOREM SamplesStayAligned ==
  ASSUME SFlowAssumption
  PROVE  SFlowSpec => []SamplesAreAligned
<1>1. SFlowInv => SamplesAreAligned
  BY DEF SFlowInv, SFlowAligned, SamplesAreAligned
<1> QED
  BY <1>1, SFlowInitially, SFlowInductive, PTL DEF SFlowSpec

\* The slots filled for a datagram are bounded by an eighth of its bytes, even
\* in expanded flow samples, whose count the decoder does not limit
\* (sflow.go 435, 456, 544).
THEOREM BytesBoundTheWork ==
  ASSUME SFlowAssumption
  PROVE  SFlowSpec => []WorkIsBoundedByBytes
<1>1. SFlowInv => WorkIsBoundedByBytes
  BY DEF SFlowInv
<1> QED
  BY <1>1, SFlowInitially, SFlowInductive, PTL DEF SFlowSpec

\* A step ends the datagram, or leaves less of it, or leaves a sample, or leaves
\* less of the sample it is in.
SFlowProgress ==
  \/ spc' = "idle"
  \/ pkt'.left < pkt.left
  \/ pkt'.left = pkt.left /\ spc = "records" /\ spc' = "samples"
  \/ pkt'.left = pkt.left /\ spc' = spc /\ smp'.rest < smp.rest
SFlowStepsMakeProgress == [][SFlowStep => SFlowProgress]_sflowVars

\* Its measure of three parts falls in every step.
LEMMA SFlowStepProgresses ==
  ASSUME SFlowAssumption, SFlowInv, SFlowStep
  PROVE  SFlowProgress
<1>1. CASE SFlowEndOfMessage \/ BadSample \/ BadRecord
  BY <1>1 DEF SFlowEndOfMessage, BadSample, BadRecord, SFlowReturn, SFlowProgress
<1>2. CASE DecodeSample
  <2>1. PICK length \in SampleLengths :
          pkt' = [pkt EXCEPT !.taken = @ + 1, !.left = @ - (8 + length),
                             !.sum = @ + 8 + length]
    BY <1>2 DEF DecodeSample
  <2>2. length \in Nat /\ pkt.left \in Nat /\ pkt'.left = pkt.left - (8 + length)
    BY <2>1 DEF SFlowAssumption, SFlowInv, SFlowTypeOK
  <2> QED
    BY <2>2 DEF SFlowProgress
<1>3. CASE DecodeRecord
  <2>1. PICK length \in RecordLengths :
          smp' = [smp EXCEPT !.taken = @ + 1, !.rest = @ - (8 + length)]
    BY <1>3 DEF DecodeRecord
  <2>2. length \in Nat /\ smp.rest \in Nat /\ smp'.rest = smp.rest - (8 + length)
    BY <2>1 DEF SFlowAssumption, SFlowInv, SFlowTypeOK
  <2>3. pkt'.left = pkt.left /\ spc' = spc
    BY <1>3 DEF DecodeRecord, SFlowInv, SFlowTypeOK
  <2> QED
    BY <2>2, <2>3 DEF SFlowProgress
<1>4. CASE EndOfSample
  BY <1>4 DEF EndOfSample, SFlowProgress
<1> QED
  BY <1>1, <1>2, <1>3, <1>4 DEF SFlowStep

\* The loops over samples and records end for every datagram, whatever lengths
\* and counts it announces (sflow.go 456, 544).
THEOREM SFlowDecodingProgresses ==
  ASSUME SFlowAssumption
  PROVE  SFlowSpec => SFlowStepsMakeProgress
<1>1. SFlowInv /\ [SFlowNext]_sflowVars => [SFlowStep => SFlowProgress]_sflowVars
  BY SFlowStepProgresses
<1> QED
  BY <1>1, SFlowInitially, SFlowInductive, PTL DEF SFlowSpec, SFlowStepsMakeProgress
=============================================================================
