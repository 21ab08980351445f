---------------------------- MODULE NetFlowDecode ----------------------------
(***************************************************************************)
(* The NetFlow v9 and IPFIX decoder of decoders/netflow/netflow.go: the    *)
(* walk over the flow sets of a datagram, over the records of a template   *)
(* set and over the records of a data set.                                 *)
(*                                                                         *)
(* A buffer is the number of bytes left in it; what is read from it may    *)
(* be any value, so a read is a choice. The declared lengths and counts    *)
(* need not agree with the bytes that are there.                           *)
(***************************************************************************)
EXTENDS Integers, Sequences, FiniteSets

CONSTANTS
  MaxBytes,      \* bound: bytes of a datagram after its message header
  Word,          \* 2^16, the range of Count, Length and uint16(read)
  Counts,        \* Counts of a v9 header
  MessageLengths,\* Lengths of an IPFIX header
  SetLengths,    \* Lengths of a flow set header
  Ids,           \* template ids, 256 and above
  FieldLengths,  \* lengths of fields, Var excluded
  MaxFields,     \* bound: fields of a template
  VarLengths,    \* lengths that precede a value of variable length
  Var,           \* the length 0xffff of a field of variable length
  NoTemplate

ASSUME DecodeAssumption ==
  \* A datagram and its message header are shorter than 2^16 bytes.
  /\ MaxBytes \in Nat /\ Word \in Nat /\ MaxBytes + 16 < Word
  /\ Counts \subseteq 0 .. Word - 1 /\ MessageLengths \subseteq 0 .. Word - 1
  /\ SetLengths \subseteq Nat /\ FieldLengths \subseteq Nat /\ MaxFields \in Nat
  /\ VarLengths \subseteq 0 .. Word - 1
  /\ Var \notin FieldLengths

VARIABLES
  pc,       \* where the worker is: "idle", "message", "templates" or "data"
  version,  \* 9 or 10
  msg,      \* the message being decoded
  set,      \* the flow set being decoded
  store     \* the exporter's templates

vars == <<pc, version, msg, set, store>>

Lists == UNION {[1 .. n -> FieldLengths \cup {Var}] : n \in 0 .. MaxFields}

(* TemplateRecord and the two options template records: a TemplateRecord    *)
(* is one without scopes, and is decoded in the same way.                   *)
Templates == [scopes : Lists, fields : Lists]

Sum(s) == LET f[i \in 0 .. Len(s)] == IF i = 0 THEN 0 ELSE f[i - 1] + s[i]
          IN f[Len(s)]
Least(a, b) == IF a < b THEN a ELSE b
Monus(a, b) == IF a < b THEN 0 ELSE a - b

(* declared is Count or Length of the header, start and left are the bytes  *)
(* after it and those not yet read; taken flow sets have been read, which   *)
(* declared sum bytes in all, and the last of them begins at begin.         *)
Message(d, n) ==
  [declared |-> d, start |-> n, left |-> n, taken |-> 0, sum |-> 0, begin |-> 0]

(* room bytes belong to the set and rest are left of them; batch holds the  *)
(* templates read, options tells which kind they are; tmpl is the template  *)
(* of a data set, of which records are read, all of them whole if none has  *)
(* a value cut short or left empty.                                         *)
NoSet == [room |-> 0, rest |-> 0, options |-> FALSE, batch |-> <<>>,
          tmpl |-> NoTemplate, records |-> 0, whole |-> TRUE]

(* Mutant: the length of an IPFIX message taken for that of its sets.       *)
SizeWithHeader == msg.declared

(* The size the message loop compares: Count, or Length less the header in  *)
(* the arithmetic of uint16.                                                *)
Size == IF version = 9 THEN msg.declared ELSE (msg.declared - 16) % Word

GetTemplateSize(list) == Sum([i \in DOMAIN list |-> IF list[i] = Var THEN 0 ELSE list[i]])
RecordSize(t) == GetTemplateSize(t.scopes) + GetTemplateSize(t.fields)
Fixed(t) == \A list \in {t.scopes, t.fields} : \A i \in DOMAIN list : list[i] # Var

-----------------------------------------------------------------------------
Init ==
  /\ pc = "idle" /\ version \in {9, 10}
  /\ msg = Message(0, 0) /\ set = NoSet
  /\ store = [i \in Ids |-> NoTemplate]

(* A datagram arrives whose message header can be read; one whose header is *)
(* cut short or of another version changes nothing.                         *)
DecodeMessage ==
  /\ pc = "idle" /\ pc' = "message"
  /\ \E d \in IF version = 9 THEN Counts ELSE MessageLengths, n \in 0 .. MaxBytes :
       msg' = Message(d, n)
  /\ UNCHANGED <<version, set, store>>

More ==
  /\ msg.left > 0
  /\ IF version = 9 THEN msg.taken < Size ELSE (msg.start - msg.left) % Word < Size

(* The decoder returns; what it has stored stays.                           *)
Return ==
  /\ pc' = "idle" /\ msg' = Message(0, 0) /\ set' = NoSet
  /\ UNCHANGED <<version, store>>

EndOfMessage == pc = "message" /\ ~More /\ Return

(* A flow set header that is cut short, declares less than its own length   *)
(* or has an id that belongs to no kind of set.                             *)
BadFlowSet == pc = "message" /\ More /\ Return

(* Mutant: the length of a set taken for that of its contents.              *)
TakeFlowSetAndHeader(length) ==
  /\ pc = "message" /\ More /\ msg.left >= 4 /\ length >= 4
  /\ msg' = [msg EXCEPT !.left = Monus(@ - 4, length), !.begin = msg.start - msg.left,
                        !.taken = @ + 1, !.sum = @ + length]
  /\ UNCHANGED <<version, store>>

(* Mutant: a set may be longer than the datagram.                           *)
TakeFlowSetUnlimited(length) ==
  /\ pc = "message" /\ More /\ msg.left >= 4 /\ length >= 4
  /\ msg' = [msg EXCEPT !.left = @ - length, !.begin = msg.start - msg.left,
                        !.taken = @ + 1, !.sum = @ + length]
  /\ UNCHANGED <<version, store>>

(* Read the header of a flow set and cut its bytes off the datagram.        *)
TakeFlowSet(length) ==
  /\ pc = "message" /\ More /\ msg.left >= 4 /\ length >= 4
  /\ msg' = [msg EXCEPT !.left = Monus(@, length), !.begin = msg.start - msg.left,
                        !.taken = @ + 1, !.sum = @ + length]
  /\ UNCHANGED <<version, store>>
Room(length) == Least(length, msg.left) - 4
OpenSet(length) == [NoSet EXCEPT !.room = Room(length), !.rest = Room(length)]

TakeTemplateSet ==
  \E length \in SetLengths, o \in BOOLEAN :
    /\ TakeFlowSet(length)
    /\ set' = [OpenSet(length) EXCEPT !.options = o]
    /\ pc' = "templates"

TakeDataSet ==
  \E length \in SetLengths, id \in Ids :
    /\ TakeFlowSet(length)
    /\ store[id] # NoTemplate
    /\ set' = [OpenSet(length) EXCEPT !.tmpl = store[id]]
    /\ pc' = "data"

(* A data set whose template is not known is kept as raw bytes; the loop    *)
(* goes on and the message ends with the error.                             *)
SkipDataSet ==
  \E length \in SetLengths, id \in Ids :
    /\ TakeFlowSet(length)
    /\ store[id] = NoTemplate
    /\ UNCHANGED <<pc, set>>

-----------------------------------------------------------------------------
TemplateHeader == IF set.options THEN 6 ELSE 4

(* One template record; an enterprise number takes four bytes more and is   *)
(* looked for in IPFIX only.                                                *)
ReadTemplate ==
  /\ pc = "templates" /\ set.rest >= 4
  /\ \E id \in Ids, t \in Templates :
       LET n == Len(t.scopes) + Len(t.fields) IN
       /\ n <= MaxFields /\ (set.options \/ t.scopes = <<>>)
       /\ \E enterprise \in IF version = 10 THEN 0 .. n ELSE {0} :
            LET bytes == TemplateHeader + 4 * n + 4 * enterprise IN
            /\ bytes <= set.rest
            /\ set' = [set EXCEPT !.rest = @ - bytes,
                                  !.batch = Append(@, [id |-> id, tmpl |-> t])]
  /\ UNCHANGED <<pc, version, msg, store>>

(* A template that declares more fields than the set has bytes, or fewer    *)
(* fields than scopes, ends the message.                                    *)
BadTemplate == pc = "templates" /\ set.rest >= 4 /\ Return

(* Once the set is read its templates are added, one after the other.       *)
AddTemplates ==
  /\ pc = "templates" /\ set.rest < 4
  /\ store' = [i \in Ids |->
       LET of == {k \in DOMAIN set.batch : set.batch[k].id = i} IN
       IF of = {} THEN store[i]
       ELSE set.batch[CHOOSE k \in of : \A j \in of : j <= k].tmpl]
  /\ pc' = "message" /\ set' = NoSet
  /\ UNCHANGED <<version, msg>>

-----------------------------------------------------------------------------
(* The bytes each value takes, given the lengths read in front of values    *)
(* of variable length: one byte, or three if the first is 0xff.             *)
Head1(n) == IF n < 255 THEN 1 ELSE 3
Need(list, lengths) ==
  [i \in DOMAIN list |-> IF list[i] = Var THEN Head1(lengths[i]) + lengths[i] ELSE list[i]]

(* DecodeDataSetUsingFields on b bytes: the read of a length may fail, the  *)
(* read of a value takes what is there, and with fewer bytes than the       *)
(* template's size the values are left empty.                               *)
Starved(list, lengths, b) ==
  /\ b >= GetTemplateSize(list)
  /\ \E i \in DOMAIN list :
       /\ list[i] = Var
       /\ Sum(SubSeq(Need(list, lengths), 1, i - 1)) + Head1(lengths[i]) > b
After(list, lengths, b) ==
  IF b >= GetTemplateSize(list) THEN Monus(b, Sum(Need(list, lengths))) ELSE b
Complete(list, lengths, b) == b >= Sum(Need(list, lengths))

Lengths(list) == [{i \in DOMAIN list : list[i] = Var} -> VarLengths]

(* Mutants: padding is read as a record; an empty set still has records.    *)
MoreRecordsInPadding == pc = "data" /\ set.rest > 0
MoreRecordsAlways == pc = "data"

MoreRecords == pc = "data" /\ set.rest >= RecordSize(set.tmpl)

(* One record of a data set or an options data set.                         *)
ReadRecord ==
  /\ MoreRecords
  /\ \E ls \in Lengths(set.tmpl.scopes), lf \in Lengths(set.tmpl.fields) :
       LET between == After(set.tmpl.scopes, ls, set.rest) IN
       /\ ~Starved(set.tmpl.scopes, ls, set.rest)
       /\ ~Starved(set.tmpl.fields, lf, between)
       /\ set' = [set EXCEPT
            !.rest = After(set.tmpl.fields, lf, between),
            !.records = Least(@ + 1, MaxBytes + 1),
            !.whole = @ /\ Complete(set.tmpl.scopes, ls, set.rest)
                        /\ Complete(set.tmpl.fields, lf, between)]
  /\ UNCHANGED <<pc, version, msg, store>>

(* The set ends where the length of a value should be.                      *)
StarvedRecord ==
  /\ MoreRecords
  /\ \E ls \in Lengths(set.tmpl.scopes), lf \in Lengths(set.tmpl.fields) :
       \/ Starved(set.tmpl.scopes, ls, set.rest)
       \/ Starved(set.tmpl.fields, lf, After(set.tmpl.scopes, ls, set.rest))
  /\ Return

EndOfDataSet ==
  /\ pc = "data" /\ ~MoreRecords
  /\ pc' = "message" /\ set' = NoSet
  /\ UNCHANGED <<version, msg, store>>

Decode ==
  \/ EndOfMessage \/ BadFlowSet \/ TakeTemplateSet \/ TakeDataSet \/ SkipDataSet
  \/ ReadTemplate \/ BadTemplate \/ AddTemplates
  \/ ReadRecord \/ StarvedRecord \/ EndOfDataSet

Next == DecodeMessage \/ Decode

Spec == Init /\ [][Next]_vars
(* The decoder is sequential code that a worker runs to its end.            *)
FairSpec == Spec /\ WF_vars(Decode)

-----------------------------------------------------------------------------
Messages == [declared : 0 .. Word - 1, start : 0 .. MaxBytes, left : 0 .. MaxBytes,
             taken : Nat, sum : Nat, begin : 0 .. MaxBytes]
Sets == [room : 0 .. MaxBytes, rest : 0 .. MaxBytes, options : BOOLEAN,
         batch : Seq([id : Ids, tmpl : Templates]), tmpl : Templates \cup {NoTemplate},
         records : 0 .. MaxBytes + 1, whole : BOOLEAN]

(* The types of the decoder's variables; nothing is left that was not there. *)
TypeOK ==
  /\ pc \in {"idle", "message", "templates", "data"} /\ version \in {9, 10}
  /\ msg \in Messages /\ msg.left <= msg.start
  /\ set \in Sets /\ set.rest <= set.room
  /\ pc = "data" => set.tmpl # NoTemplate
  /\ store \in [Ids -> Templates \cup {NoTemplate}]

(* Flow sets follow one another without gap or overlap: between two sets    *)
(* the bytes read are the sum of the lengths the sets declared, and a set   *)
(* that declares too much takes the rest of the datagram, not more          *)
(* (netflow.go 303-316, the truncation is that of bytes.Buffer.Next).       *)
FlowSetsAreAligned ==
  pc = "message" => msg.start - msg.left = Least(msg.start, msg.sum)

(* What ends a message that is not given up: an IPFIX message has been      *)
(* read to its declared length by sets that begin inside it, or to the end  *)
(* of the datagram, and a Length below that of the header counts as no      *)
(* limit; a v9 message has Count sets or is read to the end                 *)
(* (netflow.go 286-301 and the subtraction at 491).                         *)
MessageEndsAtItsLength ==
  (pc = "message" /\ ~More) =>
    \/ msg.left = 0
    \/ version = 9 /\ msg.taken = msg.declared
    \/ /\ version = 10 /\ msg.declared >= 16
       /\ msg.start - msg.left >= msg.declared - 16
       /\ msg.taken > 0 => msg.begin < msg.declared - 16

(* With a template without fields of variable length no record has a cut or *)
(* missing value, and records are packed: none is skipped or read twice     *)
(* (netflow.go 201-284).                                                    *)
FixedRecordsAreWhole ==
  (pc = "data" /\ Fixed(set.tmpl) /\ RecordSize(set.tmpl) > 0) =>
    /\ set.whole
    /\ set.room = set.rest + set.records * RecordSize(set.tmpl)

(* A template whose records take no byte.                                   *)
Endless == pc = "data" /\ Fixed(set.tmpl) /\ RecordSize(set.tmpl) = 0

(* Every datagram is done with, unless it uses a template whose records     *)
(* take no byte: the loop at netflow.go 271 then never ends.                *)
DecodeEnds == <>[]Endless \/ []<>(pc = "idle")
=============================================================================
