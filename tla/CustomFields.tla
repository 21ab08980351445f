----------------------------- MODULE CustomFields -----------------------------
(***************************************************************************)
(* The fields a mapping file adds to the flows: config_impl.go compiles    *)
(* it, ParsePacket takes the bits it names out of the layers of a packet,  *)
(* MapCustom of reflect.go appends them to the message as unknown protobuf *)
(* fields, and messages.go finds them again when it renders the message.   *)
(* Names other parts of the decoding have as well stand here with Custom.  *)
(***************************************************************************)
EXTENDS Integers, Sequences

CONSTANTS
  ByteBits,     \* 8
  NumberBytes,  \* 8, the bytes of a uint64
  CustomFrames, \* packets: sequences of bytes
  MaxTaken,     \* bound: values collected for a name before a layer is mapped
  LayerStarts,  \* bytes of a packet before the layer that is mapped
  Names,        \* names of fields: any strings, "" among them
  Types,        \* types of fields: any strings, known or not
  Formatters,   \* formatter.protobuf: sequences of [name, index, type, array]
  Mappings      \* sflow.mapping: sequences of [destination, encap, offset, length, endian]

VARIABLES
  cpc,       \* "start", "ready", "packet", "layer" or "exit"
  formatter, \* the custom protobuf fields of the mapping file
  mapping,   \* the bits to collect, the layer they belong to left out
  data,      \* the packet being parsed
  tunnel,    \* whether its parser has entered a tunnel
  layer,     \* the bytes before the layer being mapped
  entry,     \* the entry of the mapping that is next for it
  unknown,   \* the unknown fields of its message, in order
  taken      \* all values collected for each name, in order

customVars == <<cpc, formatter, mapping, data, tunnel, layer, entry, unknown, taken>>

TwoTo[n \in Nat] == IF n = 0 THEN 1 ELSE 2 * TwoTo[n - 1]
ByteValues == 0 .. TwoTo[ByteBits] - 1
CustomField == [name : Names, index : Int, type : Types, array : BOOLEAN]
MapEntry == [destination : Names, encap : BOOLEAN, offset : Nat, length : Nat,
             endian : {"big", "little"}]
ASSUME CustomAssumption ==
  /\ ByteBits \in Nat \ {0} /\ NumberBytes \in Nat /\ MaxTaken \in Nat
  /\ LayerStarts \subseteq Nat
ASSUME MappingAssumption ==
  /\ "" \in Names /\ "varint" \in Types
  /\ \A d \in CustomFrames : d \in Seq(ByteValues)
  /\ \A f \in Formatters : f \in Seq(CustomField)
  /\ \A m \in Mappings : m \in Seq(MapEntry)

ProtoTypeMap == [varint |-> "varint", string |-> "string", bytes |-> "string"]

Ceil(n) == (n + ByteBits - 1) \div ByteBits

(* Mutant: bits are not completed from the byte that follows.               *)
ShiftedAlone(used, n, s) ==
  [i \in 1 .. n |-> IF i <= Len(used) THEN (used[i] * TwoTo[s]) % TwoTo[ByteBits] ELSE 0]

(* Bits of d as bytes: all but the last byte are full, the bits of the last *)
(* are moved to its right end.                                              *)
Shifted(used, n, s) ==
  [i \in 1 .. n |->
     (IF i <= Len(used) THEN (used[i] * TwoTo[s]) % TwoTo[ByteBits] ELSE 0)
     + (IF i + 1 <= Len(used) THEN used[i + 1] \div TwoTo[ByteBits - s] ELSE 0)]
GetBytes(d, offset, length) ==
  LET end == IF Ceil(offset + length) < Len(d) THEN Ceil(offset + length) ELSE Len(d)
      used == SubSeq(d, offset \div ByteBits + 1, end)
      n == Ceil(length)
      bytes == Shifted(used, n, offset % ByteBits)
      unused == (ByteBits - (length % ByteBits)) % ByteBits
  IN IF Len(d) * ByteBits < offset \/ length = 0 THEN <<>>
     ELSE [bytes EXCEPT ![n] = @ \div TwoTo[unused]]

DecodeUNumber(b) ==
  LET number[i \in 0 .. Len(b)] ==
        IF i = 0 THEN 0 ELSE number[i - 1] * TwoTo[ByteBits] + b[i]
  IN number[Len(b)]
DecodeUNumberLE(b) == DecodeUNumber([i \in 1 .. Len(b) |-> b[Len(b) + 1 - i]])

-----------------------------------------------------------------------------
(* pbMap and numToPb: later entries replace earlier ones.                   *)
Latest(is) ==
  IF is = {} THEN [name |-> "", index |-> 0, type |-> "varint", array |-> FALSE]
  ELSE formatter[CHOOSE i \in is : \A j \in is : j <= i]
ByName(name) == Latest({i \in DOMAIN formatter : formatter[i].name = name})
ByIndex(index) == Latest({i \in DOMAIN formatter : formatter[i].index = index})

MapEntries == {mapping[i] : i \in DOMAIN mapping}

CustomInit ==
  /\ cpc = "start"
  /\ formatter \in Formatters /\ mapping \in Mappings
  /\ data = <<>> /\ tunnel = FALSE /\ layer = 0 /\ entry = 1 /\ unknown = <<>>
  /\ taken = [n \in {m.destination : m \in MapEntries} |-> <<>>]

(* The program ends if a mapped field has a type that is not known.         *)
MapConfig ==
  /\ cpc = "start"
  /\ cpc' = IF \E m \in MapEntries : ByName(m.destination).type \notin DOMAIN ProtoTypeMap
            THEN "exit" ELSE "ready"
  /\ UNCHANGED <<formatter, mapping, data, tunnel, layer, entry, unknown, taken>>

Fresh ==
  /\ tunnel' = FALSE /\ layer' = 0 /\ entry' = 1 /\ unknown' = <<>>
  /\ taken' = [n \in DOMAIN taken |-> <<>>]
  /\ UNCHANGED <<formatter, mapping>>
CustomParsePacket == cpc = "ready" /\ cpc' = "packet" /\ data' \in CustomFrames /\ Fresh
CustomEndOfPacket == cpc = "packet" /\ cpc' = "ready" /\ data' = <<>> /\ Fresh

EnterTunnel ==
  /\ cpc = "packet" /\ ~tunnel /\ tunnel' = TRUE
  /\ UNCHANGED <<cpc, formatter, mapping, data, layer, entry, unknown, taken>>

(* The parser is at a layer of the mapping: the iterator over its entries.  *)
MapLayer ==
  /\ cpc = "packet" /\ cpc' = "layer" /\ \A n \in DOMAIN taken : Len(taken[n]) <= MaxTaken
  /\ layer' \in LayerStarts /\ layer' <= Len(data) /\ entry' = 1
  /\ UNCHANGED <<formatter, mapping, data, tunnel, unknown, taken>>

MoreEntries == cpc = "layer" /\ entry <= Len(mapping)
NextEntry == entry' = entry + 1 /\ UNCHANGED <<cpc, formatter, mapping, data, tunnel, layer>>

(* An entry for the other side of the tunnel.                               *)
SkipEntry ==
  /\ MoreEntries /\ mapping[entry].encap # tunnel
  /\ NextEntry /\ UNCHANGED <<unknown, taken>>

Selected == MoreEntries /\ mapping[entry].encap = tunnel
Extracted(m) == GetBytes(data, layer * ByteBits + m.offset, m.length)
Fails(m) ==
  /\ ByName(m.destination).index > 0
  /\ ProtoTypeMap[ByName(m.destination).type] = "varint"
  /\ Len(Extracted(m)) > NumberBytes
MappedValue(m) ==
  IF ProtoTypeMap[ByName(m.destination).type] = "string" THEN Extracted(m)
  ELSE << IF m.endian = "little" THEN DecodeUNumberLE(Extracted(m))
          ELSE DecodeUNumber(Extracted(m)) >>

(* The bits of an entry become the value of its field, if the destination   *)
(* is one.                                                                  *)
MapCustom ==
  /\ Selected /\ NextEntry
  /\ LET m == mapping[entry] f == ByName(m.destination) IN
     /\ ~Fails(m)
     /\ unknown' = IF f.index > 0 THEN Append(unknown, [index |-> f.index, value |-> MappedValue(m)])
                   ELSE unknown
     /\ taken' = [taken EXCEPT ![m.destination] = Append(@, <<m, layer>>)]

(* A number of too many bytes: the datagram is given up.                    *)
MapCustomFails == Selected /\ Fails(mapping[entry]) /\ cpc' = "ready" /\ data' = <<>> /\ Fresh

EndOfLayer ==
  /\ cpc = "layer" /\ ~MoreEntries /\ cpc' = "packet"
  /\ UNCHANGED <<formatter, mapping, data, tunnel, layer, entry, unknown, taken>>

CustomNext ==
  \/ MapConfig \/ CustomParsePacket \/ CustomEndOfPacket \/ EnterTunnel
  \/ MapLayer \/ SkipEntry \/ MapCustom \/ MapCustomFails \/ EndOfLayer

CustomSpec == CustomInit /\ [][CustomNext]_customVars

-----------------------------------------------------------------------------
(* The types of the variables; unknown fields have an index of the file.    *)
CustomTypeOK ==
  /\ cpc \in {"start", "ready", "packet", "layer", "exit"}
  /\ formatter \in Formatters /\ mapping \in Mappings
  /\ data \in CustomFrames \cup {<<>>} /\ tunnel \in BOOLEAN
  /\ layer \in LayerStarts \cup {0} /\ entry \in 1 .. Len(mapping) + 1
  /\ unknown \in Seq([index : Int, value : Seq(Nat)])
  /\ \A i \in DOMAIN unknown :
       unknown[i].index > 0 /\ ByIndex(unknown[i].index).index = unknown[i].index
  /\ taken \in [{m.destination : m \in MapEntries} -> Seq(MapEntry \X (LayerStarts \cup {0}))]

(* mapUnknown: the values under a name, of which one that is no array keeps *)
(* the last; the name is looked up by the index.                            *)
MapUnknown(name) ==
  LET found[k \in 0 .. Len(unknown)] ==
        IF k = 0 THEN <<>>
        ELSE IF ByIndex(unknown[k].index).name # name THEN found[k - 1]
        ELSE IF ByIndex(unknown[k].index).array THEN Append(found[k - 1], unknown[k].value)
        ELSE <<unknown[k].value>>
  IN found[Len(unknown)]

(* The reference: bit k of a packet, and the number the bits from offset    *)
(* make, those behind the end of the packet being zeros.                    *)
Bit(d, k) ==
  IF k >= Len(d) * ByteBits THEN 0
  ELSE (d[k \div ByteBits + 1] \div TwoTo[ByteBits - 1 - (k % ByteBits)]) % 2
BitsNumber(d, offset, length) ==
  LET number[i \in Nat] == IF i = 0 THEN 0 ELSE 2 * number[i - 1] + Bit(d, offset + i - 1)
  IN number[length]

(* The value a flow is rendered with is made of the bits the mapping names, *)
(* in the last layer that has them, or in all of them in order if the field *)
(* is an array: through the protobuf encoding and back, names share no      *)
(* index. For lengths that are no multiple of a byte this holds up to one   *)
(* byte only (reflect.go 13-98, 190-228, messages.go 128-174).              *)
Distinct == \A i, j \in DOMAIN formatter :
  i # j => formatter[i].name # formatter[j].name /\ formatter[i].index # formatter[j].index
Even(m) == m.length <= ByteBits \/ m.length % ByteBits = 0
Expected(n) ==
  LET all == [i \in 1 .. Len(taken[n]) |->
                << BitsNumber(data, taken[n][i][2] * ByteBits + taken[n][i][1].offset,
                              taken[n][i][1].length) >>]
  IN IF ByName(n).array \/ all = <<>> THEN all ELSE <<all[Len(all)]>>
Readable(n) ==
  /\ ByName(n).type = "varint" /\ ByName(n).index > 0
  /\ \A m \in MapEntries : Even(m) /\ m.endian = "big"
RenderedIsTheBits ==
  Distinct => \A n \in DOMAIN taken : Readable(n) => MapUnknown(n) = Expected(n)
=============================================================================
