---------------------------- MODULE PacketProofs -----------------------------
(***************************************************************************)
(* Theorems about sampled packets: PacketParser, for frames of any length, *)
(* headers with any contents and any parsers registered for ports, and     *)
(* CustomFields, for any bits of any packets.                              *)
(*                                                                         *)
(* The parser's properties are not inductive. What a layer collects is     *)
(* right because of how it was reached without entering a tunnel, which    *)
(* the invariant says of the parser that is called next: addresses are     *)
(* those of the last IP header, a transport header follows one, a port     *)
(* parser's layer is always in a tunnel, and a link layer below an IP      *)
(* header has a skipped GRE header in between.                             *)
(*                                                                         *)
(* RenderedIsTheBits needs the types only, once it is known that GetBytes  *)
(* and DecodeUNumber together read a number bit by bit (NumberRead), that  *)
(* the index of a name leads back to it (NameAndIndex) and that what is    *)
(* found in the unknown fields grows with them (MoreUnknown).              *)
(***************************************************************************)
EXTENDS PacketParser, CustomFields, NumberLemmas, SequenceTheorems, TLAPS

\* Layers that only a header with a protocol number names.
ProtoLayers == {"tcp", "udp", "icmp", "icmpv6", "gre", "route", "fragment"}
\* Layers that a header with an ether type names.
LinkLayers == {"ethernet", "dot1q", "mpls"}

AddressIsLast ==
  ~encapsulated => \A i \in flow["address"] + 1 .. Len(stack) : stack[i] \notin IPs
ProtoFollowsAddress ==
  (~encapsulated /\ nextParser \in ProtoLayers) => flow["address"] # 0
PortIsLast == (~encapsulated /\ flow["port"] # 0) => nextParser \in NoParser
PortParsersAreInside == nextParser \in {"teredo", "geneve"} => encapsulated

\* The layer after the k-th, which may be the one that is called next.
LayerAfter(k) == IF k < Len(stack) THEN stack[k + 1] ELSE nextParser
SkippedSince(i) ==
  \E k \in i + 1 .. Len(stack) : stack[k] = "gre" /\ LayerAfter(k) \in EncapSkip
LinkAfterSkip ==
  (~encapsulated /\ nextParser \in LinkLayers \cup IPs) =>
    \A i \in 1 .. Len(stack) : stack[i] \in IPs => SkippedSince(i)

\* The property of the fields for the first n layers of s.
Apart(s, n) ==
  \A i, j \in 1 .. n : (i < j /\ s[i] \in IPs /\ s[j] \in IPs) =>
    \E k \in i + 1 .. j - 2 : s[k] = "gre" /\ s[k + 1] \in EncapSkip
StackIsApart == ~encapsulated => Apart(stack, Len(stack))
FieldsAreApart == \A f \in Fields \ {"icmp"} : Apart(stack, flow[f])

ParserInv ==
  /\ ParserTypeOK /\ AddressIsLast /\ ProtoFollowsAddress /\ PortIsLast
  /\ PortParsersAreInside /\ PortsBelongToAddresses
  /\ LinkAfterSkip /\ StackIsApart /\ FieldsAreApart

-----------------------------------------------------------------------------
(* What the parsers have in common: the layer p is collected from, and      *)
(* names one of those that may follow it.                                   *)

Follows(p, next) ==
  /\ p \in {"ethernet", "dot1q", "gre", "geneve"} => next \in NextParserEtype
  /\ p = "mpls" => next \in IPs \cup {"nil"}
  /\ p \in {"ipv4", "ipv6", "fragment", "route"} => next \in NextParserProto
  /\ p \in Ports => next \in {"teredo", "geneve", "none"}
  /\ p = "teredo" => next = "ipv6"
  /\ p \in {"icmp", "icmpv6"} => next = "nil"

Layer(p, fields, size, next) ==
  /\ nextParser = p
  /\ stack' = Append(stack, p)
  /\ Write(fields)
  /\ encapsulated => fields \subseteq {"icmp"}
  /\ "address" \in fields => p \in IPs
  /\ (p \in IPs /\ ~encapsulated) => "address" \in fields
  /\ "port" \in fields => p \in Ports
  /\ Advance(p, size, next)
  /\ Follows(p, next)

SomeLayer ==
  \E p \in Parsers, fields \in SUBSET Fields, size \in Nat,
     next \in Parsers \cup NoParser : Layer(p, fields, size, next)

\* Collecting is writing, or writing nothing in a tunnel.
LEMMA CollectWrites ==
  ASSUME NEW fields \in SUBSET Fields, Collect(fields)
  PROVE  Write(IF encapsulated THEN {} ELSE fields)
<1>1. CASE encapsulated
  BY <1>1 DEF Collect, BaseLayer
<1>2. CASE ~encapsulated
  BY <1>2 DEF Collect, BaseLayer
<1> QED
  BY <1>1, <1>2

\* A port leads to one of the parsers registered, or to none.
LEMMA PortParserNames ==
  ASSUME PacketAssumption, ParserTypeOK, NEW proto \in Ports,
         NEW src \in PortNumbers, NEW dst \in PortNumbers
  PROVE  NextParserPort(proto, src, dst) \in {"teredo", "geneve", "none"}
<1>1. customPort \in [Keys -> {"teredo", "geneve", "none"}]
  BY DEF PacketAssumption, ParserTypeOK
<1>2. <<proto, "dst", dst>> \in Keys /\ <<proto, "src", src>> \in Keys
  BY DEF Keys
<1>3. /\ customPort[<<proto, "dst", dst>>] \in {"teredo", "geneve", "none"}
      /\ customPort[<<proto, "src", src>>] \in {"teredo", "geneve", "none"}
  BY <1>1, <1>2
<1> QED
  BY <1>3 DEF NextParserPort

\* Every parser with enough bytes takes such a step.
LEMMA ParsersAreLayers ==
  ASSUME PacketAssumption, ParserTypeOK,
         \/ ParseEthernet \/ Parse8021Q \/ ParseMPLS
         \/ ParseIPv4 \/ ParseIPv6 \/ ParseIPv6HeaderFragment \/ ParseIPv6HeaderRouting
         \/ ParseTCP \/ ParseUDP \/ ParseGRE \/ ParseTeredoDst \/ ParseGeneve
         \/ ParseICMP \/ ParseICMPv6
  PROVE  SomeLayer
<1> USE CollectWrites DEF SomeLayer, Layer, Follows, Enough, Called,
      Parsers, Etypes, Protos, NoParser, Fields, IPs, Ports
<1>1. CASE ParseEthernet
  BY <1>1 DEF ParseEthernet, NextParserEtype
<1>2. CASE Parse8021Q
  BY <1>2 DEF Parse8021Q, NextParserEtype
<1>3. CASE ParseMPLS
  BY <1>3 DEF ParseMPLS
<1>4. CASE ParseIPv4
  BY <1>4 DEF ParseIPv4, NextParserProto
<1>5. CASE ParseIPv6
  BY <1>5 DEF ParseIPv6, NextParserProto
<1>6. CASE ParseIPv6HeaderFragment
  BY <1>6 DEF ParseIPv6HeaderFragment, NextParserProto
<1>7. CASE ParseIPv6HeaderRouting
  <2>1. \A n \in Extras : 8 + 8 * n \in Nat
    BY DEF PacketAssumption
  <2> QED
    BY <1>7, <2>1 DEF ParseIPv6HeaderRouting, NextParserProto
<1>8. CASE ParseTCP
  <2>1. \A n \in Extras : 20 + 4 * n \in Nat
    BY DEF PacketAssumption
  <2> QED
    BY <1>8, <2>1, PortParserNames DEF ParseTCP
<1>9. CASE ParseUDP
  BY <1>9, PortParserNames DEF ParseUDP
<1>10. CASE ParseGRE
  BY <1>10 DEF ParseGRE, NextParserEtype
<1>11. CASE ParseTeredoDst
  BY <1>11 DEF ParseTeredoDst
<1>12. CASE ParseGeneve
  <2>1. \A n \in Extras : 8 + 4 * n \in Nat
    BY DEF PacketAssumption
  <2> QED
    BY <1>12, <2>1 DEF ParseGeneve, NextParserEtype
<1>13. CASE ParseICMP
  BY <1>13 DEF ParseICMP
<1>14. CASE ParseICMPv6
  BY <1>14 DEF ParseICMPv6
<1> QED
  BY <1>1, <1>2, <1>3, <1>4, <1>5, <1>6, <1>7, <1>8, <1>9, <1>10, <1>11, <1>12,
     <1>13, <1>14

-----------------------------------------------------------------------------
(* The steps of the invariant.                                              *)

\* Which layers are compared, and when the comparison starts a tunnel.
LEMMA WhatEncapsulates ==
  ASSUME NEW p \in Parsers, NEW next \in Parsers \cup NoParser, Follows(p, next)
  PROVE  /\ p \in Ports /\ next \notin NoParser => Encapsulates(p, next)
         /\ p = "teredo" => Encapsulates(p, next)
         /\ next \in {"teredo", "geneve"} => Encapsulates(p, next)
         /\ p \in IPs \cup ProtoLayers /\ next \in LinkLayers \cup IPs =>
              Encapsulates(p, next) \/ (p = "gre" /\ next \in EncapSkip)
         /\ next \in ProtoLayers => p \in IPs \cup ProtoLayers
         /\ p = "ethernet" /\ next = "ethernet" => Encapsulates(p, next)
  BY DEF Follows, Encapsulates, LayerIndex, EncapSkip, Parsers, NoParser, Etypes,
         Protos, IPs, Ports, LinkLayers, ProtoLayers, NextParserEtype, NextParserProto

\* No frame has been parsed.
LEMMA ParserInitially ==
  ASSUME PacketAssumption, ParserInit
  PROVE  ParserInv
<1>1. ParserTypeOK
  <2>1. stack \in Seq(Parsers) /\ flow \in [Fields -> 0 .. Len(stack)]
    BY DEF ParserInit
  <2> QED
    BY <2>1 DEF ParserInit, ParserTypeOK, PacketAssumption, NoParser
<1>2. Len(stack) = 0 /\ \A f \in Fields : flow[f] = 0
  BY DEF ParserInit
<1>3. "address" \in Fields /\ "port" \in Fields
  BY DEF Fields
<1>4. AddressIsLast /\ PortsBelongToAddresses /\ StackIsApart /\ FieldsAreApart
  BY <1>2, <1>3 DEF AddressIsLast, PortsBelongToAddresses, StackIsApart,
                    FieldsAreApart, Apart
<1>5. ProtoFollowsAddress /\ PortIsLast /\ PortParsersAreInside /\ LinkAfterSkip
  BY DEF ParserInit, ProtoFollowsAddress, PortIsLast, PortParsersAreInside, LinkAfterSkip,
         NoParser, ProtoLayers, LinkLayers, IPs
<1> QED
  BY <1>1, <1>4, <1>5 DEF ParserInv

\* A new frame begins with an empty stack.
LEMMA ParsePacketKeeps ==
  ASSUME PacketAssumption, ParserInv, ParsePacket
  PROVE  ParserInv'
<1>1. ParserTypeOK'
  <2>1. stack' \in Seq(Parsers) /\ flow' \in [Fields -> 0 .. Len(stack')]
    BY DEF ParsePacket
  <2>2. "ethernet" \in Parsers
    BY DEF Parsers, Etypes
  <2> QED
    BY <2>1, <2>2 DEF ParsePacket, ParserInv, ParserTypeOK, PacketAssumption
<1>2. Len(stack') = 0 /\ \A f \in Fields : flow'[f] = 0
  BY DEF ParsePacket
<1>3. "address" \in Fields /\ "port" \in Fields
  BY DEF Fields
<1>4. /\ AddressIsLast' /\ PortsBelongToAddresses' /\ StackIsApart' /\ FieldsAreApart'
      /\ LinkAfterSkip'
  BY <1>2, <1>3 DEF AddressIsLast, PortsBelongToAddresses, StackIsApart,
                    FieldsAreApart, Apart, LinkAfterSkip
<1>5. ProtoFollowsAddress' /\ PortIsLast' /\ PortParsersAreInside'
  BY <1>2, <1>3 DEF ParsePacket, ProtoFollowsAddress, PortIsLast, PortParsersAreInside,
                    ProtoLayers
<1> QED
  BY <1>1, <1>4, <1>5 DEF ParserInv

\* The parser that finds too few bytes leaves the flow and the stack as they are.
LEMMA ShortLayerKeeps ==
  ASSUME PacketAssumption, ParserInv, ShortLayer
  PROVE  ParserInv'
<1>1. /\ nextParser' = "nil" /\ UNCHANGED <<stack, flow, customPort, frame>>
      /\ offset' = offset + 0 /\ (encapsulated => encapsulated') /\ encapsulated' \in BOOLEAN
      /\ calls' = [q \in DOMAIN calls |-> IF q = "nil" THEN calls[q] + 1 ELSE calls[q]]
  BY DEF ShortLayer, Advance, ParserInv, ParserTypeOK
<1>2. ParserTypeOK'
  BY <1>1 DEF ParserInv, ParserTypeOK, NoParser
<1>3. /\ AddressIsLast' /\ PortsBelongToAddresses' /\ StackIsApart' /\ FieldsAreApart'
  BY <1>1 DEF ParserInv, AddressIsLast, PortsBelongToAddresses, StackIsApart,
              FieldsAreApart, Apart
<1>4. /\ ProtoFollowsAddress' /\ PortIsLast' /\ PortParsersAreInside' /\ LinkAfterSkip'
  BY <1>1 DEF ProtoFollowsAddress, PortIsLast, PortParsersAreInside, LinkAfterSkip,
              NoParser, ProtoLayers, LinkLayers, IPs
<1> QED
  BY <1>2, <1>3, <1>4 DEF ParserInv

\* What every parser of a layer does alike keeps the invariant.
LEMMA LayerKeeps ==
  ASSUME PacketAssumption, ParserInv,
         NEW p \in Parsers, NEW fields \in SUBSET Fields, NEW size \in Nat,
         NEW next \in Parsers \cup NoParser, Layer(p, fields, size, next)
  PROVE  ParserInv'
<1> DEFINE n == Len(stack)
<1> USE DEF Layer
<1>1. /\ n \in Nat /\ stack \in Seq(Parsers) /\ stack' \in Seq(Parsers)
      /\ Len(stack') = n + 1 /\ stack'[n + 1] = p
      /\ \A i \in 1 .. n : stack'[i] = stack[i]
  BY DEF ParserInv, ParserTypeOK
<1>2. \A f \in Fields : flow'[f] = IF f \in fields THEN n + 1 ELSE flow[f]
  BY DEF Write
<1>3. \A f \in Fields : flow[f] \in 0 .. n
  BY DEF ParserInv, ParserTypeOK
<1>4. "address" \in Fields /\ "port" \in Fields
  BY DEF Fields
<1>5. /\ nextParser' = next /\ nextParser = p /\ (encapsulated => encapsulated')
      /\ encapsulated' = (encapsulated \/ Encapsulates(p, next))
  BY DEF Advance
<1>6. ParserTypeOK'
  <2>1. flow' \in [Fields -> 0 .. Len(stack')]
    BY <1>1, <1>2, <1>3 DEF Write
  <2>2. offset' \in Nat /\ UNCHANGED <<customPort, frame>> /\ encapsulated' \in BOOLEAN
    BY DEF ParserInv, ParserTypeOK, Advance
  <2>3. calls' \in [{"icmp", "icmpv6"} -> Nat]
    BY DEF ParserInv, ParserTypeOK, Advance
  <2> QED
    BY <1>1, <1>5, <2>1, <2>2, <2>3 DEF ParserInv, ParserTypeOK
<1>7. AddressIsLast'
  <2> SUFFICES ASSUME ~encapsulated', NEW i \in flow'["address"] + 1 .. n + 1
               PROVE  stack'[i] \notin IPs
    BY <1>1 DEF AddressIsLast
  <2>1. ~encapsulated /\ i \in Nat /\ i >= 1
    BY <1>1, <1>2, <1>3, <1>4, <1>5
  <2>2. CASE p \in IPs
    BY <1>1, <1>2, <1>4, <2>1, <2>2
  <2>3. CASE p \notin IPs
    <3>1. flow'["address"] = flow["address"]
      BY <1>2, <1>4, <2>3
    <3> QED
      BY <1>1, <2>1, <2>3, <3>1 DEF ParserInv, AddressIsLast
  <2> QED
    BY <2>2, <2>3
<1>8. ProtoFollowsAddress'
  <2> SUFFICES ASSUME ~encapsulated', next \in ProtoLayers
               PROVE  flow'["address"] # 0
    BY <1>5 DEF ProtoFollowsAddress
  <2>1. ~encapsulated /\ p \in IPs \cup ProtoLayers
    BY <1>5, WhatEncapsulates
  <2>2. CASE p \in IPs
    BY <1>1, <1>2, <1>4, <2>1, <2>2
  <2>3. CASE p \in ProtoLayers
    BY <1>1, <1>2, <1>4, <1>5, <2>1, <2>3 DEF ParserInv, ProtoFollowsAddress
  <2> QED
    BY <2>1, <2>2, <2>3
<1>9. PortIsLast'
  <2> SUFFICES ASSUME ~encapsulated', flow'["port"] # 0
               PROVE  next \in NoParser
    BY <1>5 DEF PortIsLast
  <2>1. p \notin NoParser
    BY DEF Parsers, NoParser, Etypes, Protos
  <2>2. flow["port"] = 0
    BY <1>5, <2>1 DEF ParserInv, PortIsLast
  <2>3. p \in Ports
    BY <1>2, <1>4, <2>2
  <2> QED
    BY <1>5, <2>3, WhatEncapsulates
<1>10. PortParsersAreInside'
  BY <1>5, WhatEncapsulates DEF PortParsersAreInside
<1>11. PortsBelongToAddresses'
  <2> SUFFICES ASSUME flow'["port"] # 0
               PROVE  /\ flow'["address"] \in 1 .. flow'["port"] - 1
                      /\ \A i \in flow'["address"] + 1 .. flow'["port"] - 1 :
                           stack'[i] \notin IPs
    BY DEF PortsBelongToAddresses
  <2>1. CASE "port" \in fields
    <3>1. p \in Ports /\ ~encapsulated
      BY <2>1
    <3>2. p \notin IPs /\ p \in ProtoLayers
      BY <3>1 DEF Ports, IPs, ProtoLayers
    <3>3. flow'["address"] = flow["address"] /\ flow["address"] # 0 /\ flow'["port"] = n + 1
      BY <1>2, <1>4, <1>5, <2>1, <3>1, <3>2 DEF ParserInv, ProtoFollowsAddress
    <3>4. \A i \in flow["address"] + 1 .. n : stack[i] \notin IPs
      BY <3>1 DEF ParserInv, AddressIsLast
    <3> QED
      BY <1>1, <1>3, <1>4, <3>3, <3>4
  <2>2. CASE "port" \notin fields
    <3>1. flow'["port"] = flow["port"] /\ flow["port"] # 0
      BY <1>2, <1>4, <2>2
    <3>2. p \notin NoParser
      BY DEF Parsers, NoParser, Etypes, Protos
    <3>3. encapsulated
      BY <1>5, <3>1, <3>2 DEF ParserInv, PortIsLast
    <3>4. flow'["address"] = flow["address"]
      BY <1>2, <1>4, <3>3
    <3> QED
      BY <1>1, <1>3, <1>4, <3>1, <3>4 DEF ParserInv, PortsBelongToAddresses
  <2> QED
    BY <2>1, <2>2
<1>12. LinkAfterSkip'
  <2> SUFFICES ASSUME ~encapsulated', next \in LinkLayers \cup IPs,
                      NEW i \in 1 .. n + 1, stack'[i] \in IPs
               PROVE  \E k \in i + 1 .. n + 1 :
                        /\ stack'[k] = "gre"
                        /\ (IF k < n + 1 THEN stack'[k + 1] ELSE next) \in EncapSkip
    BY <1>1, <1>5 DEF LinkAfterSkip, SkippedSince, LayerAfter
  <2>1. ~encapsulated /\ ~Encapsulates(p, next)
    BY <1>5
  <2>2. p \in IPs \cup ProtoLayers => p = "gre" /\ next \in EncapSkip
    BY <2>1, WhatEncapsulates
  <2>3. CASE p = "gre"
    <3>1. i < n + 1
      BY <1>1, <2>3 DEF IPs
    <3>2. next \in EncapSkip
      BY <2>2, <2>3 DEF ProtoLayers
    <3> QED
      BY <1>1, <2>3, <3>1, <3>2
  <2>4. CASE p # "gre"
    <3>1. p \in LinkLayers
      BY <1>5, <2>1, <2>2, <2>4
         DEF Parsers, Etypes, Protos, IPs, ProtoLayers, LinkLayers, ParserInv, PortParsersAreInside
    <3>2. i \in 1 .. n /\ stack[i] \in IPs
      BY <1>1, <3>1 DEF LinkLayers, IPs
    <3>3. SkippedSince(i)
      BY <2>1, <3>1, <3>2 DEF ParserInv, LinkAfterSkip
    <3>4. PICK k \in i + 1 .. n : stack[k] = "gre" /\ LayerAfter(k) \in EncapSkip
      BY <3>3 DEF SkippedSince
    <3>5. stack'[k] = "gre" /\ stack'[k + 1] = LayerAfter(k) /\ k < n + 1
      BY <1>1, <3>4 DEF LayerAfter
    <3> QED
      BY <1>1, <3>4, <3>5
  <2> QED
    BY <2>3, <2>4
<1>13. \A m \in 0 .. n : Apart(stack, m) => Apart(stack', m)
  <2> SUFFICES ASSUME NEW m \in 0 .. n, Apart(stack, m),
                      NEW i \in 1 .. m, NEW j \in 1 .. m, i < j,
                      stack'[i] \in IPs, stack'[j] \in IPs
               PROVE  \E k \in i + 1 .. j - 2 :
                        stack'[k] = "gre" /\ stack'[k + 1] \in EncapSkip
    BY DEF Apart
  <2>1. stack[i] \in IPs /\ stack[j] \in IPs
    BY <1>1
  <2>2. PICK k \in i + 1 .. j - 2 : stack[k] = "gre" /\ stack[k + 1] \in EncapSkip
    BY <2>1 DEF Apart
  <2>3. k \in 1 .. n /\ k + 1 \in 1 .. n
    BY <1>1, <2>2
  <2> QED
    BY <1>1, <2>2, <2>3
<1>14. ~encapsulated => Apart(stack', n + 1)
  <2> SUFFICES ASSUME ~encapsulated, NEW i \in 1 .. n + 1, NEW j \in 1 .. n + 1, i < j,
                      stack'[i] \in IPs, stack'[j] \in IPs
               PROVE  \E k \in i + 1 .. j - 2 :
                        stack'[k] = "gre" /\ stack'[k + 1] \in EncapSkip
    BY <1>1 DEF Apart
  <2>1. CASE j \in 1 .. n
    <3>1. i \in 1 .. n /\ stack[i] \in IPs /\ stack[j] \in IPs
      BY <1>1, <2>1
    <3>2. Apart(stack, n)
      BY DEF ParserInv, StackIsApart
    <3>3. PICK k \in i + 1 .. j - 2 : stack[k] = "gre" /\ stack[k + 1] \in EncapSkip
      BY <2>1, <3>1, <3>2 DEF Apart
    <3>4. k \in 1 .. n /\ k + 1 \in 1 .. n
      BY <1>1, <2>1, <3>3
    <3> QED
      BY <1>1, <3>3, <3>4
  <2>2. CASE j = n + 1
    <3>1. i \in 1 .. n /\ stack[i] \in IPs /\ p \in IPs
      BY <1>1, <2>2
    <3>2. SkippedSince(i)
      BY <1>5, <3>1 DEF ParserInv, LinkAfterSkip
    <3>3. PICK k \in i + 1 .. n : stack[k] = "gre" /\ LayerAfter(k) \in EncapSkip
      BY <3>2 DEF SkippedSince
    <3>4. k < n
      BY <1>1, <1>5, <3>1, <3>3 DEF LayerAfter, EncapSkip, IPs
    <3>5. stack'[k] = "gre" /\ stack'[k + 1] \in EncapSkip
      BY <1>1, <3>3, <3>4 DEF LayerAfter
    <3> QED
      BY <1>1, <2>2, <3>3, <3>4, <3>5
  <2> QED
    BY <1>1, <2>1, <2>2
<1>15. StackIsApart'
  BY <1>1, <1>5, <1>14 DEF StackIsApart
<1>16. FieldsAreApart'
  <2> SUFFICES ASSUME NEW f \in Fields \ {"icmp"}
               PROVE  Apart(stack', flow'[f])
    BY DEF FieldsAreApart
  <2>1. CASE f \in fields
    <3>1. ~encapsulated /\ flow'[f] = n + 1
      BY <1>2, <2>1
    <3> QED
      BY <1>14, <3>1
  <2>2. CASE f \notin fields
    <3>1. flow'[f] = flow[f] /\ flow[f] \in 0 .. n
      BY <1>2, <1>3, <2>2
    <3>2. Apart(stack, flow[f])
      BY DEF ParserInv, FieldsAreApart
    <3> QED
      BY <1>13, <3>1, <3>2
  <2> QED
    BY <2>1, <2>2
<1> QED
  BY <1>6, <1>7, <1>8, <1>9, <1>10, <1>11, <1>12, <1>15, <1>16 DEF ParserInv

\* Every parser keeps the invariant.
LEMMA ParserInductive ==
  ASSUME PacketAssumption, ParserInv, [ParserNext]_parserVars
  PROVE  ParserInv'
<1>1. CASE ParsePacket
  BY <1>1, ParsePacketKeeps
<1>2. CASE ShortLayer
  BY <1>2, ShortLayerKeeps
<1>3. CASE ParserNext /\ ~ParsePacket /\ ~ShortLayer
  <2>1. SomeLayer
    BY <1>3, ParsersAreLayers DEF ParserNext, ParserInv
  <2> QED
    BY <2>1, LayerKeeps DEF SomeLayer
<1>4. CASE UNCHANGED parserVars
  BY <1>4 DEF parserVars, ParserInv, ParserTypeOK, AddressIsLast, ProtoFollowsAddress, PortIsLast,
              PortParsersAreInside, PortsBelongToAddresses, LinkAfterSkip, SkippedSince,
              LayerAfter, StackIsApart, FieldsAreApart
<1> QED
  BY <1>1, <1>2, <1>3, <1>4 DEF ParserNext

-----------------------------------------------------------------------------
(* Theorems                                                                 *)

\* The parser keeps the types of its variables, and no field comes from a layer
\* it has not walked over.
THEOREM PacketTypes ==
  ASSUME PacketAssumption
  PROVE  ParserSpec => []ParserTypeOK
<1>1. ParserInv => ParserTypeOK
  BY DEF ParserInv
<1> QED
  BY <1>1, ParserInitially, ParserInductive, PTL DEF ParserSpec

\* Ports are reported with the addresses of the IP header before them, for any
\* nesting of tunnels, fragments and routing headers (producer_packet.go
\* 445-447, 587, 742).
THEOREM PortsFollowAddresses ==
  ASSUME PacketAssumption
  PROVE  ParserSpec => []PortsBelongToAddresses
<1>1. ParserInv => PortsBelongToAddresses
  BY DEF ParserInv
<1> QED
  BY <1>1, ParserInitially, ParserInductive, PTL DEF ParserSpec

\* Nothing but ICMP is collected behind a second IP header, unless a GRE header
\* followed by a layer that is not compared hides the step down
\* (producer_packet.go 445-447).
THEOREM TunnelsAreNotCollected ==
  ASSUME PacketAssumption
  PROVE  ParserSpec => []InnerHeadersAreNotCollected
<1>1. ParserTypeOK /\ FieldsAreApart => InnerHeadersAreNotCollected
  BY DEF FieldsAreApart, Apart, InnerHeadersAreNotCollected, Skipped
<1>2. ParserInv => InnerHeadersAreNotCollected
  BY <1>1 DEF ParserInv
<1> QED
  BY <1>2, ParserInitially, ParserInductive, PTL DEF ParserSpec

-----------------------------------------------------------------------------
(* Why the walk over a frame ends                                           *)

\* A parser with enough bytes puts its layer on the stack and takes four bytes
\* of the frame at least. That of Teredo takes none, but is named behind UDP or
\* TCP only and names IPv6.
BytesTaken(p, size, next) ==
  /\ Running /\ nextParser = p /\ nextParser' = next
  /\ stack' = Append(stack, p) /\ offset' = offset + size /\ frame' = frame
  /\ p = "ethernet" => Left >= 14 /\ size = 14
  /\ p # "teredo" => size >= 4
  /\ p = "teredo" => size = 0 /\ next = "ipv6"
  /\ next = "teredo" => p # "ethernet" /\ size >= 8

SomeBytesTaken ==
  \E p \in Parsers, size \in Nat, next \in Parsers \cup NoParser : BytesTaken(p, size, next)

\* Which holds of every parser.
LEMMA ParsersTakeBytes ==
  ASSUME PacketAssumption, ParserTypeOK,
         \/ ParseEthernet \/ Parse8021Q \/ ParseMPLS
         \/ ParseIPv4 \/ ParseIPv6 \/ ParseIPv6HeaderFragment \/ ParseIPv6HeaderRouting
         \/ ParseTCP \/ ParseUDP \/ ParseGRE \/ ParseTeredoDst \/ ParseGeneve
         \/ ParseICMP \/ ParseICMPv6
  PROVE  SomeBytesTaken
<1> USE DEF SomeBytesTaken, BytesTaken, Advance, Enough, Called, Parsers, Etypes, Protos,
            NoParser, IPs, Ports, Bytes
<1>1. CASE ParseEthernet
  BY <1>1 DEF ParseEthernet, NextParserEtype
<1>2. CASE Parse8021Q
  BY <1>2 DEF Parse8021Q, NextParserEtype
<1>3. CASE ParseMPLS
  <2>1. \A labels \in 1 .. Left \div 4 : 4 * labels \in Nat /\ 4 * labels >= 4
    OBVIOUS
  <2> QED
    BY <1>3, <2>1 DEF ParseMPLS
<1>4. CASE ParseIPv4
  BY <1>4 DEF ParseIPv4, NextParserProto
<1>5. CASE ParseIPv6
  BY <1>5 DEF ParseIPv6, NextParserProto
<1>6. CASE ParseIPv6HeaderFragment
  BY <1>6 DEF ParseIPv6HeaderFragment, NextParserProto
<1>7. CASE ParseIPv6HeaderRouting
  <2>1. \A n \in Extras : 8 + 8 * n \in Nat /\ 8 + 8 * n >= 4
    BY DEF PacketAssumption
  <2> QED
    BY <1>7, <2>1 DEF ParseIPv6HeaderRouting, NextParserProto
<1>8. CASE ParseTCP
  <2>1. \A n \in Extras : 20 + 4 * n \in Nat /\ 20 + 4 * n >= 8
    BY DEF PacketAssumption
  <2> QED
    BY <1>8, <2>1, PortParserNames DEF ParseTCP
<1>9. CASE ParseUDP
  BY <1>9, PortParserNames DEF ParseUDP
<1>10. CASE ParseGRE
  BY <1>10 DEF ParseGRE, NextParserEtype
<1>11. CASE ParseTeredoDst
  BY <1>11 DEF ParseTeredoDst
<1>12. CASE ParseGeneve
  <2>1. \A n \in Extras : 8 + 4 * n \in Nat /\ 8 + 4 * n >= 4
    BY DEF PacketAssumption
  <2> QED
    BY <1>12, <2>1 DEF ParseGeneve, NextParserEtype
<1>13. CASE ParseICMP
  BY <1>13 DEF ParseICMP
<1>14. CASE ParseICMPv6
  BY <1>14 DEF ParseICMPv6
<1> QED
  BY <1>1, <1>2, <1>3, <1>4, <1>5, <1>6, <1>7, <1>8, <1>9, <1>10, <1>11, <1>12,
     <1>13, <1>14

\* A layer on the stack stands for four bytes of the frame.
LayersFitTheFrame == 4 * Len(stack) <= frame

\* The ten bytes are what an Ethernet header, always the first, has more; with a
\* Teredo parser to come its layer is paid for already.
LayersInv ==
  /\ ParserTypeOK /\ LayersFitTheFrame
  /\ stack = <<>> => nextParser \in {"ethernet"} \cup NoParser
  /\ stack # <<>> => 4 * Len(stack) + 10 <= offset
  /\ nextParser = "teredo" => 4 * Len(stack) + 14 <= offset

\* Every step keeps the bound: a new frame has no layers.
LEMMA LayersAreBounded ==
  ASSUME PacketAssumption, LayersInv, ParserTypeOK', [ParserNext]_parserVars
  PROVE  LayersInv'
<1>1. CASE ParsePacket
  <2>1. Len(stack') = 0 /\ nextParser' = "ethernet" /\ frame' \in Nat
    BY <1>1 DEF ParsePacket, PacketAssumption
  <2> QED
    BY <1>1, <2>1 DEF ParsePacket, LayersInv, LayersFitTheFrame
<1>2. CASE ShortLayer
  BY <1>2 DEF ShortLayer, Advance, LayersInv, LayersFitTheFrame, ParserTypeOK, NoParser
<1>3. CASE ParserNext /\ ~ParsePacket /\ ~ShortLayer
  <2>1. PICK p \in Parsers, size \in Nat, next \in Parsers \cup NoParser : BytesTaken(p, size, next)
    BY <1>3, ParsersTakeBytes DEF ParserNext, LayersInv, SomeBytesTaken
  <2> DEFINE n == Len(stack)
  <2>2. /\ n \in Nat /\ Len(stack') = n + 1 /\ stack' # <<>> /\ (stack = <<>> <=> n = 0)
        /\ offset \in Nat /\ frame \in Nat /\ offset <= frame
    BY <2>1 DEF BytesTaken, LayersInv, ParserTypeOK, Running, Left
  <2>3. CASE stack = <<>>
    <3>1. p = "ethernet"
      BY <2>1, <2>3 DEF BytesTaken, LayersInv, Running, NoParser
    <3>2. size = 14 /\ frame - offset >= 14 /\ next # "teredo"
      BY <2>1, <3>1 DEF BytesTaken, Left
    <3> QED
      BY <2>1, <2>2, <2>3, <3>1, <3>2 DEF BytesTaken, LayersInv, LayersFitTheFrame
  <2>4. CASE stack # <<>>
    <3>1. 4 * n + 10 <= offset /\ (p = "teredo" => 4 * n + 14 <= offset)
      BY <2>1, <2>4 DEF BytesTaken, LayersInv
    <3>2. 4 * (n + 1) <= frame /\ 4 * (n + 1) + 10 <= offset + size
      BY <2>1, <2>2, <3>1 DEF BytesTaken
    <3>3. next = "teredo" => 4 * (n + 1) + 14 <= offset + size
      BY <2>1, <2>2, <3>1 DEF BytesTaken
    <3> QED
      BY <2>1, <2>2, <3>2, <3>3 DEF BytesTaken, LayersInv, LayersFitTheFrame
  <2> QED
    BY <2>3, <2>4
<1>4. CASE UNCHANGED parserVars
  BY <1>4 DEF parserVars, LayersInv, LayersFitTheFrame
<1> QED
  BY <1>1, <1>2, <1>3, <1>4 DEF ParserNext

\* A step of the walk ends it, runs over the end of the frame, or leaves less of
\* the frame; that of the Teredo parser leaves as much and is followed by one
\* that leaves less.
ParserProgress ==
  \/ nextParser' \in NoParser \/ Left' < 0
  \/ Left' < Left
  \/ Left' = Left /\ nextParser = "teredo" /\ nextParser' = "ipv6"
WalkMakesProgress == [][Running => ParserProgress]_parserVars

\* Which is what every parser does.
LEMMA WalkProgresses ==
  ASSUME PacketAssumption, ParserTypeOK, ParserNext, Running
  PROVE  ParserProgress
<1>1. CASE ShortLayer
  BY <1>1 DEF ShortLayer, Advance, ParserProgress, NoParser
<1>2. CASE ~ShortLayer
  <2>1. PICK p \in Parsers, size \in Nat, next \in Parsers \cup NoParser : BytesTaken(p, size, next)
    BY <1>2, ParsersTakeBytes DEF ParserNext, ParsePacket, SomeBytesTaken
  <2> QED
    BY <2>1 DEF BytesTaken, ParserTypeOK, Left, ParserProgress
<1> QED
  BY <1>1, <1>2

\* No frame has been parsed.
LEMMA NoLayersInitially ==
  ASSUME PacketAssumption, ParserInit
  PROVE  LayersInv
<1>1. ParserTypeOK
  BY ParserInitially DEF ParserInv
<1> QED
  BY <1>1 DEF ParserInit, LayersInv, LayersFitTheFrame, NoParser

\* The walk is bounded by the bytes of the frame and not by what its headers
\* say, whatever tunnels they nest: no frame has more layers than a quarter of
\* its bytes, and every step of the loop makes progress (producer_packet.go
\* 409-451, whose loop has no limit of its own).
THEOREM WalkEnds ==
  ASSUME PacketAssumption
  PROVE  ParserSpec => []LayersFitTheFrame /\ WalkMakesProgress
<1>1. LayersInv /\ ParserTypeOK' /\ [ParserNext]_parserVars => LayersInv'
  BY LayersAreBounded
<1>2. ParserTypeOK /\ [ParserNext]_parserVars => [Running => ParserProgress]_parserVars
  BY WalkProgresses
<1>3. LayersInv => LayersFitTheFrame
  BY DEF LayersInv
<1> QED
  BY <1>1, <1>2, <1>3, NoLayersInitially, PacketTypes, PTL DEF ParserSpec, WalkMakesProgress

-----------------------------------------------------------------------------
(* Powers of two.                                                            *)

\* The recursion of TwoTo defines a function.
LEMMA TwoToFacts ==
  /\ TwoTo \in [Nat -> Nat \ {0}] /\ TwoTo[0] = 1
  /\ \A n \in Nat : TwoTo[n + 1] = 2 * TwoTo[n]
<1> DEFINE S == Nat \ {0}
           step == [p \in Nat \X S |-> 2 * p[2]]
           Is(f) == f = [n \in Nat |-> IF n = 0 THEN 1 ELSE 2 * f[n - 1]]
<1>1. step \in [Nat \X S -> S] /\ 1 \in S
  OBVIOUS
<1>2. PICK f : Recurs(S, 1, step, f)
  <2> HIDE DEF step, S, Is
  <2> QED
    BY <1>1, Recursion
<1>3. Is(f)
  <2> DEFINE g == [n \in Nat |-> IF n = 0 THEN 1 ELSE 2 * f[n - 1]]
  <2>1. ASSUME NEW n \in Nat PROVE f[n] = g[n]
    <3>1. CASE n = 0
      BY <1>2, <3>1 DEF Recurs
    <3>2. CASE n # 0
      <4>1. n - 1 \in Nat /\ (n - 1) + 1 = n
        BY <3>2
      <4>2. f[n] = step[<<n - 1, f[n - 1]>>] /\ f[n - 1] \in S
        BY <1>2, <4>1 DEF Recurs
      <4>3. f[n] = 2 * f[n - 1]
        BY <4>1, <4>2
      <4> QED
        BY <3>2, <4>3
    <3> QED
      BY <3>1, <3>2
  <2>2. f = g
    <3> HIDE DEF g
    <3>1. DOMAIN g = Nat /\ g = [n \in Nat |-> g[n]]
      BY DEF g
    <3>2. f = [n \in Nat |-> f[n]]
      BY <1>2 DEF Recurs
    <3> QED
      BY <2>1, <3>1, <3>2
  <2> QED
    BY <2>2
<1>4. Is(TwoTo)
  <2>1. TwoTo = CHOOSE h : Is(h)
    BY DEF TwoTo
  <2> HIDE DEF Is
  <2> QED
    BY <1>3, <2>1
<1>5. TwoTo[0] = 1 /\ \A n \in Nat : TwoTo[n + 1] = 2 * TwoTo[n]
  <2>1. TwoTo[0] = 1
    BY <1>4
  <2>2. ASSUME NEW n \in Nat PROVE TwoTo[n + 1] = 2 * TwoTo[n]
    <3>1. n + 1 \in Nat /\ n + 1 # 0 /\ (n + 1) - 1 = n
      OBVIOUS
    <3> QED
      BY <1>4, <3>1
  <2> QED
    BY <2>1, <2>2
<1>6. \A n \in Nat : TwoTo[n] \in S
  <2> DEFINE T == {n \in Nat : TwoTo[n] \in S}
  <2>1. 0 \in T
    BY <1>5
  <2>2. ASSUME NEW n \in Nat, n \in T PROVE n + 1 \in T
    BY <1>5, <2>2
  <2>3. Nat \subseteq T
    <3> HIDE DEF T
    <3> QED
      BY <2>1, <2>2, Induction
  <2> QED
    BY <2>3
<1>7. TwoTo \in [Nat -> S]
  <2>1. TwoTo = [n \in Nat |-> IF n = 0 THEN 1 ELSE 2 * TwoTo[n - 1]]
    BY <1>4
  <2>2. DOMAIN TwoTo = Nat
    BY <2>1
  <2>3. TwoTo = [n \in Nat |-> TwoTo[n]]
    BY <2>1, <2>2
  <2> HIDE DEF S
  <2> QED
    BY <1>6, <2>3
<1> QED
  BY <1>5, <1>7

\* No power of two is zero.
LEMMA TwoToType ==
  ASSUME NEW n \in Nat
  PROVE  TwoTo[n] \in Nat \ {0}
  BY TwoToFacts

\* The exponents of a product add up.
LEMMA TwoToSum ==
  ASSUME NEW m \in Nat
  PROVE  \A n \in Nat : TwoTo[m + n] = TwoTo[m] * TwoTo[n]
<1> DEFINE T == {n \in Nat : TwoTo[m + n] = TwoTo[m] * TwoTo[n]}
<1>1. 0 \in T
  BY TwoToFacts
<1>2. ASSUME NEW n \in Nat, n \in T PROVE n + 1 \in T
  <2>1. m + n \in Nat /\ m + (n + 1) = (m + n) + 1
    OBVIOUS
  <2>2. TwoTo[m + (n + 1)] = 2 * TwoTo[m + n] /\ TwoTo[n + 1] = 2 * TwoTo[n]
    BY <2>1, TwoToFacts
  <2>3. TwoTo[m] \in Nat /\ TwoTo[n] \in Nat
    BY TwoToFacts
  <2>4. 2 * (TwoTo[m] * TwoTo[n]) = TwoTo[m] * (2 * TwoTo[n])
    BY <2>3
  <2>5. TwoTo[m + (n + 1)] = TwoTo[m] * TwoTo[n + 1]
    BY <1>2, <2>2, <2>4
  <2> QED
    BY <2>5
<1>3. Nat \subseteq T
  <2> HIDE DEF T
  <2> QED
    BY <1>1, <1>2, Induction
<1> QED
  BY <1>3

-----------------------------------------------------------------------------
(* The reference: the number that bits make.                                 *)

ByteStrings == Seq(ByteValues)

\* The byte at q, counted from 0; behind the end of the packet it is zero.
ByteAt(d, q) == IF q < Len(d) THEN d[q + 1] ELSE 0

\* A byte is below 2^ByteBits, and zero behind the end.
LEMMA ByteFacts ==
  ASSUME NEW d \in ByteStrings, NEW q \in Nat
  PROVE  ByteAt(d, q) \in Nat /\ ByteAt(d, q) < TwoTo[ByteBits]
<1>1. ByteBits \in Nat /\ TwoTo[ByteBits] \in Nat \ {0}
  BY CustomAssumption, TwoToFacts
<1>2. CASE q < Len(d)
  <2>1. Len(d) \in Nat /\ q + 1 \in 1 .. Len(d)
    BY <1>2, LenProperties DEF ByteStrings
  <2>2. d[q + 1] \in ByteValues
    BY <2>1, ElementOfSeq DEF ByteStrings
  <2> QED
    BY <1>1, <1>2, <2>2 DEF ByteValues, ByteAt
<1>3. CASE ~(q < Len(d))
  BY <1>1, <1>3 DEF ByteAt
<1> QED
  BY <1>2, <1>3

\* Bit i of the byte at q.
LEMMA BitOfByte ==
  ASSUME NEW d \in ByteStrings, NEW q \in Nat, NEW i \in 0 .. ByteBits - 1
  PROVE  Bit(d, ByteBits * q + i) = (ByteAt(d, q) \div TwoTo[ByteBits - 1 - i]) % 2
<1> DEFINE k == ByteBits * q + i
<1>1. ByteBits \in Nat \ {0} /\ Len(d) \in Nat
  BY CustomAssumption, LenProperties DEF ByteStrings
<1>2. k \div ByteBits = q /\ k % ByteBits = i
  BY <1>1, Divided
<1>3. TwoTo[ByteBits - 1 - i] \in Nat \ {0}
  <2>1. ByteBits - 1 - i \in Nat
    BY <1>1
  <2> QED
    BY <2>1, TwoToType
<1>4. ByteBits * q \in Nat /\ ByteBits * Len(d) \in Nat /\ Len(d) * ByteBits = ByteBits * Len(d)
  BY <1>1
<1>5. CASE q < Len(d)
  <2>1. ByteBits * (q + 1) <= ByteBits * Len(d)
    BY <1>1, <1>5, Monotone
  <2>2. ByteBits * (q + 1) = ByteBits * q + ByteBits
    BY <1>1
  <2>3. ~(k >= Len(d) * ByteBits)
    BY <1>1, <1>4, <2>1, <2>2
  <2> HIDE DEF k
  <2> QED
    BY <1>2, <1>5, <2>3 DEF k, Bit, ByteAt
<1>6. CASE ~(q < Len(d))
  <2>1. ByteBits * Len(d) <= ByteBits * q
    BY <1>1, <1>6, Monotone
  <2>2. k >= Len(d) * ByteBits
    BY <1>1, <1>4, <2>1
  <2>3. (0 \div TwoTo[ByteBits - 1 - i]) % 2 = 0
    BY <1>3
  <2> HIDE DEF k
  <2> QED
    BY <1>6, <2>2, <2>3 DEF k, Bit, ByteAt
<1> QED
  BY <1>5, <1>6

\* A bit is zero or one.
LEMMA BitType ==
  ASSUME NEW d \in ByteStrings, NEW k \in Nat
  PROVE  Bit(d, k) \in 0 .. 1
<1> DEFINE q == k \div ByteBits
           i == k % ByteBits
<1>1. ByteBits \in Nat \ {0}
  BY CustomAssumption
<1>2. q \in Nat /\ i \in Nat /\ i < ByteBits /\ k = ByteBits * q + i
  BY <1>1, QuotientIsNat
<1> HIDE DEF q, i
<1>3. i \in 0 .. ByteBits - 1
  BY <1>1, <1>2
<1>4. Bit(d, k) = (ByteAt(d, q) \div TwoTo[ByteBits - 1 - i]) % 2
  BY <1>2, <1>3, BitOfByte
<1>5. TwoTo[ByteBits - 1 - i] \in Nat \ {0}
  BY <1>1, <1>3, TwoToFacts
<1> DEFINE r == ByteAt(d, q) \div TwoTo[ByteBits - 1 - i]
<1>6. r \in Nat
  BY <1>2, <1>5, ByteFacts, QuotientIsNat
<1>7. Bit(d, k) = r % 2
  BY <1>4
<1> HIDE DEF r
<1> QED
  BY <1>6, <1>7

IsNumber(d, o, f) ==
  f = [i \in Nat |-> IF i = 0 THEN 0 ELSE 2 * f[i - 1] + Bit(d, o + i - 1)]

\* A bit more doubles the number and adds the bit.
LEMMA NumberFacts ==
  ASSUME NEW d \in ByteStrings, NEW o \in Nat
  PROVE  /\ BitsNumber(d, o, 0) = 0
         /\ \A l \in Nat : /\ BitsNumber(d, o, l) \in Nat
                           /\ BitsNumber(d, o, l + 1) = 2 * BitsNumber(d, o, l) + Bit(d, o + l)
<1> DEFINE step == [p \in Nat \X Nat |-> 2 * p[2] + Bit(d, o + p[1])]
           number == CHOOSE f : IsNumber(d, o, f)
<1>1. \A i \in Nat : Bit(d, o + i) \in Nat
  <2>1. ASSUME NEW i \in Nat PROVE Bit(d, o + i) \in Nat
    <3>1. o + i \in Nat
      OBVIOUS
    <3>2. Bit(d, o + i) \in 0 .. 1
      BY <3>1, BitType
    <3> QED
      BY <3>2
  <2> QED
    BY <2>1
<1>2. step \in [Nat \X Nat -> Nat] /\ 0 \in Nat
  <2>1. ASSUME NEW p \in Nat \X Nat PROVE 2 * p[2] + Bit(d, o + p[1]) \in Nat
    <3>1. p[1] \in Nat /\ p[2] \in Nat
      OBVIOUS
    <3>2. Bit(d, o + p[1]) \in Nat
      BY <1>1, <3>1
    <3> QED
      BY <3>1, <3>2
  <2> QED
    BY <2>1
<1>3. PICK f : Recurs(Nat, 0, step, f)
  <2> HIDE DEF step
  <2> QED
    BY <1>2, Recursion
<1>4. IsNumber(d, o, f)
  <2> DEFINE g == [i \in Nat |-> IF i = 0 THEN 0 ELSE 2 * f[i - 1] + Bit(d, o + i - 1)]
  <2>1. ASSUME NEW n \in Nat PROVE f[n] = g[n]
    <3>1. CASE n = 0
      BY <1>3, <3>1 DEF Recurs
    <3>2. CASE n # 0
      <4>1. n - 1 \in Nat /\ (n - 1) + 1 = n /\ o + (n - 1) = o + n - 1
        BY <3>2
      <4>2. f[n] = step[<<n - 1, f[n - 1]>>] /\ f[n - 1] \in Nat
        BY <1>3, <4>1 DEF Recurs
      <4>3. f[n] = 2 * f[n - 1] + Bit(d, o + (n - 1))
        BY <4>1, <4>2
      <4> QED
        BY <3>2, <4>1, <4>3
    <3> QED
      BY <3>1, <3>2
  <2>2. f = g
    <3> HIDE DEF g
    <3>1. DOMAIN g = Nat /\ g = [n \in Nat |-> g[n]]
      BY DEF g
    <3>2. f = [n \in Nat |-> f[n]]
      BY <1>3 DEF Recurs
    <3> QED
      BY <2>1, <3>1, <3>2
  <2> QED
    BY <2>2 DEF IsNumber
<1>5. IsNumber(d, o, number)
  BY <1>4
<1>6. \A l : BitsNumber(d, o, l) = number[l]
  BY DEF BitsNumber, IsNumber
<1> HIDE DEF number, step
<1>7. BitsNumber(d, o, 0) = 0
  BY <1>5, <1>6 DEF IsNumber
<1>8. ASSUME NEW l \in Nat
      PROVE  BitsNumber(d, o, l + 1) = 2 * BitsNumber(d, o, l) + Bit(d, o + l)
  <2>1. l + 1 \in Nat /\ l + 1 # 0 /\ (l + 1) - 1 = l /\ o + (l + 1) - 1 = o + l
    OBVIOUS
  <2>2. number[l + 1] = 2 * number[(l + 1) - 1] + Bit(d, o + (l + 1) - 1)
    BY <1>5, <2>1 DEF IsNumber
  <2> QED
    BY <1>6, <2>1, <2>2
<1> DEFINE T == {l \in Nat : BitsNumber(d, o, l) \in Nat}
<1>9. 0 \in T
  BY <1>7
<1>10. ASSUME NEW l \in Nat, l \in T PROVE l + 1 \in T
  <2> DEFINE n == BitsNumber(d, o, l)
             b == Bit(d, o + l)
  <2>1. n \in Nat /\ b \in Nat
    BY <1>1, <1>10
  <2> HIDE DEF n, b
  <2>2. 2 * n + b \in Nat
    BY <2>1
  <2>3. 2 * BitsNumber(d, o, l) + Bit(d, o + l) \in Nat
    BY <2>2 DEF n, b
  <2> QED
    BY <1>8, <2>3
<1>11. Nat \subseteq T
  <2> HIDE DEF T
  <2> QED
    BY <1>9, <1>10, Induction
<1> QED
  BY <1>7, <1>8, <1>11

\* Bits make a number.
LEMMA NumberType ==
  ASSUME NEW d \in ByteStrings, NEW o \in Nat, NEW l \in Nat
  PROVE  BitsNumber(d, o, l) \in Nat
  BY NumberFacts

\* One bit more doubles the number and adds the bit.
LEMMA NumberStep ==
  ASSUME NEW d \in ByteStrings, NEW o \in Nat, NEW l \in Nat
  PROVE  BitsNumber(d, o, l + 1) = 2 * BitsNumber(d, o, l) + Bit(d, o + l)
  BY NumberFacts

\* l bits make a number below the power of l.
LEMMA NumberBound ==
  ASSUME NEW d \in ByteStrings, NEW o \in Nat, NEW l \in Nat
  PROVE  BitsNumber(d, o, l) < TwoTo[l]
<1> DEFINE T == {n \in Nat : BitsNumber(d, o, n) < TwoTo[n]}
<1>1. 0 \in T
  BY NumberFacts, TwoToFacts
<1>2. ASSUME NEW n \in Nat, n \in T PROVE n + 1 \in T
  <2> DEFINE x == BitsNumber(d, o, n)
             b == Bit(d, o + n)
             p == TwoTo[n]
  <2>1. x \in Nat /\ p \in Nat /\ x < p
    BY <1>2, NumberType, TwoToType
  <2>2. b \in 0 .. 1
    <3>1. o + n \in Nat
      OBVIOUS
    <3> QED
      BY <3>1, BitType
  <2>3. BitsNumber(d, o, n + 1) = 2 * x + b /\ TwoTo[n + 1] = 2 * p
    BY NumberStep, TwoToFacts
  <2> HIDE DEF x, b, p
  <2>4. 2 * x + b < 2 * p
    BY <2>1, <2>2
  <2> QED
    BY <2>3, <2>4
<1>3. Nat \subseteq T
  <2> HIDE DEF T
  <2> QED
    BY <1>1, <1>2, Induction
<1> QED
  BY <1>3

\* Bits that follow others shift these to the left.
LEMMA NumberParts ==
  ASSUME NEW d \in ByteStrings, NEW o \in Nat, NEW l \in Nat, NEW m \in Nat,
         NEW k, k = l + m, NEW e, e = o + l
  PROVE  BitsNumber(d, o, k) = BitsNumber(d, o, l) * TwoTo[m] + BitsNumber(d, e, m)
<1> DEFINE x == BitsNumber(d, o, l)
           T == {n \in Nat : BitsNumber(d, o, l + n) = x * TwoTo[n] + BitsNumber(d, o + l, n)}
<1>1. x \in Nat /\ o + l \in Nat
  BY NumberType
<1>2. 0 \in T
  <2>1. BitsNumber(d, o + l, 0) = 0
    BY <1>1, NumberFacts
  <2>2. l + 0 = l /\ x * 1 + 0 = x
    BY <1>1
  <2> QED
    BY <2>1, <2>2, TwoToFacts
<1>3. ASSUME NEW n \in Nat, n \in T PROVE n + 1 \in T
  <2> DEFINE y == BitsNumber(d, o + l, n)
             z == BitsNumber(d, o, l + n)
             b == Bit(d, o + l + n)
             p == TwoTo[n]
  <2>1. l + n \in Nat /\ o + (l + n) = o + l + n /\ l + (n + 1) = (l + n) + 1
    OBVIOUS
  <2>2. BitsNumber(d, o, l + (n + 1)) = 2 * z + b
    BY <2>1, NumberStep
  <2>3. BitsNumber(d, o + l, n + 1) = 2 * y + b
    BY <1>1, NumberStep
  <2>4. y \in Nat /\ z \in Nat /\ p \in Nat /\ z = x * p + y
    BY <1>1, <1>3, <2>1, NumberType, TwoToType
  <2>5. b \in Nat
    <3>1. o + l + n \in Nat
      OBVIOUS
    <3>2. b \in 0 .. 1
      BY <3>1, BitType
    <3> QED
      BY <3>2
  <2>6. TwoTo[n + 1] = 2 * p
    BY TwoToFacts
  <2> HIDE DEF x, y, z, b, p
  <2>7. 2 * z + b = x * (2 * p) + (2 * y + b)
    <3>1. x * (2 * p) = 2 * (x * p) /\ x * p \in Nat
      BY <1>1, <2>4
    <3> QED
      BY <2>4, <2>5, <3>1
  <2> QED
    BY <2>2, <2>3, <2>6, <2>7
<1>4. Nat \subseteq T
  <2> HIDE DEF T
  <2> QED
    BY <1>2, <1>3, Induction
<1>5. BitsNumber(d, o, l + m) = x * TwoTo[m] + BitsNumber(d, o + l, m)
  BY <1>4
<1> QED
  BY <1>5

\* The first r bits of a byte are the byte without its last ones.
LEMMA NumberOfByte ==
  ASSUME NEW d \in ByteStrings, NEW q \in Nat, NEW r \in 0 .. ByteBits
  PROVE  BitsNumber(d, ByteBits * q, r) = ByteAt(d, q) \div TwoTo[ByteBits - r]
<1> DEFINE o == ByteBits * q
           v == ByteAt(d, q)
           T == {n \in 0 .. ByteBits : BitsNumber(d, o, n) = v \div TwoTo[ByteBits - n]}
<1>1. ByteBits \in Nat /\ o \in Nat /\ v \in Nat /\ v < TwoTo[ByteBits]
  BY CustomAssumption, ByteFacts
<1> HIDE DEF v
<1>2. 0 \in T
  <2>1. TwoTo[ByteBits] \in Nat \ {0} /\ ByteBits - 0 = ByteBits
    BY <1>1, TwoToType
  <2>2. TwoTo[ByteBits] * 0 + v = v
    BY <1>1, <2>1
  <2>3. (TwoTo[ByteBits] * 0 + v) \div TwoTo[ByteBits] = 0
    BY <1>1, <2>1, Divided
  <2>4. BitsNumber(d, o, 0) = 0
    BY <1>1, NumberFacts
  <2> QED
    BY <1>1, <2>1, <2>2, <2>3, <2>4
<1>3. ASSUME NEW n \in 0 .. ByteBits - 1, n \in T PROVE n + 1 \in T
  <2> DEFINE p == TwoTo[ByteBits - (n + 1)]
             x == BitsNumber(d, o, n)
             a == v \div p
  <2>1. ByteBits - (n + 1) \in Nat /\ ByteBits - n = (ByteBits - (n + 1)) + 1 /\ n \in Nat
        /\ ByteBits - (n + 1) = ByteBits - 1 - n
    BY <1>1
  <2>2. p \in Nat \ {0} /\ TwoTo[ByteBits - n] = 2 * p
    BY <2>1, TwoToFacts
  <2>3. x = v \div (2 * p)
    BY <1>3, <2>2
  <2>4. Bit(d, o + n) = a % 2
    BY <2>1, BitOfByte DEF v
  <2>5. BitsNumber(d, o, n + 1) = 2 * x + (a % 2)
    BY <1>1, <2>1, <2>4, NumberStep
  <2> HIDE DEF p, x
  <2>6. a \in Nat
    BY <1>1, <2>2, QuotientIsNat
  <2>7. a \div 2 = x
    <3>1. \A c \in Nat \ {0} : (v \div p) \div c = v \div (p * c)
      BY <1>1, <2>2, DividedTwice
    <3>2. (v \div p) \div 2 = v \div (p * 2)
      BY <3>1
    <3>3. p * 2 = 2 * p
      BY <2>2
    <3> QED
      BY <2>3, <3>2, <3>3
  <2>8. a = 2 * (a \div 2) + (a % 2)
    <3> HIDE DEF a
    <3> QED
      BY <2>6
  <2>9. BitsNumber(d, o, n + 1) = a
    BY <2>5, <2>7, <2>8
  <2>10. n + 1 \in 0 .. ByteBits
    BY <1>1
  <2> QED
    BY <2>9, <2>10 DEF p
<1>4. 0 .. ByteBits \subseteq T
  <2> HIDE DEF T
  <2> QED
    BY <1>1, <1>2, <1>3, BoundedInduction
<1> QED
  BY <1>4 DEF v

\* The bits of a byte from the one at s.
LEMMA EndOfByte ==
  ASSUME NEW d \in ByteStrings, NEW q \in Nat, NEW s \in 0 .. ByteBits - 1
  PROVE  BitsNumber(d, ByteBits * q + s, ByteBits - s) = ByteAt(d, q) % TwoTo[ByteBits - s]
<1> DEFINE o == ByteBits * q
           x == BitsNumber(d, o, s)
           y == BitsNumber(d, o + s, ByteBits - s)
           p == TwoTo[ByteBits - s]
           v == ByteAt(d, q)
<1>1. ByteBits \in Nat /\ o \in Nat /\ s \in Nat /\ ByteBits - s \in Nat /\ v \in Nat
      /\ s + (ByteBits - s) = ByteBits /\ o + s \in Nat
  BY CustomAssumption, ByteFacts
<1>2. BitsNumber(d, o, ByteBits) = v
  <2>1. BitsNumber(d, o, ByteBits) = v \div TwoTo[ByteBits - ByteBits]
    BY <1>1, NumberOfByte
  <2>2. ByteBits - ByteBits = 0
    BY <1>1
  <2> HIDE DEF v
  <2>3. v \div 1 = v
    BY <1>1
  <2> QED
    BY <2>1, <2>2, <2>3, TwoToFacts DEF v
<1>3. BitsNumber(d, o, ByteBits) = x * p + y
  BY <1>1, NumberParts
<1>4. x \in Nat /\ y \in Nat /\ y < p /\ p \in Nat \ {0}
  BY <1>1, NumberType, NumberBound, TwoToType
<1>5. v = x * p + y
  BY <1>1, <1>2, <1>3
<1> HIDE DEF x, y, p, v
<1>6. v = p * x + y
  BY <1>4, <1>5
<1>7. (p * x + y) % p = y
  BY <1>4, Divided
<1> QED
  BY <1>6, <1>7 DEF y, p, v

\* What GetBytes makes of two neighbouring bytes.
LEMMA ShiftedByte ==
  ASSUME NEW d \in ByteStrings, NEW q \in Nat, NEW s \in 0 .. ByteBits - 1
  PROVE  /\ (ByteAt(d, q) * TwoTo[s]) % TwoTo[ByteBits]
              = BitsNumber(d, ByteBits * q + s, ByteBits - s) * TwoTo[s]
         /\ BitsNumber(d, ByteBits * q + s, ByteBits)
              = ((ByteAt(d, q) * TwoTo[s]) % TwoTo[ByteBits])
                + ByteAt(d, q + 1) \div TwoTo[ByteBits - s]
<1> DEFINE o == ByteBits * q + s
           y == BitsNumber(d, o, ByteBits - s)
           v == ByteAt(d, q)
<1>1. ByteBits \in Nat /\ s \in Nat /\ ByteBits - s \in Nat /\ v \in Nat /\ o \in Nat
      /\ (ByteBits - s) + s = ByteBits /\ s \in 0 .. ByteBits /\ q + 1 \in Nat
  BY CustomAssumption, ByteFacts
<1>2. TwoTo[s] \in Nat \ {0} /\ TwoTo[ByteBits - s] \in Nat \ {0}
  BY <1>1, TwoToType
<1>3. TwoTo[ByteBits] = TwoTo[ByteBits - s] * TwoTo[s]
  BY <1>1, TwoToSum
<1>4. (v * TwoTo[s]) % TwoTo[ByteBits] = y * TwoTo[s]
  <2>1. (v * TwoTo[s]) % (TwoTo[ByteBits - s] * TwoTo[s]) = (v % TwoTo[ByteBits - s]) * TwoTo[s]
    BY <1>1, <1>2, ScaledRemainder
  <2>2. y = v % TwoTo[ByteBits - s]
    BY EndOfByte
  <2> QED
    BY <1>3, <2>1, <2>2
<1>5. BitsNumber(d, o, ByteBits) = y * TwoTo[s] + BitsNumber(d, o + (ByteBits - s), s)
  BY <1>1, NumberParts
<1>6. o + (ByteBits - s) = ByteBits * (q + 1)
  BY <1>1
<1>7. BitsNumber(d, ByteBits * (q + 1), s) = ByteAt(d, q + 1) \div TwoTo[ByteBits - s]
  BY <1>1, NumberOfByte
<1> QED
  BY <1>4, <1>5, <1>6, <1>7

-----------------------------------------------------------------------------
(* The bytes GetBytes cuts out.                                              *)

\* The bytes that a number of bits needs.
LEMMA CeilFacts ==
  ASSUME NEW q \in Nat
  PROVE  /\ Ceil(ByteBits * q) = q
         /\ \A r \in 1 .. ByteBits : Ceil(ByteBits * q + r) = q + 1
<1>1. ByteBits \in Nat \ {0}
  BY CustomAssumption
<1>2. Ceil(ByteBits * q) = q
  <2>1. ByteBits - 1 \in Int /\ 0 <= ByteBits - 1 /\ ByteBits - 1 < ByteBits
    BY <1>1
  <2>2. (ByteBits * q + (ByteBits - 1)) \div ByteBits = q
    BY <1>1, <2>1, Divided
  <2>3. ByteBits * q + ByteBits - 1 = ByteBits * q + (ByteBits - 1)
    BY <1>1
  <2> QED
    BY <2>2, <2>3 DEF Ceil
<1>3. ASSUME NEW r \in 1 .. ByteBits PROVE Ceil(ByteBits * q + r) = q + 1
  <2>1. r - 1 \in Int /\ 0 <= r - 1 /\ r - 1 < ByteBits /\ q + 1 \in Int
    BY <1>1
  <2>2. (ByteBits * (q + 1) + (r - 1)) \div ByteBits = q + 1
    BY <1>1, <2>1, Divided
  <2>3. (ByteBits * q + r) + ByteBits - 1 = ByteBits * (q + 1) + (r - 1)
    BY <1>1
  <2> QED
    BY <2>2, <2>3 DEF Ceil
<1> QED
  BY <1>2, <1>3

\* The bytes from q on up to an end within the packet.
LEMMA UsedBytes ==
  ASSUME NEW d \in ByteStrings, NEW q \in Nat, NEW end \in q .. Len(d)
  PROVE  /\ Len(SubSeq(d, q + 1, end)) = end - q
         /\ \A i \in 1 .. end - q : SubSeq(d, q + 1, end)[i] = ByteAt(d, q + i - 1)
<1>1. Len(d) \in Nat /\ d \in Seq(ByteValues)
  BY LenProperties DEF ByteStrings
<1>2. q + 1 \in 1 .. Len(d) + 1 /\ end \in (q + 1) - 1 .. Len(d)
  BY <1>1
<1>3. /\ Len(SubSeq(d, q + 1, end)) = end - (q + 1) + 1
      /\ \A i \in 1 .. end - (q + 1) + 1 : SubSeq(d, q + 1, end)[i] = d[(q + 1) + i - 1]
  BY <1>1, <1>2, SubSeqProperties
<1>4. end - (q + 1) + 1 = end - q
  BY <1>1
<1>5. ASSUME NEW i \in 1 .. end - q
      PROVE  SubSeq(d, q + 1, end)[i] = ByteAt(d, q + i - 1)
  <2>1. (q + 1) + i - 1 = (q + i - 1) + 1 /\ q + i - 1 < Len(d)
    BY <1>1
  <2>2. SubSeq(d, q + 1, end)[i] = d[(q + 1) + i - 1]
    BY <1>3, <1>4
  <2> QED
    BY <2>1, <2>2 DEF ByteAt
<1> QED
  BY <1>3, <1>4, <1>5

\* Both halves of a shifted byte, out of the bytes used.
LEMMA Halves ==
  ASSUME NEW d \in ByteStrings, NEW q \in Nat, NEW end \in q .. Len(d),
         NEW s \in 0 .. ByteBits - 1, NEW n \in Nat, NEW i \in 1 .. n
  PROVE  Shifted(SubSeq(d, q + 1, end), n, s)[i]
           = (IF q + i <= end THEN (ByteAt(d, q + i - 1) * TwoTo[s]) % TwoTo[ByteBits] ELSE 0)
             + (IF q + i < end THEN ByteAt(d, q + i) \div TwoTo[ByteBits - s] ELSE 0)
<1> DEFINE used == SubSeq(d, q + 1, end)
<1>1. Len(used) = end - q
      /\ \A j \in 1 .. end - q : used[j] = ByteAt(d, q + j - 1)
  BY UsedBytes
<1> HIDE DEF used
<1>2. Len(d) \in Nat /\ end \in Nat /\ i \in Nat /\ 1 <= i /\ q + (i + 1) - 1 = q + i
  BY LenProperties DEF ByteStrings
<1>3. i <= Len(used) <=> q + i <= end
  BY <1>1, <1>2
<1>4. i + 1 <= Len(used) <=> q + i < end
  BY <1>1, <1>2
<1>5. q + i <= end => used[i] = ByteAt(d, q + i - 1)
  BY <1>1, <1>2
<1>6. q + i < end => used[i + 1] = ByteAt(d, q + i)
  <2> SUFFICES ASSUME q + i < end PROVE used[i + 1] = ByteAt(d, q + i)
    OBVIOUS
  <2>1. i + 1 \in 1 .. end - q
    BY <1>2
  <2> QED
    BY <1>1, <1>2, <2>1
<1>7. Shifted(used, n, s)[i]
        = (IF i <= Len(used) THEN (used[i] * TwoTo[s]) % TwoTo[ByteBits] ELSE 0)
          + (IF i + 1 <= Len(used) THEN used[i + 1] \div TwoTo[ByteBits - s] ELSE 0)
  BY DEF Shifted
<1> QED
  BY <1>3, <1>4, <1>5, <1>6, <1>7 DEF used

\* A byte is the one that was asked for if the bytes used reach to the end of the
\* packet, to the byte that follows, or to this one if none need follow.
LEMMA ShiftedFully ==
  ASSUME NEW d \in ByteStrings, NEW q \in Nat, NEW end \in q .. Len(d),
         NEW s \in 0 .. ByteBits - 1, NEW n \in Nat, NEW i \in 1 .. n,
         end = Len(d) \/ q + i < end \/ (s = 0 /\ q + i <= end)
  PROVE  Shifted(SubSeq(d, q + 1, end), n, s)[i]
           = BitsNumber(d, ByteBits * (q + i - 1) + s, ByteBits)
<1> DEFINE left == (ByteAt(d, q + i - 1) * TwoTo[s]) % TwoTo[ByteBits]
           right == ByteAt(d, q + i) \div TwoTo[ByteBits - s]
<1>1. q + i - 1 \in Nat /\ (q + i - 1) + 1 = q + i /\ q + i \in Nat /\ i \in Nat
      /\ Len(d) \in Nat /\ ByteBits \in Nat /\ ByteBits - s \in Nat /\ s \in Nat
  BY CustomAssumption, LenProperties DEF ByteStrings
<1>2. BitsNumber(d, ByteBits * (q + i - 1) + s, ByteBits) = left + right
  <2>1. PICK j : j = q + i - 1
    OBVIOUS
  <2>2. BitsNumber(d, ByteBits * j + s, ByteBits)
          = ((ByteAt(d, j) * TwoTo[s]) % TwoTo[ByteBits])
            + ByteAt(d, j + 1) \div TwoTo[ByteBits - s]
    <3>1. j \in Nat
      BY <1>1, <2>1
    <3> QED
      BY <3>1, ShiftedByte
  <2>3. j + 1 = q + i
    BY <1>1, <2>1
  <2> QED
    BY <2>1, <2>2, <2>3
<1>3. TwoTo[s] \in Nat \ {0} /\ TwoTo[ByteBits - s] \in Nat \ {0} /\ TwoTo[ByteBits] \in Nat \ {0}
  BY <1>1, TwoToType
<1>4. ~(q + i <= end) => left = 0
  <2> SUFFICES ASSUME ~(q + i <= end) PROVE left = 0
    OBVIOUS
  <2>1. end = Len(d) /\ ~(q + i - 1 < Len(d))
    BY <1>1
  <2>2. ByteAt(d, q + i - 1) = 0
    BY <2>1 DEF ByteAt
  <2>3. (0 * TwoTo[s]) % TwoTo[ByteBits] = 0
    BY <1>3
  <2> QED
    BY <2>2, <2>3
<1>5. ~(q + i < end) => right = 0
  <2> SUFFICES ASSUME ~(q + i < end) PROVE right = 0
    OBVIOUS
  <2>1. CASE end = Len(d)
    <3>1. ByteAt(d, q + i) = 0
      BY <1>1, <2>1 DEF ByteAt
    <3>2. 0 \div TwoTo[ByteBits - s] = 0
      BY <1>3
    <3> QED
      BY <3>1, <3>2
  <2>2. CASE s = 0
    <3> DEFINE v == ByteAt(d, q + i)
               p == TwoTo[ByteBits]
    <3>1. v \in Nat /\ v < p /\ p \in Nat \ {0} /\ ByteBits - s = ByteBits
      <4>1. ByteBits - s = ByteBits
        BY <1>1, <2>2
      <4>2. \A j \in Nat : ByteAt(d, j) \in Nat /\ ByteAt(d, j) < TwoTo[ByteBits]
        BY ByteFacts
      <4> QED
        BY <1>1, <1>3, <4>1, <4>2
    <3> HIDE DEF v, p
    <3>2. p * 0 + v = v
      BY <3>1
    <3>3. (p * 0 + v) \div p = 0
      BY <3>1, Divided
    <3> QED
      BY <3>1, <3>2, <3>3 DEF v, p
  <2> QED
    BY <1>1, <2>1, <2>2
<1> HIDE DEF left, right
<1>6. left \in Int /\ right \in Int
  <2>1. ByteAt(d, q + i - 1) \in Nat /\ ByteAt(d, q + i) \in Nat
    BY <1>1, ByteFacts
  <2>2. PICK w : w = ByteAt(d, q + i - 1) * TwoTo[s]
    OBVIOUS
  <2>3. w \in Nat
    <3> DEFINE v == ByteAt(d, q + i - 1)
               p == TwoTo[s]
    <3>1. v \in Nat /\ p \in Nat /\ w = v * p
      BY <1>3, <2>1, <2>2
    <3> HIDE DEF v, p
    <3> QED
      BY <3>1, ProductType
  <2>4. left = w % TwoTo[ByteBits]
    BY <2>2 DEF left
  <2>5. w % TwoTo[ByteBits] \in Nat
    BY <1>3, <2>3, QuotientIsNat
  <2>6. right \in Nat
    BY <1>3, <2>1, QuotientIsNat DEF right
  <2> QED
    BY <2>4, <2>5, <2>6
<1>7. Shifted(SubSeq(d, q + 1, end), n, s)[i]
        = (IF q + i <= end THEN left ELSE 0) + (IF q + i < end THEN right ELSE 0)
  BY Halves DEF left, right
<1> QED
  BY <1>2, <1>4, <1>5, <1>6, <1>7

\* Of the last byte used only its own bits, moved to the left end.
LEMMA ShiftedPartly ==
  ASSUME NEW d \in ByteStrings, NEW q \in Nat, NEW s \in 0 .. ByteBits - 1, q < Len(d)
  PROVE  Shifted(SubSeq(d, q + 1, q + 1), 1, s)[1]
           = BitsNumber(d, ByteBits * q + s, ByteBits - s) * TwoTo[s]
<1> DEFINE left == (ByteAt(d, q) * TwoTo[s]) % TwoTo[ByteBits]
<1>1. q + 1 \in q .. Len(d) /\ 1 \in 1 .. 1 /\ q + 1 - 1 = q /\ 1 \in Nat
  BY LenProperties DEF ByteStrings
<1>2. Shifted(SubSeq(d, q + 1, q + 1), 1, s)[1]
        = (IF q + 1 <= q + 1 THEN (ByteAt(d, q + 1 - 1) * TwoTo[s]) % TwoTo[ByteBits] ELSE 0)
          + (IF q + 1 < q + 1 THEN ByteAt(d, q + 1) \div TwoTo[ByteBits - s] ELSE 0)
  BY <1>1, Halves
<1>3. left = BitsNumber(d, ByteBits * q + s, ByteBits - s) * TwoTo[s]
  BY ShiftedByte
<1>4. left \in Int
  <2>1. TwoTo[s] \in Nat /\ TwoTo[ByteBits] \in Nat \ {0} /\ ByteAt(d, q) \in Nat
    <3>1. ByteBits \in Nat /\ s \in Nat
      BY CustomAssumption
    <3> QED
      BY <3>1, TwoToType, ByteFacts
  <2>2. ByteAt(d, q) * TwoTo[s] \in Nat
    BY <2>1
  <2> QED
    BY <2>1, <2>2, QuotientIsNat
<1> HIDE DEF left
<1>5. Shifted(SubSeq(d, q + 1, q + 1), 1, s)[1] = left + 0
  BY <1>1, <1>2 DEF left
<1> QED
  BY <1>3, <1>4, <1>5

-----------------------------------------------------------------------------
(* The number DecodeUNumber makes of bytes.                                  *)

IsDecoded(b, g) ==
  g = [i \in 0 .. Len(b) |-> IF i = 0 THEN 0 ELSE g[i - 1] * TwoTo[ByteBits] + b[i]]

\* DecodeUNumber shifts by a byte and adds the next one, byte by byte.
LEMMA DecodeFacts ==
  ASSUME NEW b \in Seq(Nat)
  PROVE  \E g : /\ g \in [0 .. Len(b) -> Nat] /\ g[0] = 0
                /\ \A i \in 0 .. Len(b) - 1 : g[i + 1] = g[i] * TwoTo[ByteBits] + b[i + 1]
                /\ DecodeUNumber(b) = g[Len(b)]
<1> DEFINE n == Len(b)
           step == [p \in Nat \X Nat |->
                      p[2] * TwoTo[ByteBits] + (IF p[1] + 1 \in 1 .. n THEN b[p[1] + 1] ELSE 0)]
           decoded == CHOOSE g : IsDecoded(b, g)
<1>1. n \in Nat /\ ByteBits \in Nat /\ TwoTo[ByteBits] \in Nat /\ \A i \in 1 .. n : b[i] \in Nat
  <2>1. n \in Nat /\ ByteBits \in Nat
    BY CustomAssumption, LenProperties
  <2> QED
    BY <2>1, TwoToType, ElementOfSeq
<1> HIDE DEF n
<1>2. step \in [Nat \X Nat -> Nat] /\ 0 \in Nat
  <2>1. ASSUME NEW p \in Nat \X Nat
        PROVE  p[2] * TwoTo[ByteBits] + (IF p[1] + 1 \in 1 .. n THEN b[p[1] + 1] ELSE 0) \in Nat
    <3>0. p[1] \in Nat /\ p[2] \in Nat
      OBVIOUS
    <3>1. p[2] * TwoTo[ByteBits] \in Nat
      BY <1>1, <3>0, ProductType
    <3>2. (IF p[1] + 1 \in 1 .. n THEN b[p[1] + 1] ELSE 0) \in Nat
      BY <1>1
    <3> QED
      BY <3>1, <3>2
  <2> QED
    BY <2>1
<1>3. PICK g : Iterates(Nat, 0, step, n, g)
  <2> HIDE DEF step
  <2> QED
    BY <1>1, <1>2, IteratesExist
<1>4. IsDecoded(b, g)
  <2> DEFINE h == [i \in 0 .. n |-> IF i = 0 THEN 0 ELSE g[i - 1] * TwoTo[ByteBits] + b[i]]
  <2>1. ASSUME NEW i \in 0 .. n PROVE g[i] = h[i]
    <3>1. CASE i = 0
      BY <1>3, <3>1 DEF Iterates
    <3>2. CASE i # 0
      <4>1. i - 1 \in 0 .. n - 1 /\ (i - 1) + 1 = i /\ i \in 1 .. n
        BY <1>1, <3>2
      <4>2. g[i] = step[<<i - 1, g[i - 1]>>] /\ g[i - 1] \in Nat
        <5> HIDE DEF step, h
        <5>1. g[(i - 1) + 1] = step[<<i - 1, g[i - 1]>>]
          BY <1>3, <4>1 DEF Iterates
        <5>2. i - 1 \in 0 .. n
          BY <1>1, <4>1
        <5> QED
          BY <1>3, <4>1, <5>1, <5>2 DEF Iterates
      <4>3. g[i] = g[i - 1] * TwoTo[ByteBits] + b[i]
        BY <4>1, <4>2
      <4> QED
        BY <3>2, <4>3
    <3> QED
      BY <3>1, <3>2
  <2>2. g = h
    <3> HIDE DEF h
    <3>1. h = [i \in 0 .. n |-> h[i]]
      BY DEF h
    <3>2. g = [i \in 0 .. n |-> g[i]]
      BY <1>3 DEF Iterates
    <3> QED
      BY <2>1, <3>1, <3>2
  <2> QED
    BY <2>2 DEF IsDecoded, n
<1>5. IsDecoded(b, decoded)
  BY <1>4
<1>6. DecodeUNumber(b) = decoded[n]
  BY DEF DecodeUNumber, IsDecoded, n
<1> HIDE DEF decoded, step
<1>7. decoded = [i \in 0 .. n |-> decoded[i]] /\ decoded[0] = 0
  BY <1>1, <1>5 DEF IsDecoded, n
<1>8. ASSUME NEW i \in 0 .. n - 1
      PROVE  decoded[i + 1] = decoded[i] * TwoTo[ByteBits] + b[i + 1]
  <2>1. i + 1 \in 0 .. n /\ i + 1 # 0 /\ (i + 1) - 1 = i
    BY <1>1
  <2>2. decoded[i + 1] = decoded[(i + 1) - 1] * TwoTo[ByteBits] + b[i + 1]
    BY <1>5, <2>1 DEF IsDecoded, n
  <2> QED
    BY <2>1, <2>2
<1> DEFINE T == {i \in 0 .. n : decoded[i] \in Nat}
<1>9. 0 \in T
  BY <1>1, <1>7
<1>10. ASSUME NEW i \in 0 .. n - 1, i \in T PROVE i + 1 \in T
  <2>1. decoded[i] * TwoTo[ByteBits] \in Nat
    BY <1>1, <1>10, ProductType
  <2>2. i + 1 \in 1 .. n /\ i + 1 \in 0 .. n
    BY <1>1
  <2>3. b[i + 1] \in Nat
    BY <1>1, <2>2
  <2>4. decoded[i + 1] \in Nat
    BY <1>8, <2>1, <2>3
  <2> QED
    BY <2>2, <2>4
<1>11. 0 .. n \subseteq T
  <2> HIDE DEF T
  <2> QED
    BY <1>1, <1>9, <1>10, BoundedInduction
<1>12. decoded \in [0 .. n -> Nat]
  BY <1>7, <1>11
<1> QED
  BY <1>6, <1>7, <1>8, <1>12 DEF n

\* Bytes make a number.
LEMMA DecodeType ==
  ASSUME NEW b \in Seq(Nat)
  PROVE  DecodeUNumber(b) \in Nat
<1>1. Len(b) \in 0 .. Len(b)
  BY LenProperties
<1> QED
  BY <1>1, DecodeFacts

\* One byte is the number itself.
LEMMA DecodeOne ==
  ASSUME NEW b \in Seq(Nat), Len(b) = 1
  PROVE  DecodeUNumber(b) = b[1]
<1>1. PICK g : /\ g[0] = 0
               /\ \A i \in 0 .. Len(b) - 1 : g[i + 1] = g[i] * TwoTo[ByteBits] + b[i + 1]
               /\ DecodeUNumber(b) = g[Len(b)]
  BY DecodeFacts
<1>2. g[0 + 1] = g[0] * TwoTo[ByteBits] + b[0 + 1]
  BY <1>1
<1>3. TwoTo[ByteBits] \in Nat /\ b[1] \in Nat
  <2>1. ByteBits \in Nat
    BY CustomAssumption
  <2>2. 1 \in 1 .. Len(b)
    OBVIOUS
  <2> QED
    BY <2>1, <2>2, TwoToType, ElementOfSeq
<1> QED
  BY <1>1, <1>2, <1>3

\* No bytes make zero.
LEMMA DecodeNothing ==
  ASSUME NEW b \in Seq(Nat), Len(b) = 0
  PROVE  DecodeUNumber(b) = 0
  BY DecodeFacts

\* The bits of i + 1 bytes are those of i bytes and eight more.
LEMMA NumberOfBytes ==
  ASSUME NEW d \in ByteStrings, NEW o \in Nat, NEW i \in Nat
  PROVE  BitsNumber(d, o, ByteBits * (i + 1))
           = BitsNumber(d, o, ByteBits * i) * TwoTo[ByteBits]
             + BitsNumber(d, o + ByteBits * i, ByteBits)
<1> DEFINE l == ByteBits * i
           e == o + ByteBits * i
           k == ByteBits * (i + 1)
<1>1. ByteBits \in Nat
  BY CustomAssumption
<1>2. l \in Nat /\ e \in Nat /\ e = o + l /\ k = l + ByteBits
  <2>1. l \in Nat
    BY <1>1, ProductType
  <2>2. ByteBits * (i + 1) = ByteBits * i + ByteBits
    BY <1>1
  <2> QED
    BY <2>1, <2>2
<1> HIDE DEF l, e, k
<1>3. BitsNumber(d, o, k) = BitsNumber(d, o, l) * TwoTo[ByteBits] + BitsNumber(d, e, ByteBits)
  BY <1>1, <1>2, NumberParts
<1> QED
  BY <1>3 DEF l, e, k

\* Full bytes make the number of all their bits, whatever bytes follow.
LEMMA DecodePrefix ==
  ASSUME NEW d \in ByteStrings, NEW o \in Nat, NEW b \in Seq(Nat), NEW m \in 0 .. Len(b),
         \A i \in 1 .. m : b[i] = BitsNumber(d, o + ByteBits * (i - 1), ByteBits)
  PROVE  \E g : /\ \A i \in 0 .. Len(b) - 1 : g[i + 1] = g[i] * TwoTo[ByteBits] + b[i + 1]
                /\ DecodeUNumber(b) = g[Len(b)]
                /\ g[m] = BitsNumber(d, o, ByteBits * m)
<1> DEFINE n == Len(b)
<1>1. PICK g : /\ g[0] = 0
               /\ \A i \in 0 .. n - 1 : g[i + 1] = g[i] * TwoTo[ByteBits] + b[i + 1]
               /\ DecodeUNumber(b) = g[n]
  BY DecodeFacts
<1>2. n \in Nat /\ m \in 0 .. n /\ m \in Nat /\ ByteBits \in Nat
  BY CustomAssumption, LenProperties
<1> HIDE DEF n
<1> DEFINE T == {i \in 0 .. m : g[i] = BitsNumber(d, o, ByteBits * i)}
<1>3. 0 \in T
  <2>1. ByteBits * 0 = 0 /\ 0 \in 0 .. m
    BY <1>2
  <2>2. BitsNumber(d, o, 0) = 0
    BY NumberFacts
  <2> QED
    BY <1>1, <2>1, <2>2
<1>4. ASSUME NEW i \in 0 .. m - 1, i \in T PROVE i + 1 \in T
  <2> DEFINE e == o + ByteBits * i
  <2>1. i \in Nat /\ i \in 0 .. n - 1
    BY <1>2
  <2>2. BitsNumber(d, o, ByteBits * (i + 1))
          = BitsNumber(d, o, ByteBits * i) * TwoTo[ByteBits] + BitsNumber(d, e, ByteBits)
    BY <2>1, NumberOfBytes
  <2>3. i + 1 \in 1 .. m /\ (i + 1) - 1 = i /\ i + 1 \in 0 .. m
    BY <1>2
  <2>4. b[i + 1] = BitsNumber(d, e, ByteBits)
    BY <1>2, <2>3
  <2>5. g[i + 1] = BitsNumber(d, o, ByteBits * (i + 1))
    BY <1>1, <1>4, <2>1, <2>2, <2>4
  <2> QED
    BY <2>3, <2>5
<1>5. 0 .. m \subseteq T
  <2> HIDE DEF T
  <2> QED
    BY <1>2, <1>3, <1>4, BoundedInduction
<1>6. m \in 0 .. m
  BY <1>2
<1> QED
  BY <1>1, <1>5, <1>6 DEF n

LEMMA DecodeFull ==
  ASSUME NEW d \in ByteStrings, NEW o \in Nat, NEW b \in Seq(Nat),
         \A i \in 1 .. Len(b) : b[i] = BitsNumber(d, o + ByteBits * (i - 1), ByteBits)
  PROVE  DecodeUNumber(b) = BitsNumber(d, o, ByteBits * Len(b))
<1>1. Len(b) \in 0 .. Len(b)
  BY LenProperties
<1> QED
  BY <1>1, DecodePrefix

\* One byte more moves the number of those before by a byte.
LEMMA DecodeOneMore ==
  ASSUME NEW d \in ByteStrings, NEW o \in Nat, NEW b \in Seq(Nat), NEW m \in Nat, Len(b) = m + 1,
         \A i \in 1 .. m : b[i] = BitsNumber(d, o + ByteBits * (i - 1), ByteBits)
  PROVE  DecodeUNumber(b) = BitsNumber(d, o, ByteBits * m) * TwoTo[ByteBits] + b[m + 1]
<1>1. m \in 0 .. Len(b) /\ m \in 0 .. Len(b) - 1
  OBVIOUS
<1>2. PICK g : /\ \A i \in 0 .. Len(b) - 1 : g[i + 1] = g[i] * TwoTo[ByteBits] + b[i + 1]
               /\ DecodeUNumber(b) = g[Len(b)]
               /\ g[m] = BitsNumber(d, o, ByteBits * m)
  BY <1>1, DecodePrefix
<1>3. g[m + 1] = g[m] * TwoTo[ByteBits] + b[m + 1]
  BY <1>1, <1>2
<1> QED
  BY <1>2, <1>3

-----------------------------------------------------------------------------
(* The bytes GetBytes makes of bits.                                         *)

\* Bits need no fewer bytes than they fill.
LEMMA CeilBounds ==
  ASSUME NEW a \in Nat
  PROVE  Ceil(a) \in Nat /\ a \div ByteBits <= Ceil(a) /\ (a # 0 => Ceil(a) >= 1)
<1> DEFINE q == a \div ByteBits
           r == a % ByteBits
<1>1. ByteBits \in Nat \ {0}
  BY CustomAssumption
<1>2. q \in Nat /\ r \in Nat /\ r < ByteBits /\ a = ByteBits * q + r
  BY <1>1, QuotientIsNat
<1> HIDE DEF q, r
<1>3. CASE r = 0
  <2>1. a = ByteBits * q
    BY <1>1, <1>2, <1>3
  <2>2. Ceil(a) = q
    BY <1>2, <2>1, CeilFacts
  <2>3. a # 0 => q # 0
    BY <1>1, <2>1
  <2> QED
    BY <1>2, <2>2, <2>3 DEF q
<1>4. CASE r # 0
  <2>1. r \in 1 .. ByteBits
    BY <1>1, <1>2, <1>4
  <2>2. Ceil(a) = q + 1
    BY <1>2, <2>1, CeilFacts
  <2> QED
    BY <1>2, <2>2 DEF q
<1> QED
  BY <1>3, <1>4

\* Dividing keeps the order.
LEMMA QuotientBelow ==
  ASSUME NEW a \in Nat, NEW b \in Nat, NEW p \in Nat \ {0}, a <= b
  PROVE  a \div p <= b \div p
<1> DEFINE x == a \div p
           y == b \div p
           r == a % p
           s == b % p
<1>1. x \in Nat /\ r \in Nat /\ r < p /\ a = p * x + r
  BY QuotientIsNat
<1>2. y \in Nat /\ s \in Nat /\ s < p /\ b = p * y + s
  BY QuotientIsNat
<1> HIDE DEF x, y, r, s
<1>3. ASSUME y + 1 <= x PROVE FALSE
  <2>1. p * (y + 1) <= p * x
    BY <1>1, <1>2, <1>3, Monotone
  <2>2. p * (y + 1) = p * y + p
    BY <1>2
  <2>3. p * y \in Nat /\ p * x \in Nat
    BY <1>1, <1>2, ProductType
  <2> QED
    BY <1>1, <1>2, <2>1, <2>2, <2>3
<1>4. x <= y
  BY <1>1, <1>2, <1>3
<1> QED
  BY <1>4 DEF x, y

Unused(l) == (ByteBits - (l % ByteBits)) % ByteBits

MadeOf(d, o, l, q, s, end) ==
  /\ end = Len(d) \/ end = Ceil(o + l)
  /\ GetBytes(d, o, l)
       = [Shifted(SubSeq(d, q + 1, end), Ceil(l), s) EXCEPT ![Ceil(l)] = @ \div TwoTo[Unused(l)]]

\* GetBytes shifts the bytes from the first that is touched to the last, and masks
\* the last one.
LEMMA GetBytesShape ==
  ASSUME NEW d \in ByteStrings, NEW o \in Nat, NEW l \in Nat, l # 0, o <= Len(d) * ByteBits,
         NEW q, q = o \div ByteBits, NEW s, s = o % ByteBits
  PROVE  \E end \in q .. Len(d) : MadeOf(d, o, l, q, s, end)
<1> DEFINE end == IF Ceil(o + l) < Len(d) THEN Ceil(o + l) ELSE Len(d)
<1>1. ByteBits \in Nat \ {0} /\ Len(d) \in Nat /\ o + l \in Nat
  BY CustomAssumption, LenProperties DEF ByteStrings
<1>2. q \in Nat
  BY <1>1, QuotientIsNat
<1>3. q <= Ceil(o + l) /\ Ceil(o + l) \in Nat
  <2>1. q <= (o + l) \div ByteBits
    BY <1>1, QuotientBelow
  <2>2. (o + l) \div ByteBits <= Ceil(o + l) /\ Ceil(o + l) \in Nat
    BY <1>1, CeilBounds
  <2>3. (o + l) \div ByteBits \in Nat
    BY <1>1, QuotientIsNat
  <2> QED
    BY <1>2, <2>1, <2>2, <2>3
<1>4. q <= Len(d)
  <2> DEFINE m == ByteBits * Len(d)
  <2>1. m \in Nat /\ o <= m
    <3>1. m \in Nat
      BY <1>1, ProductType
    <3>2. Len(d) * ByteBits = m
      BY <1>1
    <3> QED
      BY <3>1, <3>2
  <2>2. m \div ByteBits = Len(d)
    <3>1. (ByteBits * Len(d) + 0) \div ByteBits = Len(d)
      BY <1>1, Divided
    <3> QED
      BY <2>1, <3>1
  <2> HIDE DEF m
  <2>3. q <= m \div ByteBits
    BY <1>1, <2>1, QuotientBelow
  <2> QED
    BY <2>2, <2>3
<1>5. end \in q .. Len(d) /\ (end = Len(d) \/ end = Ceil(o + l))
  BY <1>1, <1>2, <1>3, <1>4
<1>6. ~(Len(d) * ByteBits < o \/ l = 0)
  <2>1. Len(d) * ByteBits \in Nat
    BY <1>1, ProductType
  <2> QED
    BY <2>1
<1>7. GetBytes(d, o, l)
        = [Shifted(SubSeq(d, q + 1, end), Ceil(l), s)
             EXCEPT ![Ceil(l)] = @ \div TwoTo[Unused(l)]]
  BY <1>6 DEF GetBytes, Unused
<1>8. MadeOf(d, o, l, q, s, end)
  BY <1>5, <1>7 DEF MadeOf
<1> HIDE DEF end
<1> QED
  BY <1>5, <1>8

\* A shifted byte is a number.
LEMMA ShiftedType ==
  ASSUME NEW d \in ByteStrings, NEW q \in Nat, NEW end \in q .. Len(d),
         NEW s \in 0 .. ByteBits - 1, NEW n \in Nat, NEW i \in 1 .. n
  PROVE  Shifted(SubSeq(d, q + 1, end), n, s)[i] \in Nat
<1> DEFINE left == (ByteAt(d, q + i - 1) * TwoTo[s]) % TwoTo[ByteBits]
           right == ByteAt(d, q + i) \div TwoTo[ByteBits - s]
<1>1. ByteBits \in Nat /\ s \in Nat /\ ByteBits - s \in Nat /\ q + i - 1 \in Nat /\ q + i \in Nat
  BY CustomAssumption
<1>2. /\ TwoTo[s] \in Nat /\ TwoTo[ByteBits] \in Nat \ {0} /\ TwoTo[ByteBits - s] \in Nat \ {0}
      /\ ByteAt(d, q + i - 1) \in Nat /\ ByteAt(d, q + i) \in Nat
  BY <1>1, TwoToType, ByteFacts
<1>3. left \in Nat
  <2>1. ByteAt(d, q + i - 1) * TwoTo[s] \in Nat
    BY <1>2, ProductType
  <2> QED
    BY <1>2, <2>1, QuotientIsNat
<1>4. right \in Nat
  BY <1>2, QuotientIsNat
<1>5. Shifted(SubSeq(d, q + 1, end), n, s)[i]
        = (IF q + i <= end THEN left ELSE 0) + (IF q + i < end THEN right ELSE 0)
  BY Halves
<1> HIDE DEF left, right
<1> QED
  BY <1>3, <1>4, <1>5

\* The bits masked are fewer than a byte.
LEMMA UnusedType ==
  ASSUME NEW l \in Nat
  PROVE  Unused(l) \in Nat /\ TwoTo[Unused(l)] \in Nat \ {0}
<1>1. ByteBits \in Nat \ {0}
  BY CustomAssumption
<1>2. l % ByteBits \in Nat /\ l % ByteBits < ByteBits
  BY <1>1, QuotientIsNat
<1>3. ByteBits - (l % ByteBits) \in Nat
  BY <1>1, <1>2
<1>4. Unused(l) \in Nat
  BY <1>1, <1>3, QuotientIsNat DEF Unused
<1> QED
  BY <1>4, TwoToType

\* What GetBytes returns of bits that begin within the packet: end is the last byte
\* that is used, q the one before the first.
ReadOf(d, o, l, q, s, end) ==
  /\ end = Len(d) \/ end = Ceil(o + l)
  /\ GetBytes(d, o, l) \in Seq(Nat) /\ Len(GetBytes(d, o, l)) = Ceil(l)
  /\ \A i \in 1 .. Ceil(l) :
       GetBytes(d, o, l)[i]
         = IF i = Ceil(l)
           THEN Shifted(SubSeq(d, q + 1, end), Ceil(l), s)[i] \div TwoTo[Unused(l)]
           ELSE Shifted(SubSeq(d, q + 1, end), Ceil(l), s)[i]

\* The bytes that GetBytes returns, one by one.
LEMMA GetBytesValues ==
  ASSUME NEW d \in ByteStrings, NEW o \in Nat, NEW l \in Nat, l # 0, o <= Len(d) * ByteBits,
         NEW q, q = o \div ByteBits, NEW s, s = o % ByteBits
  PROVE  \E end \in q .. Len(d) : ReadOf(d, o, l, q, s, end)
<1>1. PICK end \in q .. Len(d) : MadeOf(d, o, l, q, s, end)
  BY GetBytesShape
<1> DEFINE n == Ceil(l)
           h == Shifted(SubSeq(d, q + 1, end), n, s)
           b == GetBytes(d, o, l)
           u == TwoTo[Unused(l)]
<1>2. n \in Nat /\ n >= 1 /\ u \in Nat \ {0}
  BY CeilBounds, UnusedType
<1>3. q \in Nat /\ s \in 0 .. ByteBits - 1
  <2>1. ByteBits \in Nat \ {0}
    BY CustomAssumption
  <2>2. q \in Nat /\ s \in Nat /\ s < ByteBits
    BY <2>1, QuotientIsNat
  <2> QED
    BY <2>1, <2>2
<1>4. \A i \in 1 .. n : h[i] \in Nat
  BY <1>2, <1>3, ShiftedType
<1>5. h = [i \in 1 .. n |-> h[i]]
  BY DEF Shifted
<1>6. b = [h EXCEPT ![n] = @ \div u] /\ (end = Len(d) \/ end = Ceil(o + l))
  BY <1>1 DEF MadeOf
<1> HIDE DEF n, h, b, u
<1>7. b = [i \in 1 .. n |-> IF i = n THEN h[n] \div u ELSE h[i]]
  BY <1>5, <1>6
<1>8. \A i \in 1 .. n : b[i] = IF i = n THEN h[i] \div u ELSE h[i]
  BY <1>7
<1>9. h[n] \div u \in Nat
  <2>1. n \in 1 .. n
    BY <1>2
  <2> QED
    BY <1>2, <1>4, <2>1, QuotientIsNat
<1>10. b \in [1 .. n -> Nat]
  BY <1>4, <1>7, <1>9
<1>11. b \in Seq(Nat) /\ Len(b) = n
  BY <1>2, <1>10
<1> QED
  BY <1>6, <1>8, <1>11 DEF n, h, b, u, ReadOf

\* GetBytes returns bytes, or none where there are none.
LEMMA GetBytesType ==
  ASSUME NEW d \in ByteStrings, NEW o \in Nat, NEW l \in Nat
  PROVE  GetBytes(d, o, l) \in Seq(Nat)
<1>1. CASE Len(d) * ByteBits < o \/ l = 0
  BY <1>1 DEF GetBytes
<1>2. CASE ~(Len(d) * ByteBits < o \/ l = 0)
  <2>1. Len(d) * ByteBits \in Nat
    <3>1. Len(d) \in Nat /\ ByteBits \in Nat
      BY CustomAssumption, LenProperties DEF ByteStrings
    <3> QED
      BY <3>1, ProductType
  <2>2. l # 0 /\ o <= Len(d) * ByteBits
    BY <1>2, <2>1
  <2>3. PICK q, s, end : ReadOf(d, o, l, q, s, end)
    BY <2>2, GetBytesValues
  <2> QED
    BY <2>3 DEF ReadOf
<1> QED
  BY <1>1, <1>2

-----------------------------------------------------------------------------
(* GetBytes and DecodeUNumber together read the bits of a packet.            *)

\* What lies behind the end of a packet is the number zero.
LEMMA NothingBehind ==
  ASSUME NEW d \in ByteStrings, NEW o \in Nat, NEW l \in Nat, Len(d) * ByteBits < o
  PROVE  BitsNumber(d, o, l) = 0
<1> DEFINE T == {n \in Nat : BitsNumber(d, o, n) = 0}
<1>1. 0 \in T
  BY NumberFacts
<1>2. ASSUME NEW n \in Nat, n \in T PROVE n + 1 \in T
  <2>1. BitsNumber(d, o, n + 1) = 2 * BitsNumber(d, o, n) + Bit(d, o + n)
    BY <1>2, NumberStep
  <2>2. Bit(d, o + n) = 0
    <3>1. Len(d) * ByteBits \in Nat
      <4>1. Len(d) \in Nat /\ ByteBits \in Nat
        BY CustomAssumption, LenProperties DEF ByteStrings
      <4> QED
        BY <4>1, ProductType
    <3>2. o + n >= Len(d) * ByteBits
      BY <1>2, <3>1
    <3> QED
      BY <3>2 DEF Bit
  <2> QED
    BY <1>2, <2>1, <2>2
<1>3. Nat \subseteq T
  <2> HIDE DEF T
  <2> QED
    BY <1>1, <1>2, Induction
<1> QED
  BY <1>3

\* Where bits begin.
LEMMA Begin ==
  ASSUME NEW o \in Nat, NEW q, q = o \div ByteBits, NEW s, s = o % ByteBits
  PROVE  q \in Nat /\ s \in 0 .. ByteBits - 1 /\ o = ByteBits * q + s
<1>1. ByteBits \in Nat \ {0}
  BY CustomAssumption
<1>2. q \in Nat /\ s \in Nat /\ s < ByteBits /\ o = ByteBits * q + s
  BY <1>1, QuotientIsNat
<1> QED
  BY <1>1, <1>2

\* Whole bytes are read bit by bit, wherever in a byte they begin.
LEMMA WholeBytes ==
  ASSUME NEW d \in ByteStrings, NEW o \in Nat, NEW n \in Nat \ {0}, o <= Len(d) * ByteBits,
         NEW l, l = ByteBits * n
  PROVE  DecodeUNumber(GetBytes(d, o, l)) = BitsNumber(d, o, l)
<1> DEFINE q == o \div ByteBits
           s == o % ByteBits
           b == GetBytes(d, o, l)
<1>1. ByteBits \in Nat \ {0} /\ Len(d) \in Nat
  BY CustomAssumption, LenProperties DEF ByteStrings
<1>2. q \in Nat /\ s \in 0 .. ByteBits - 1 /\ o = ByteBits * q + s
  BY Begin
<1>3. l \in Nat /\ l # 0
  BY <1>1, ProductType
<1>4. Ceil(l) = n
  BY CeilFacts
<1>5. TwoTo[Unused(l)] = 1
  <2>1. (ByteBits * n + 0) % ByteBits = 0 /\ (ByteBits * 1 + 0) % ByteBits = 0
    BY <1>1, Divided
  <2>2. ByteBits * n + 0 = l /\ ByteBits * 1 + 0 = ByteBits - 0
    BY <1>1, <1>3
  <2>3. Unused(l) = 0
    BY <2>1, <2>2 DEF Unused
  <2> QED
    BY <2>3, TwoToFacts
<1>6. PICK end \in q .. Len(d) : ReadOf(d, o, l, q, s, end)
  BY <1>3, GetBytesValues
<1> HIDE DEF q, s, b
<1>7. Ceil(o + l) = IF s = 0 THEN q + n ELSE q + n + 1
  <2>1. q + n \in Nat /\ o + l = ByteBits * (q + n) + s
    BY <1>1, <1>2
  <2>2. CASE s = 0
    <3>1. o + l = ByteBits * (q + n)
      BY <1>1, <2>1, <2>2
    <3> QED
      BY <2>1, <2>2, <3>1, CeilFacts
  <2>3. CASE s # 0
    <3>1. s \in 1 .. ByteBits
      BY <1>1, <1>2, <2>3
    <3> QED
      BY <2>1, <2>3, <3>1, CeilFacts
  <2> QED
    BY <2>2, <2>3
<1>8. ASSUME NEW i \in 1 .. n PROVE b[i] = BitsNumber(d, o + ByteBits * (i - 1), ByteBits)
  <2> DEFINE h == Shifted(SubSeq(d, q + 1, end), n, s)
  <2>1. end = Len(d) \/ q + i < end \/ (s = 0 /\ q + i <= end)
    BY <1>2, <1>6, <1>7 DEF ReadOf
  <2>2. h[i] = BitsNumber(d, ByteBits * (q + i - 1) + s, ByteBits)
    BY <1>2, <2>1, ShiftedFully
  <2>3. h[i] \in Nat
    BY <1>2, ShiftedType
  <2>4. b[i] = IF i = n THEN h[i] \div 1 ELSE h[i]
    BY <1>4, <1>5, <1>6 DEF ReadOf, b
  <2> HIDE DEF h
  <2>5. b[i] = h[i]
    BY <2>3, <2>4
  <2>6. ByteBits * (q + i - 1) + s = o + ByteBits * (i - 1)
    BY <1>1, <1>2
  <2> QED
    BY <2>2, <2>5, <2>6
<1>9. DecodeUNumber(b) = BitsNumber(d, o, ByteBits * Len(b))
  <2>1. \A i \in 1 .. Len(b) : b[i] = BitsNumber(d, o + ByteBits * (i - 1), ByteBits)
    BY <1>4, <1>6, <1>8 DEF ReadOf, b
  <2>2. b \in Seq(Nat)
    BY <1>6 DEF ReadOf, b
  <2> QED
    BY <2>1, <2>2, DecodeFull
<1>10. l = ByteBits * Len(b)
  BY <1>4, <1>6 DEF ReadOf, b
<1> QED
  BY <1>9, <1>10 DEF b

\* A remainder is its own remainder.
LEMMA SmallRemainder ==
  ASSUME NEW r \in Nat, NEW p \in Nat \ {0}, r < p
  PROVE  r % p = r
<1>1. (p * 0 + r) % p = r
  BY Divided
<1>2. p * 0 + r = r
  OBVIOUS
<1> QED
  BY <1>1, <1>2

\* A part of a byte needs one.
LEMMA CeilOfPart ==
  ASSUME NEW l \in 1 .. ByteBits
  PROVE  Ceil(l) = 1
<1>1. ByteBits \in Nat \ {0} /\ l - 1 \in Nat /\ l - 1 < ByteBits
  BY CustomAssumption
<1>2. (ByteBits * 1 + (l - 1)) \div ByteBits = 1
  BY <1>1, Divided
<1>3. l + ByteBits - 1 = ByteBits * 1 + (l - 1)
  BY <1>1
<1> QED
  BY <1>2, <1>3 DEF Ceil

\* The first bits make the number without its last bits.
EndsWith(d, o, k, l, y) ==
  /\ y < TwoTo[k - l]
  /\ BitsNumber(d, o, k) = TwoTo[k - l] * BitsNumber(d, o, l) + y

\* The first bits of a number, and those behind them.
LEMMA NumberPrefix ==
  ASSUME NEW d \in ByteStrings, NEW o \in Nat, NEW k \in Nat, NEW l \in 0 .. k
  PROVE  \E y \in Nat : EndsWith(d, o, k, l, y)
<1> DEFINE m == k - l
           e == o + l
           y == BitsNumber(d, e, m)
           x == BitsNumber(d, o, l)
<1>1. l \in Nat /\ m \in Nat /\ e \in Nat /\ e = o + l /\ k = l + m
  OBVIOUS
<1> HIDE DEF m, e
<1>2. BitsNumber(d, o, k) = x * TwoTo[m] + y
  BY <1>1, NumberParts
<1>3. y \in Nat /\ y < TwoTo[m] /\ x \in Nat /\ TwoTo[m] \in Nat
  BY <1>1, NumberType, NumberBound, TwoToType
<1> HIDE DEF x, y
<1>4. x * TwoTo[m] = TwoTo[m] * x
  BY <1>3
<1>5. BitsNumber(d, o, k) = TwoTo[m] * x + y
  BY <1>2, <1>4
<1>6. EndsWith(d, o, k, l, y)
  BY <1>3, <1>5 DEF m, x, EndsWith
<1> QED
  BY <1>3, <1>6

\* A byte that is made of the last byte touched alone is shifted like any other.
LEMMA ShiftedLast ==
  ASSUME NEW d \in ByteStrings, NEW q \in Nat, NEW k \in Nat, k < Len(d),
         NEW s \in 0 .. ByteBits - 1, NEW n \in Nat, NEW i \in 1 .. n, k = q + i - 1
  PROVE  Shifted(SubSeq(d, q + 1, k + 1), n, s)[i]
           = BitsNumber(d, ByteBits * k + s, ByteBits - s) * TwoTo[s]
<1> DEFINE x == (ByteAt(d, k) * TwoTo[s]) % TwoTo[ByteBits]
           h == Shifted(SubSeq(d, q + 1, k + 1), n, s)
<1>1. k + 1 \in q .. Len(d) /\ q + i = k + 1 /\ q + i - 1 = k
  BY LenProperties DEF ByteStrings
<1>2. h[i] = (IF q + i <= k + 1 THEN (ByteAt(d, q + i - 1) * TwoTo[s]) % TwoTo[ByteBits] ELSE 0)
             + (IF q + i < k + 1 THEN ByteAt(d, q + i) \div TwoTo[ByteBits - s] ELSE 0)
  BY <1>1, Halves
<1>3. x = BitsNumber(d, ByteBits * k + s, ByteBits - s) * TwoTo[s]
  BY ShiftedByte
<1>4. x \in Nat
  <2>1. ByteBits \in Nat /\ s \in Nat /\ ByteAt(d, k) \in Nat
    BY CustomAssumption, ByteFacts
  <2>2. TwoTo[s] \in Nat \ {0} /\ TwoTo[ByteBits] \in Nat \ {0}
    BY <2>1, TwoToType
  <2>3. ByteAt(d, k) * TwoTo[s] \in Nat
    BY <2>1, <2>2, ProductType
  <2> QED
    BY <2>2, <2>3
<1>5. h[i] = x + 0
  <2> HIDE DEF h
  <2> QED
    BY <1>1, <1>2
<1> HIDE DEF x
<1>6. x + 0 = x
  BY <1>4
<1> QED
  BY <1>3, <1>5, <1>6

\* A number of bits as whole bytes and the bits left.
Spans(l, n, r) == l = ByteBits * n + r

\* What is left of the i-th shifted byte are the l bits behind the first o.
PartRead(d, q, end, s, n, i, l, o) ==
  Shifted(SubSeq(d, q + 1, end), n, s)[i] \div TwoTo[ByteBits - l] = BitsNumber(d, o, l)

\* Bits that are fewer than a byte are what is left of a shifted byte, also if they
\* come from two.
LEMMA PartOfShifted ==
  ASSUME NEW d \in ByteStrings, NEW q \in Nat, NEW end \in q .. Len(d),
         NEW s \in 0 .. ByteBits - 1, NEW n \in Nat, NEW i \in 1 .. n, NEW l \in 1 .. ByteBits - 1,
         NEW k \in Nat, k = q + i - 1, NEW o, Spans(o, k, s), end = Len(d) \/ end = Ceil(o + l)
  PROVE  PartRead(d, q, end, s, n, i, l, o)
<1>0. o = ByteBits * k + s
  BY DEF Spans
<1> DEFINE h == Shifted(SubSeq(d, q + 1, end), n, s)
           p == TwoTo[ByteBits - l]
           x == BitsNumber(d, o, l)
<1>1. ByteBits \in Nat \ {0} /\ Len(d) \in Nat /\ l \in Nat /\ l # 0 /\ ByteBits - l \in Nat
  BY CustomAssumption, LenProperties DEF ByteStrings
<1>2. k \in Nat /\ s \in Nat /\ q + i = k + 1 /\ ByteBits * k \in Nat /\ o \in Nat
  <2>1. k \in Nat /\ s \in Nat /\ q + i = k + 1
    BY <1>1
  <2>2. ByteBits * k \in Nat
    BY <1>1, <2>1, ProductType
  <2> QED
    BY <1>0, <2>1, <2>2
<1>3. p \in Nat \ {0} /\ x \in Nat
  BY <1>1, <1>2, TwoToType, NumberType
<1> HIDE DEF h, p, x
<1>4. CASE end = Len(d) \/ q + i < end
  <2>1. h[i] = BitsNumber(d, o, ByteBits)
    BY <1>0, <1>4, ShiftedFully DEF h
  <2>2. ByteBits \in Nat /\ l \in 0 .. ByteBits
    BY <1>1
  <2>3. PICK y \in Nat : EndsWith(d, o, ByteBits, l, y)
    BY <1>2, <2>2, NumberPrefix
  <2>4. y \in Int /\ 0 <= y /\ y < p
    BY <2>3 DEF p, EndsWith
  <2>5. h[i] = p * x + y
    BY <2>1, <2>3 DEF p, x, EndsWith
  <2>6. (p * x + y) \div p = x
    <3>1. p \in Nat \ {0} /\ x \in Int
      BY <1>3
    <3> QED
      BY <2>4, <3>1, Divided
  <2>7. h[i] \div p = x
    BY <2>5, <2>6
  <2> QED
    BY <2>7 DEF h, p, x, PartRead
<1>5. CASE ~(end = Len(d) \/ q + i < end)
  <2>1. end = Ceil(o + l) /\ end \in Nat /\ end <= k + 1 /\ end < Len(d)
    BY <1>1, <1>2, <1>5
  <2>2. s + l <= ByteBits
    <3> SUFFICES ASSUME s + l > ByteBits PROVE FALSE
      BY <1>1, <1>2
    <3> DEFINE r == s + l - ByteBits
    <3>1. r \in 1 .. ByteBits /\ k + 1 \in Nat
      BY <1>1, <1>2
    <3>2. o + l = ByteBits * (k + 1) + r
      BY <1>0, <1>1, <1>2
    <3>3. Ceil(ByteBits * (k + 1) + r) = k + 1 + 1
      BY <3>1, CeilFacts
    <3> QED
      BY <1>2, <2>1, <3>2, <3>3
  <2>3. end = k + 1
    <3>1. s + l \in 1 .. ByteBits /\ o + l = ByteBits * k + (s + l)
      BY <1>0, <1>1, <1>2, <2>2
    <3>2. Ceil(ByteBits * k + (s + l)) = k + 1
      BY <1>2, <3>1, CeilFacts
    <3> QED
      BY <2>1, <3>1, <3>2
  <2> DEFINE m == ByteBits - s - l
             j == ByteBits - s
             u == TwoTo[m]
             t == TwoTo[s]
  <2>4. h[i] = BitsNumber(d, o, j) * t
    <3>1. k < Len(d)
      BY <1>1, <1>2, <2>1, <2>3
    <3>2. Shifted(SubSeq(d, q + 1, k + 1), n, s)[i]
            = BitsNumber(d, ByteBits * k + s, ByteBits - s) * TwoTo[s]
      BY <1>2, <3>1, ShiftedLast
    <3> QED
      BY <1>0, <2>3, <3>2 DEF h
  <2>5. m \in Nat /\ j \in Nat /\ l \in 0 .. j /\ m = j - l /\ m + s = ByteBits - l /\ s \in Nat
    BY <1>1, <1>2, <2>2
  <2>6. PICK y \in Nat : EndsWith(d, o, j, l, y)
    <3> HIDE DEF j, m
    <3> QED
      BY <1>2, <2>5, NumberPrefix
  <2>7. u \in Nat \ {0} /\ t \in Nat \ {0}
    BY <2>5, TwoToType
  <2>8. p = u * t
    <3> HIDE DEF m
    <3>1. TwoTo[m + s] = TwoTo[m] * TwoTo[s]
      BY <2>5, TwoToSum
    <3> QED
      BY <2>5, <3>1 DEF p
  <2>9. BitsNumber(d, o, j) = u * x + y /\ y < u
    BY <2>5, <2>6 DEF x, EndsWith
  <2> HIDE DEF u, t, j, m
  <2> DEFINE z == y * t
  <2>10. y <= u - 1
    BY <2>7, <2>9
  <2>11. h[i] = p * x + z
    <3>1. (u * x + y) * t = u * t * x + y * t
      BY <1>3, <2>7
    <3> QED
      BY <2>4, <2>8, <2>9, <3>1
  <2>12. z \in Nat /\ z < p
    <3>1. z \in Nat
      BY <2>7, ProductType
    <3>2. t * y <= t * (u - 1)
      BY <2>7, <2>10, Monotone
    <3>3. t * (u - 1) = u * t - t /\ t * y = z
      BY <2>7, <2>10
    <3> QED
      BY <1>3, <2>7, <2>8, <2>10, <3>1, <3>2, <3>3
  <2> HIDE DEF z
  <2>13. (p * x + z) \div p = x
    <3>1. p \in Nat \ {0} /\ x \in Int /\ z \in Int /\ 0 <= z /\ z < p
      BY <1>3, <2>12
    <3> QED
      BY <3>1, Divided
  <2>14. h[i] \div p = x
    BY <2>11, <2>13
  <2> QED
    BY <2>14 DEF h, p, x, PartRead
<1> QED
  BY <1>4, <1>5

\* What GetBytes masks of a last byte that holds r bits.
LEMMA UnusedOfPart ==
  ASSUME NEW n \in Nat, NEW r \in 1 .. ByteBits - 1
  PROVE  Unused(ByteBits * n + r) = ByteBits - r
<1>1. ByteBits \in Nat \ {0} /\ r \in Int /\ 0 <= r /\ r < ByteBits
  BY CustomAssumption
<1>2. (ByteBits * n + r) % ByteBits = r
  BY <1>1, Divided
<1>3. (ByteBits - r) % ByteBits = ByteBits - r
  BY <1>1, SmallRemainder
<1> QED
  BY <1>2, <1>3 DEF Unused

\* Bits that are no whole bytes: the bytes they fill are read bit by bit, and the
\* bits left are read as a byte of their own.
LEMMA UnevenBytes ==
  ASSUME NEW d \in ByteStrings, NEW o \in Nat, NEW n \in Nat, NEW r \in 1 .. ByteBits - 1,
         o <= Len(d) * ByteBits, NEW l, Spans(l, n, r)
  PROVE  DecodeUNumber(GetBytes(d, o, l))
           = BitsNumber(d, o, ByteBits * n) * TwoTo[ByteBits] + BitsNumber(d, o + ByteBits * n, r)
<1>0. l = ByteBits * n + r
  BY DEF Spans
<1> DEFINE q == o \div ByteBits
           s == o % ByteBits
           b == GetBytes(d, o, l)
<1>1. ByteBits \in Nat \ {0} /\ Len(d) \in Nat /\ r \in Nat /\ r # 0
  BY CustomAssumption, LenProperties DEF ByteStrings
<1>2. q \in Nat /\ s \in 0 .. ByteBits - 1 /\ o = ByteBits * q + s
  BY Begin
<1>3. ByteBits * n \in Nat /\ l \in Nat /\ l # 0
  BY <1>0, <1>1, ProductType
<1>4. Ceil(l) = n + 1
  <2>1. r \in 1 .. ByteBits
    BY <1>1
  <2> QED
    BY <1>0, <2>1, CeilFacts
<1>5. Unused(l) = ByteBits - r
  BY <1>0, UnusedOfPart
<1>6. PICK end \in q .. Len(d) : ReadOf(d, o, l, q, s, end)
  BY <1>3, GetBytesValues
<1> DEFINE h == Shifted(SubSeq(d, q + 1, end), n + 1, s)
<1>7. /\ end = Len(d) \/ end = Ceil(o + l)
      /\ b \in Seq(Nat) /\ Len(b) = n + 1
      /\ \A i \in 1 .. n + 1 : b[i] = IF i = n + 1 THEN h[i] \div TwoTo[ByteBits - r] ELSE h[i]
  BY <1>4, <1>5, <1>6 DEF ReadOf
<1> HIDE DEF q, s, b
<1>8. ASSUME NEW i \in 1 .. n PROVE b[i] = BitsNumber(d, o + ByteBits * (i - 1), ByteBits)
  <2>1. i \in 1 .. n + 1 /\ i # n + 1 /\ n + 1 \in Nat
    OBVIOUS
  <2>2. Ceil(o + l) >= q + n + 1
    <3>1. o + l = ByteBits * (q + n) + (s + r) /\ q + n \in Nat
      BY <1>0, <1>1, <1>2, <1>3
    <3>2. CASE s + r <= ByteBits
      <4>1. s + r \in 1 .. ByteBits
        BY <1>1, <1>2, <3>2
      <4>2. Ceil(o + l) = q + n + 1
        BY <3>1, <4>1, CeilFacts
      <4> QED
        BY <1>2, <4>2
    <3>3. CASE s + r > ByteBits
      <4>1. s + r - ByteBits \in 1 .. ByteBits
        BY <1>1, <1>2, <3>3
      <4>2. o + l = ByteBits * (q + n + 1) + (s + r - ByteBits) /\ q + n + 1 \in Nat
        BY <1>1, <1>2, <3>1
      <4>3. Ceil(o + l) = q + n + 1 + 1
        BY <4>1, <4>2, CeilFacts
      <4> QED
        BY <1>2, <4>3
    <3> QED
      BY <1>1, <1>2, <3>2, <3>3
  <2>3. end = Len(d) \/ q + i < end
    BY <1>2, <1>7, <2>2
  <2>4. h[i] = BitsNumber(d, ByteBits * (q + i - 1) + s, ByteBits)
    BY <1>2, <2>1, <2>3, ShiftedFully
  <2>5. ByteBits * (q + i - 1) + s = o + ByteBits * (i - 1)
    BY <1>1, <1>2
  <2> HIDE DEF h
  <2> QED
    BY <1>7, <2>1, <2>4, <2>5
<1>9. b[n + 1] = BitsNumber(d, o + ByteBits * n, r)
  <2>1. PICK i \in Nat : i = n + 1
    OBVIOUS
  <2>2. PICK k \in Nat : k = q + i - 1
    BY <1>2, <2>1
  <2>3. PICK e : e = ByteBits * k + s
    OBVIOUS
  <2>4. e = o + ByteBits * n /\ e + r = o + l /\ i \in 1 .. i
    BY <1>0, <1>1, <1>2, <1>3, <2>1, <2>2, <2>3
  <2>5. end = Len(d) \/ end = Ceil(e + r)
    BY <1>7, <2>4
  <2>6. PartRead(d, q, end, s, i, i, r, e)
    <3>1. Spans(e, k, s)
      BY <2>3 DEF Spans
    <3> QED
      BY <1>2, <2>2, <2>4, <2>5, <3>1, PartOfShifted
  <2>7. b[n + 1] = h[n + 1] \div TwoTo[ByteBits - r]
    BY <1>7, <2>1, <2>4
  <2> QED
    BY <2>1, <2>4, <2>6, <2>7 DEF PartRead
<1>10. DecodeUNumber(b) = BitsNumber(d, o, ByteBits * n) * TwoTo[ByteBits] + b[n + 1]
  BY <1>7, <1>8, DecodeOneMore
<1> QED
  BY <1>9, <1>10 DEF b

\* Bits that are fewer than a byte are read bit by bit, also across two bytes.
LEMMA PartOfByte ==
  ASSUME NEW d \in ByteStrings, NEW o \in Nat, NEW l \in 1 .. ByteBits - 1, o <= Len(d) * ByteBits
  PROVE  DecodeUNumber(GetBytes(d, o, l)) = BitsNumber(d, o, l)
<1> DEFINE x == BitsNumber(d, o, l)
<1>1. PICK n \in Nat : n = 0
  OBVIOUS
<1>2. ByteBits * n = 0 /\ l = ByteBits * n + l /\ o + ByteBits * n = o /\ ByteBits \in Nat
  BY <1>1, CustomAssumption
<1>3. DecodeUNumber(GetBytes(d, o, l))
        = BitsNumber(d, o, ByteBits * n) * TwoTo[ByteBits] + BitsNumber(d, o + ByteBits * n, l)
  <2>1. Spans(l, n, l)
    BY <1>2 DEF Spans
  <2> QED
    BY <2>1, UnevenBytes
<1>4. BitsNumber(d, o, 0) = 0 /\ TwoTo[ByteBits] \in Nat /\ x \in Nat
  <2>1. l \in Nat
    BY <1>2
  <2> QED
    BY <1>2, <2>1, NumberFacts, NumberType, TwoToType
<1>5. DecodeUNumber(GetBytes(d, o, l)) = 0 * TwoTo[ByteBits] + x
  BY <1>3, <1>4, <1>2
<1> HIDE DEF x
<1>6. 0 * TwoTo[ByteBits] + x = x
  BY <1>4
<1> QED
  BY <1>5, <1>6 DEF x

\* Up to a byte, and for whole bytes, the number read is that of the bits.
LEMMA NumberRead ==
  ASSUME NEW d \in ByteStrings, NEW o \in Nat, NEW l \in Nat, l <= ByteBits \/ l % ByteBits = 0
  PROVE  DecodeUNumber(GetBytes(d, o, l)) = BitsNumber(d, o, l)
<1>1. ByteBits \in Nat \ {0} /\ Len(d) \in Nat /\ Len(d) * ByteBits \in Nat
  <2>1. ByteBits \in Nat \ {0} /\ Len(d) \in Nat
    BY CustomAssumption, LenProperties DEF ByteStrings
  <2> QED
    BY <2>1, ProductType
<1>2. CASE Len(d) * ByteBits < o \/ l = 0
  <2>1. GetBytes(d, o, l) = <<>>
    BY <1>2 DEF GetBytes
  <2>2. DecodeUNumber(<<>>) = 0
    <3>1. <<>> \in Seq(Nat) /\ Len(<<>>) = 0
      OBVIOUS
    <3> QED
      BY <3>1, DecodeNothing
  <2>3. BitsNumber(d, o, l) = 0
    BY <1>2, NothingBehind, NumberFacts
  <2> QED
    BY <2>1, <2>2, <2>3
<1>3. CASE o <= Len(d) * ByteBits /\ l \in 1 .. ByteBits - 1
  BY <1>3, PartOfByte
<1>4. CASE o <= Len(d) * ByteBits /\ l # 0 /\ (l = ByteBits \/ l % ByteBits = 0)
  <2>1. PICK n \in Nat \ {0} : l = ByteBits * n
    <3>1. CASE l = ByteBits
      <4>1. l = ByteBits * 1 /\ 1 \in Nat \ {0}
        BY <1>1, <3>1
      <4> QED
        BY <4>1
    <3>2. CASE l % ByteBits = 0
      <4> DEFINE n == l \div ByteBits
      <4>1. n \in Nat /\ l = ByteBits * n + 0
        BY <1>1, <3>2, QuotientIsNat
      <4> HIDE DEF n
      <4>2. l = ByteBits * n /\ n # 0
        BY <1>1, <1>4, <4>1
      <4> QED
        BY <4>1, <4>2
    <3> QED
      BY <1>4, <3>1, <3>2
  <2> QED
    BY <1>4, <2>1, WholeBytes
<1> QED
  BY <1>1, <1>2, <1>3, <1>4

\* Where a length of more than a byte is no multiple of bytes, the number a flow
\* is rendered with is not the one of its bits, unless those before the last few
\* are all zero: the last few are not moved up to the others. This is why
\* RenderedIsTheBits speaks of no such lengths (reflect.go 76-98, 190-228).
THEOREM UnevenLengthsLeaveAGap ==
  ASSUME NEW d \in ByteStrings, NEW o \in Nat, NEW n \in Nat \ {0}, NEW r \in 1 .. ByteBits - 1
  PROVE  LET l == ByteBits * n + r IN
         DecodeUNumber(GetBytes(d, o, l)) = BitsNumber(d, o, l)
           <=> BitsNumber(d, o, ByteBits * n) = 0
<1> DEFINE m == ByteBits * n
           l == m + r
           e == o + m
           x == BitsNumber(d, o, m)
           y == BitsNumber(d, e, r)
           t == TwoTo[ByteBits]
           u == TwoTo[r]
<1>1. ByteBits \in Nat \ {0} /\ Len(d) \in Nat /\ r \in Nat /\ ByteBits - r \in Nat \ {0}
  BY CustomAssumption, LenProperties DEF ByteStrings
<1>2. m \in Nat /\ Len(d) * ByteBits \in Nat
  BY <1>1, ProductType
<1>3. l \in Nat /\ e \in Nat
  BY <1>1, <1>2
<1>4. x \in Nat /\ y \in Nat /\ t \in Nat /\ u \in Nat
  BY <1>1, <1>2, <1>3, NumberType, TwoToType
<1>5. BitsNumber(d, o, l) = x * u + y
  <2>1. m \in Nat /\ r \in Nat /\ l = m + r /\ e = o + m
    BY <1>1, <1>2
  <2> HIDE DEF m, l, e
  <2>2. BitsNumber(d, o, l) = BitsNumber(d, o, m) * TwoTo[r] + BitsNumber(d, e, r)
    BY <2>1, NumberParts
  <2> QED
    BY <2>2
<1>6. u < t
  <2> DEFINE v == TwoTo[ByteBits - r]
  <2>1. t = u * v
    <3>1. TwoTo[r + (ByteBits - r)] = TwoTo[r] * TwoTo[ByteBits - r]
      BY <1>1, TwoToSum
    <3>2. r + (ByteBits - r) = ByteBits
      BY <1>1
    <3> QED
      BY <3>1, <3>2
  <2>2. v >= 2 /\ v \in Nat
    <3>1. ByteBits - r - 1 \in Nat /\ (ByteBits - r - 1) + 1 = ByteBits - r
      BY <1>1
    <3>2. v = 2 * TwoTo[ByteBits - r - 1] /\ TwoTo[ByteBits - r - 1] \in Nat \ {0}
      BY <3>1, TwoToFacts
    <3> QED
      BY <3>2
  <2>3. u \in Nat \ {0}
    BY <1>1, TwoToType
  <2> HIDE DEF u, v
  <2>4. u * 2 <= u * v
    BY <2>2, <2>3, Monotone
  <2> HIDE DEF t
  <2> QED
    BY <1>4, <2>1, <2>2, <2>3, <2>4
<1>7. CASE Len(d) * ByteBits < o
  <2>1. GetBytes(d, o, l) = <<>>
    BY <1>7 DEF GetBytes
  <2>2. DecodeUNumber(<<>>) = 0
    <3>1. <<>> \in Seq(Nat) /\ Len(<<>>) = 0
      OBVIOUS
    <3> QED
      BY <3>1, DecodeNothing
  <2>3. BitsNumber(d, o, l) = 0 /\ x = 0
    BY <1>2, <1>3, <1>7, NothingBehind
  <2> QED
    BY <2>1, <2>2, <2>3
<1>8. CASE ~(Len(d) * ByteBits < o)
  <2>1. o <= Len(d) * ByteBits
    BY <1>2, <1>8
  <2>2. DecodeUNumber(GetBytes(d, o, l)) = x * t + y
    <3>1. Spans(l, n, r) /\ n \in Nat
      BY DEF Spans
    <3>2. e = o + ByteBits * n /\ m = ByteBits * n
      OBVIOUS
    <3> HIDE DEF l, e, m
    <3>3. DecodeUNumber(GetBytes(d, o, l))
            = BitsNumber(d, o, ByteBits * n) * TwoTo[ByteBits]
              + BitsNumber(d, o + ByteBits * n, r)
      BY <2>1, <3>1, UnevenBytes
    <3> QED
      BY <3>2, <3>3
  <2> HIDE DEF x, y, t, u
  <2>3. x * t + y = x * u + y <=> x = 0
    <3>1. CASE x = 0
      <4>1. 0 * t = 0 /\ 0 * u = 0
        BY <1>4
      <4> QED
        BY <3>1, <4>1
    <3>2. CASE x # 0
      <4>1. x >= 1 /\ t - u >= 1
        BY <1>4, <1>6, <3>2
      <4>2. x * (t - u) = x * t - x * u
        BY <1>4
      <4>3. x * 1 <= x * (t - u)
        <5>1. t - u \in Nat /\ 1 \in Nat /\ 1 <= t - u
          BY <1>4, <4>1
        <5> QED
          BY <1>4, <5>1, Monotone
      <4>4. x * t \in Nat /\ x * u \in Nat
        BY <1>4, ProductType
      <4>5. x * 1 = x
        BY <1>4
      <4> QED
        BY <1>4, <3>2, <4>1, <4>2, <4>3, <4>4, <4>5
    <3> QED
      BY <3>1, <3>2
  <2>4. DecodeUNumber(GetBytes(d, o, l)) = BitsNumber(d, o, l) <=> x = 0
    BY <1>5, <2>2, <2>3
  <2> QED
    BY <2>4 DEF x
<1> QED
  BY <1>7, <1>8

-----------------------------------------------------------------------------
(* Which field a name and an index stand for.                                *)

FieldPlaces(is) == is \subseteq DOMAIN formatter

\* The latest of some fields is one of them.
LEMMA LatestIs ==
  ASSUME formatter \in Seq(CustomField), NEW is, FieldPlaces(is), is # {}
  PROVE  \E i \in is : Latest(is) = formatter[i]
<1> DEFINE i == CHOOSE x \in is : \A j \in is : j <= x
<1>1. Len(formatter) \in Nat /\ DOMAIN formatter = 1 .. Len(formatter)
  BY LenProperties
<1>2. is \subseteq 0 .. Len(formatter)
  BY <1>1 DEF FieldPlaces
<1>3. \E x \in is : \A j \in is : j <= x
  BY <1>1, <1>2, GreatestElement
<1>4. i \in is
  BY <1>3
<1>5. Latest(is) = formatter[i]
  BY DEF Latest
<1> HIDE DEF i
<1> QED
  BY <1>4, <1>5

\* Without a field the zero value of Go is returned.
LEMMA NoField ==
  ASSUME NEW is, is = {}
  PROVE  /\ Latest(is) = [name |-> "", index |-> 0, type |-> "varint", array |-> FALSE]
         /\ Latest(is).index = 0
  BY DEF Latest

\* The latest of some fields is a field.
LEMMA LatestType ==
  ASSUME formatter \in Seq(CustomField), NEW is, FieldPlaces(is)
  PROVE  Latest(is) \in CustomField
<1>1. CASE is = {}
  <2>1. Latest(is) = [name |-> "", index |-> 0, type |-> "varint", array |-> FALSE]
    BY <1>1, NoField
  <2>2. [name |-> "", index |-> 0, type |-> "varint", array |-> FALSE] \in CustomField
    <3>0. 0 \in Int
      OBVIOUS
    <3>1. "" \in Names /\ "varint" \in Types /\ FALSE \in BOOLEAN
      BY MappingAssumption
    <3>2. ASSUME NEW n \in Names, NEW x \in Int, NEW t \in Types, NEW b \in BOOLEAN
          PROVE  [name |-> n, index |-> x, type |-> t, array |-> b] \in CustomField
      BY DEF CustomField
    <3> QED
      BY <3>0, <3>1, <3>2, Zenon
  <2> QED
    BY <2>1, <2>2
<1>2. CASE is # {}
  <2>1. PICK i \in is : Latest(is) = formatter[i]
    BY <1>2, LatestIs
  <2>2. i \in 1 .. Len(formatter)
    BY LenProperties DEF FieldPlaces
  <2> QED
    BY <2>1, <2>2, ElementOfSeq
<1> QED
  BY <1>1, <1>2

\* Looking up a field by its name or index returns a field.
LEMMA FieldTypes ==
  ASSUME formatter \in Seq(CustomField), NEW x
  PROVE  ByName(x) \in CustomField /\ ByIndex(x) \in CustomField
<1>1. FieldPlaces({i \in DOMAIN formatter : formatter[i].name = x})
  BY DEF FieldPlaces
<1>2. FieldPlaces({i \in DOMAIN formatter : formatter[i].index = x})
  BY DEF FieldPlaces
<1> QED
  BY <1>1, <1>2, LatestType DEF ByName, ByIndex

\* A name that has a field has it in the file, and its index leads to a field with
\* this index, the same one if names and indexes are distinct.
LEMMA NameAndIndex ==
  ASSUME formatter \in Seq(CustomField), NEW name, ByName(name).index > 0
  PROVE  /\ ByName(name).name = name
         /\ ByIndex(ByName(name).index).index = ByName(name).index
         /\ Distinct => ByIndex(ByName(name).index) = ByName(name)
<1> DEFINE is == {i \in DOMAIN formatter : formatter[i].name = name}
           x == ByName(name).index
           js == {i \in DOMAIN formatter : formatter[i].index = x}
<1>1. ByName(name) = Latest(is) /\ ByIndex(x) = Latest(js)
  BY DEF ByName, ByIndex
<1>2. FieldPlaces(is) /\ FieldPlaces(js)
  BY DEF FieldPlaces
<1>3. is # {}
  <2>1. CASE is = {}
    <3>1. Latest(is).index = 0
      BY <2>1, NoField
    <3> QED
      BY <1>1, <3>1
  <2> QED
    BY <2>1
<1>4. PICK i \in is : ByName(name) = formatter[i]
  <2> HIDE DEF is, js, x
  <2> QED
    BY <1>1, <1>2, <1>3, LatestIs
<1>5. i \in js
  BY <1>4
<1>6. PICK j \in js : ByIndex(x) = formatter[j]
  <2> HIDE DEF is, js, x
  <2> QED
    BY <1>1, <1>2, <1>5, LatestIs
<1>7. i \in DOMAIN formatter /\ j \in DOMAIN formatter /\ formatter[i].name = name
      /\ formatter[i].index = x /\ formatter[j].index = x
  BY <1>4, <1>6
<1>8. ByName(name).name = name /\ ByIndex(x).index = x
  BY <1>4, <1>6, <1>7
<1>9. Distinct => i = j
  BY <1>7 DEF Distinct
<1> HIDE DEF x
<1> QED
  BY <1>4, <1>6, <1>8, <1>9 DEF x

-----------------------------------------------------------------------------
(* What messages.go finds under a name, one unknown field at a time.         *)

UnknownField == [index : Int, value : Seq(Nat)]

Gathered(name, found, x) ==
  IF ByIndex(x.index).name # name THEN found
  ELSE IF ByIndex(x.index).array THEN Append(found, x.value)
  ELSE <<x.value>>

IsFound(name, found) ==
  found = [k \in 0 .. Len(unknown) |->
             IF k = 0 THEN <<>>
             ELSE IF ByIndex(unknown[k].index).name # name THEN found[k - 1]
             ELSE IF ByIndex(unknown[k].index).array THEN Append(found[k - 1], unknown[k].value)
             ELSE <<unknown[k].value>>]

\* found is what has been found after each unknown field.
Finds(name, found) ==
  /\ found \in [0 .. Len(unknown) -> Seq(Seq(Nat))] /\ found[0] = <<>>
  /\ \A k \in 0 .. Len(unknown) - 1 :
       found[k + 1] = Gathered(name, found[k], unknown[k + 1])
  /\ MapUnknown(name) = found[Len(unknown)]

\* One more unknown field, added or passed over.
LEMMA CollectType ==
  ASSUME NEW name, NEW found \in Seq(Seq(Nat)), NEW x \in UnknownField
  PROVE  Gathered(name, found, x) \in Seq(Seq(Nat))
<1>1. x.value \in Seq(Nat)
  BY DEF UnknownField
<1> DEFINE v == x.value
<1> HIDE DEF v
<1>2. v \in Seq(Nat)
  BY <1>1 DEF v
<1>3. Append(found, v) \in Seq(Seq(Nat)) /\ <<v>> \in Seq(Seq(Nat))
  BY <1>2
<1> QED
  BY <1>3 DEF Gathered, v

Findable == unknown \in Seq(UnknownField) => \A name : \E found : Finds(name, found)

\* The recursion of MapUnknown defines a sequence for any number of unknown fields.
LEMMA UnknownIsFound == Findable
<1> SUFFICES ASSUME unknown \in Seq(UnknownField), NEW name
             PROVE  \E found : Finds(name, found)
  BY DEF Findable
<1> DEFINE n == Len(unknown)
           S == Seq(Seq(Nat))
           step == [p \in Nat \X S |->
                      IF p[1] + 1 \in 1 .. n THEN Gathered(name, p[2], unknown[p[1] + 1]) ELSE <<>>]
           found == CHOOSE g : IsFound(name, g)
<1>1. n \in Nat /\ \A k \in 1 .. n : unknown[k] \in UnknownField
  BY LenProperties, ElementOfSeq
<1>2. <<>> \in S
  OBVIOUS
<1> HIDE DEF n, S
<1>3. step \in [Nat \X S -> S]
  <2>1. ASSUME NEW p \in Nat \X S
        PROVE  (IF p[1] + 1 \in 1 .. n THEN Gathered(name, p[2], unknown[p[1] + 1]) ELSE <<>>) \in S
    <3>1. p[2] \in S
      OBVIOUS
    <3>2. ASSUME NEW k \in 1 .. n PROVE Gathered(name, p[2], unknown[k]) \in S
      BY <1>1, <3>1, <3>2, CollectType DEF S
    <3> QED
      BY <1>2, <3>2
  <2> QED
    BY <2>1
<1>4. PICK g : Iterates(S, <<>>, step, n, g)
  <2> HIDE DEF step
  <2> QED
    BY <1>1, <1>2, <1>3, IteratesExist
<1>5. ASSUME NEW k \in 1 .. n
      PROVE  g[k] = Gathered(name, g[k - 1], unknown[k]) /\ g[k - 1] \in S
  <2>1. k - 1 \in 0 .. n - 1 /\ k - 1 \in 0 .. n /\ k - 1 \in Nat /\ (k - 1) + 1 = k
    BY <1>1
  <2>2. g[(k - 1) + 1] = step[<<k - 1, g[k - 1]>>] /\ g[k - 1] \in S
    <3> HIDE DEF step
    <3> QED
      BY <1>4, <2>1 DEF Iterates
  <2>3. <<k - 1, g[k - 1]>> \in Nat \X S
    BY <2>1, <2>2
  <2>4. step[<<k - 1, g[k - 1]>>]
          = IF (k - 1) + 1 \in 1 .. n THEN Gathered(name, g[k - 1], unknown[(k - 1) + 1]) ELSE <<>>
    BY <2>3
  <2> HIDE DEF step
  <2> QED
    BY <2>1, <2>2, <2>4
<1>6. IsFound(name, g)
  <2> DEFINE h == [k \in 0 .. n |->
                     IF k = 0 THEN <<>>
                     ELSE IF ByIndex(unknown[k].index).name # name THEN g[k - 1]
                     ELSE IF ByIndex(unknown[k].index).array THEN Append(g[k - 1], unknown[k].value)
                     ELSE <<unknown[k].value>>]
  <2>1. ASSUME NEW k \in 0 .. n PROVE g[k] = h[k]
    <3>1. CASE k = 0
      <4>1. h[k] = <<>>
        BY <3>1
      <4> HIDE DEF h, step
      <4> QED
        BY <1>4, <3>1, <4>1 DEF Iterates
    <3>2. CASE k # 0
      <4>1. k \in 1 .. n
        BY <1>1, <3>2
      <4>2. g[k] = Gathered(name, g[k - 1], unknown[k])
        BY <1>5, <4>1
      <4>3. h[k] = Gathered(name, g[k - 1], unknown[k])
        BY <3>2 DEF Gathered
      <4> QED
        BY <4>2, <4>3
    <3> QED
      BY <3>1, <3>2
  <2>2. g = h
    <3>1. h = [k \in 0 .. n |-> h[k]]
      OBVIOUS
    <3> HIDE DEF h, step
    <3>2. g = [k \in 0 .. n |-> g[k]]
      BY <1>4 DEF Iterates
    <3> QED
      BY <2>1, <3>1, <3>2
  <2> QED
    BY <2>2 DEF IsFound, n
<1>7. IsFound(name, found)
  BY <1>6
<1>8. MapUnknown(name) = found[n]
  BY DEF MapUnknown, IsFound, n
<1> HIDE DEF found, step
<1>9. found = [k \in 0 .. n |-> found[k]] /\ found[0] = <<>>
  BY <1>1, <1>7 DEF IsFound, n
<1>10. ASSUME NEW k \in 1 .. n PROVE found[k] = Gathered(name, found[k - 1], unknown[k])
  <2>1. k \in 0 .. n /\ k # 0
    BY <1>1
  <2> QED
    BY <1>7, <2>1 DEF IsFound, Gathered, n
<1>11. ASSUME NEW k \in 0 .. n - 1
       PROVE  /\ k + 1 \in 1 .. n /\ k + 1 \in 0 .. n
              /\ found[k + 1] = Gathered(name, found[k], unknown[k + 1])
  <2>1. k + 1 \in 1 .. n /\ k + 1 \in 0 .. n /\ (k + 1) - 1 = k
    BY <1>1
  <2> QED
    BY <1>10, <2>1
<1> DEFINE T == {k \in 0 .. n : found[k] \in S}
<1>12. 0 \in T
  BY <1>1, <1>2, <1>9
<1>13. ASSUME NEW k \in 0 .. n - 1, k \in T PROVE k + 1 \in T
  <2>1. found[k] \in S /\ unknown[k + 1] \in UnknownField
    BY <1>1, <1>11, <1>13
  <2>2. Gathered(name, found[k], unknown[k + 1]) \in S
    BY <2>1, CollectType DEF S
  <2> QED
    BY <1>11, <2>2
<1>14. 0 .. n \subseteq T
  <2> HIDE DEF T
  <2> QED
    BY <1>1, <1>12, <1>13, BoundedInduction
<1>15. found \in [0 .. n -> S]
  BY <1>9, <1>14
<1>16. Finds(name, found)
  BY <1>8, <1>9, <1>11, <1>15 DEF Finds, n, S
<1> QED
  BY <1>16

\* Fields are looked up in the configuration, which does not change.
LEMMA ByIndexKept ==
  ASSUME formatter' = formatter
  PROVE  /\ \A x : ByIndex(x)' = ByIndex(x) /\ ByName(x)' = ByName(x)
         /\ Distinct' = Distinct
<1>1. ASSUME NEW CONSTANT is PROVE Latest(is)' = Latest(is)
  BY DEF Latest
<1>2. ASSUME NEW CONSTANT x PROVE ByIndex(x)' = ByIndex(x)
  BY <1>1 DEF ByIndex
<1>3. ASSUME NEW CONSTANT x PROVE ByName(x)' = ByName(x)
  BY <1>1 DEF ByName
<1>4. Distinct' = Distinct
  BY DEF Distinct
<1> QED
  BY <1>2, <1>3, <1>4

\* What is found in the first fields does not depend on those behind them.
LEMMA FoundBefore ==
  ASSUME formatter' = formatter, unknown \in Seq(UnknownField), unknown' \in Seq(UnknownField),
         Len(unknown) <= Len(unknown'), \A k \in 1 .. Len(unknown) : unknown'[k] = unknown[k],
         NEW CONSTANT name, NEW CONSTANT f, Finds(name, f), NEW CONSTANT g, Finds(name, g)'
  PROVE  g[Len(unknown)] = MapUnknown(name)
<1> DEFINE n == Len(unknown)
           m == Len(unknown')
           T == {k \in 0 .. n : g[k] = f[k]}
<1>1. n \in Nat /\ m \in Nat /\ n <= m
  BY LenProperties
<1>2. /\ f[0] = <<>> /\ MapUnknown(name) = f[n]
      /\ \A k \in 0 .. n - 1 : f[k + 1] = Gathered(name, f[k], unknown[k + 1])
  BY DEF Finds
<1>3. ASSUME NEW CONSTANT k \in 0 .. m - 1, NEW CONSTANT x, x = unknown'[k + 1]
      PROVE  g[k + 1] = Gathered(name, g[k], x)
  <2>1. g[k + 1] = Gathered(name, g[k], unknown[k + 1])'
    BY DEF Finds
  <2>2. Gathered(name, g[k], unknown[k + 1])' = Gathered(name, g[k], x)
    BY <1>3 DEF Gathered, ByIndex, Latest
  <2> QED
    BY <2>1, <2>2
<1>4. g[0] = <<>>
  BY DEF Finds
<1> HIDE DEF n, m
<1>5. 0 \in T
  BY <1>1, <1>2, <1>4
<1>6. ASSUME NEW k \in 0 .. n - 1, k \in T PROVE k + 1 \in T
  <2>1. k + 1 \in 0 .. n /\ k + 1 \in 1 .. n /\ k \in 0 .. m - 1
    BY <1>1
  <2>2. PICK x : x = unknown[k + 1]
    OBVIOUS
  <2>3. x = unknown'[k + 1]
    BY <2>1, <2>2 DEF n
  <2>4. g[k + 1] = Gathered(name, g[k], x)
    BY <1>3, <2>1, <2>3
  <2>5. f[k + 1] = Gathered(name, f[k], x)
    BY <1>2, <2>2
  <2> QED
    BY <1>6, <2>1, <2>4, <2>5
<1>7. 0 .. n \subseteq T
  <2> HIDE DEF T
  <2> QED
    BY <1>1, <1>5, <1>6, BoundedInduction
<1>8. n \in 0 .. n
  BY <1>1
<1> QED
  BY <1>2, <1>7, <1>8 DEF n

-----------------------------------------------------------------------------
(* Types.                                                                    *)

Destinations == {m.destination : m \in MapEntries}

\* The types that the next lemmas need.
LEMMA StateFacts ==
  ASSUME CustomTypeOK
  PROVE  /\ formatter \in Seq(CustomField) /\ mapping \in Seq(MapEntry) /\ data \in ByteStrings
         /\ unknown \in Seq(UnknownField) /\ layer \in Nat
<1>1. formatter \in Seq(CustomField) /\ mapping \in Seq(MapEntry)
  BY MappingAssumption DEF CustomTypeOK
<1>2. data \in ByteStrings
  <2>1. CASE data \in CustomFrames
    BY <2>1, MappingAssumption DEF ByteStrings
  <2>2. CASE data = <<>>
    BY <2>2 DEF ByteStrings
  <2> QED
    BY <2>1, <2>2 DEF CustomTypeOK
<1>3. unknown \in Seq(UnknownField)
  BY DEF CustomTypeOK, UnknownField
<1>4. layer \in Nat
  BY CustomAssumption DEF CustomTypeOK
<1> QED
  BY <1>1, <1>2, <1>3, <1>4

\* Bytes in the other order make a number as well.
LEMMA LittleType ==
  ASSUME NEW b \in Seq(Nat)
  PROVE  DecodeUNumberLE(b) \in Nat
<1> DEFINE n == Len(b)
           r == [i \in 1 .. n |-> b[n + 1 - i]]
<1>1. n \in Nat
  BY LenProperties
<1>2. ASSUME NEW i \in 1 .. n PROVE b[n + 1 - i] \in Nat
  <2>1. n + 1 - i \in 1 .. Len(b)
    BY <1>1
  <2> QED
    BY <2>1, ElementOfSeq
<1> HIDE DEF n
<1>3. r \in Seq(Nat)
  BY <1>1, <1>2
<1>4. DecodeUNumberLE(b) = DecodeUNumber(r)
  BY DEF DecodeUNumberLE, n
<1> HIDE DEF r
<1> QED
  BY <1>3, <1>4, DecodeType

\* What an entry extracts and maps are bytes.
LEMMA ValueType ==
  ASSUME CustomTypeOK, NEW m \in MapEntry
  PROVE  Extracted(m) \in Seq(Nat) /\ MappedValue(m) \in Seq(Nat)
<1> DEFINE o == layer * ByteBits + m.offset
           b == Extracted(m)
<1>1. m.offset \in Nat /\ m.length \in Nat
  BY DEF MapEntry
<1>2. o \in Nat
  <2>1. layer \in Nat /\ ByteBits \in Nat
    BY StateFacts, CustomAssumption
  <2>2. layer * ByteBits \in Nat
    BY <2>1, ProductType
  <2> QED
    BY <1>1, <2>2
<1> HIDE DEF o
<1>3. GetBytes(data, o, m.length) \in Seq(Nat)
  BY <1>1, <1>2, StateFacts, GetBytesType
<1>4. b \in Seq(Nat)
  BY <1>3 DEF Extracted, o
<1>5. DecodeUNumber(b) \in Nat /\ DecodeUNumberLE(b) \in Nat
  <2> HIDE DEF b
  <2> QED
    BY <1>4, DecodeType, LittleType
<1>6. \/ MappedValue(m) = b
      \/ MappedValue(m) = <<DecodeUNumberLE(b)>>
      \/ MappedValue(m) = <<DecodeUNumber(b)>>
  BY DEF MappedValue
<1> HIDE DEF b
<1>7. <<DecodeUNumberLE(b)>> \in Seq(Nat) /\ <<DecodeUNumber(b)>> \in Seq(Nat)
  BY <1>5
<1>8. MappedValue(m) \in Seq(Nat)
  BY <1>4, <1>6, <1>7
<1> QED
  BY <1>4, <1>8 DEF b

\* No packet has been mapped.
LEMMA CustomTypesFirst == CustomInit => CustomTypeOK
<1> SUFFICES ASSUME CustomInit PROVE CustomTypeOK
  OBVIOUS
<1>1. Len(mapping) \in Nat
  BY MappingAssumption, LenProperties DEF CustomInit
<1>2. entry \in 1 .. Len(mapping) + 1
  BY <1>1 DEF CustomInit
<1>3. unknown \in Seq([index : Int, value : Seq(Nat)]) /\ DOMAIN unknown = {}
  BY DEF CustomInit
<1>4. taken \in [{m.destination : m \in MapEntries} -> Seq(MapEntry \X (LayerStarts \cup {0}))]
  BY DEF CustomInit
<1> QED
  BY <1>2, <1>3, <1>4 DEF CustomInit, CustomTypeOK

\* A packet begins or ends.
LEMMA FreshTypes ==
  ASSUME CustomTypeOK, Fresh, cpc' \in {"ready", "packet"}, data' \in CustomFrames \cup {<<>>}
  PROVE  CustomTypeOK'
<1>1. formatter' = formatter /\ mapping' = mapping /\ MapEntries' = MapEntries
  BY DEF Fresh, MapEntries
<1>2. Len(mapping) \in Nat
  BY StateFacts, LenProperties
<1>3. entry' \in 1 .. Len(mapping) + 1
  BY <1>2 DEF Fresh
<1>4. unknown' \in Seq([index : Int, value : Seq(Nat)]) /\ DOMAIN unknown' = {}
  BY DEF Fresh
<1>5. taken' \in [{m.destination : m \in MapEntries} -> Seq(MapEntry \X (LayerStarts \cup {0}))]
  <2>1. DOMAIN taken = {m.destination : m \in MapEntries}
    BY DEF CustomTypeOK
  <2> QED
    BY <2>1 DEF Fresh
<1>6. tunnel' \in BOOLEAN /\ layer' \in LayerStarts \cup {0}
  BY DEF Fresh
<1> QED
  BY <1>1, <1>3, <1>4, <1>5, <1>6 DEF CustomTypeOK

\* The entry whose turn it is.
LEMMA EntryFacts ==
  ASSUME CustomTypeOK, MoreEntries
  PROVE  /\ mapping[entry] \in MapEntry /\ mapping[entry] \in MapEntries
         /\ mapping[entry].destination \in DOMAIN taken
         /\ entry + 1 \in 1 .. Len(mapping) + 1
<1>1. mapping \in Seq(MapEntry) /\ Len(mapping) \in Nat
  BY StateFacts, LenProperties
<1>2. entry \in 1 .. Len(mapping) /\ entry \in DOMAIN mapping
  BY <1>1, LenProperties DEF CustomTypeOK, MoreEntries
<1>3. mapping[entry] \in MapEntries
  BY <1>2 DEF MapEntries
<1>4. mapping[entry] \in MapEntry
  BY <1>1, <1>2, ElementOfSeq
<1>5. mapping[entry].destination \in DOMAIN taken
  BY <1>3 DEF CustomTypeOK
<1> QED
  BY <1>1, <1>2, <1>3, <1>4, <1>5

\* The unknown field a mapped entry adds.
Added(m) == [index |-> ByName(m.destination).index, value |-> MappedValue(m)]

\* What MapCustom appends to the unknown fields.
LEMMA AddedFacts ==
  ASSUME CustomTypeOK, NEW m \in MapEntry
  PROVE  /\ Added(m) \in UnknownField
         /\ Added(m).index = ByName(m.destination).index /\ Added(m).value = MappedValue(m)
<1>1. ByName(m.destination) \in CustomField
  BY StateFacts, FieldTypes
<1>2. ByName(m.destination).index \in Int
  BY <1>1 DEF CustomField
<1>3. MappedValue(m) \in Seq(Nat)
  BY ValueType
<1> QED
  BY <1>2, <1>3 DEF Added, UnknownField

\* MapCustom appends a field or sets a destination.
LEMMA MapCustomTypes ==
  ASSUME CustomTypeOK, MapCustom
  PROVE  CustomTypeOK'
<1> DEFINE m == mapping[entry]
           x == Added(m)
           n == Len(unknown)
<1>1. MoreEntries /\ formatter' = formatter /\ mapping' = mapping /\ data' = data
      /\ cpc' = cpc /\ tunnel' = tunnel /\ layer' = layer /\ entry' = entry + 1
  BY DEF MapCustom, Selected, NextEntry
<1>2. m \in MapEntry /\ m \in MapEntries /\ m.destination \in DOMAIN taken
      /\ entry + 1 \in 1 .. Len(mapping) + 1
  BY <1>1, EntryFacts
<1>3. /\ unknown' = IF ByName(m.destination).index > 0 THEN Append(unknown, x) ELSE unknown
      /\ taken' = [taken EXCEPT ![m.destination] = Append(@, <<m, layer>>)]
  BY DEF MapCustom, Added
<1> HIDE DEF m
<1>4. x \in UnknownField /\ x.index = ByName(m.destination).index
  BY <1>2, AddedFacts
<1>5. unknown \in Seq(UnknownField) /\ n \in Nat
  BY StateFacts, LenProperties
<1> HIDE DEF x
<1>6. unknown' \in Seq(UnknownField)
  BY <1>3, <1>4, <1>5
<1>7. ASSUME NEW CONSTANT i \in DOMAIN unknown'
      PROVE  unknown'[i].index > 0 /\ (ByIndex(unknown[i].index).index)' = unknown'[i].index
  <2>1. PICK y : y = unknown'[i].index
    OBVIOUS
  <2>2. ByIndex(unknown[i].index)' = ByIndex(y)
    BY <1>1, <2>1 DEF ByIndex, Latest
  <2>3. CASE i \in 1 .. n /\ unknown'[i] = unknown[i]
    <3>1. unknown[i].index > 0 /\ ByIndex(unknown[i].index).index = unknown[i].index
      BY <1>5, <2>3, LenProperties DEF CustomTypeOK
    <3> QED
      BY <2>1, <2>2, <2>3, <3>1
  <2>4. CASE unknown'[i] = x /\ ByName(m.destination).index > 0
    <3>1. ByIndex(y).index = y
      BY <1>4, <2>1, <2>4, StateFacts, NameAndIndex
    <3> QED
      BY <1>4, <2>1, <2>2, <2>4, <3>1
  <2>5. \/ i \in 1 .. n /\ unknown'[i] = unknown[i]
        \/ unknown'[i] = x /\ ByName(m.destination).index > 0
    <3>1. CASE ByName(m.destination).index > 0
      <4>1. unknown' = Append(unknown, x)
        BY <1>3, <3>1
      <4>2. i \in 1 .. n + 1
        BY <1>4, <1>5, <4>1
      <4> QED
        BY <1>4, <1>5, <3>1, <4>1, <4>2
    <3>2. CASE ~(ByName(m.destination).index > 0)
      BY <1>3, <1>5, <3>2, LenProperties
    <3> QED
      BY <3>1, <3>2
  <2> QED
    BY <2>3, <2>4, <2>5
<1>8. taken' \in [{e.destination : e \in MapEntries} -> Seq(MapEntry \X (LayerStarts \cup {0}))]
  <2> DEFINE P == MapEntry \X (LayerStarts \cup {0})
             D == {e.destination : e \in MapEntries}
             p == <<m, layer>>
  <2>1. p \in P
    BY <1>2 DEF CustomTypeOK
  <2>2. taken \in [D -> Seq(P)] /\ m.destination \in D
    BY <1>2 DEF CustomTypeOK
  <2>3. taken' = [taken EXCEPT ![m.destination] = Append(@, p)]
    BY <1>3
  <2> HIDE DEF P, D, p
  <2>4. taken[m.destination] \in Seq(P)
    BY <2>2
  <2>5. Append(taken[m.destination], p) \in Seq(P)
    BY <2>1, <2>4
  <2>6. taken' \in [D -> Seq(P)]
    BY <2>2, <2>3, <2>5
  <2> QED
    BY <2>6 DEF P, D
<1>9. MapEntries' = MapEntries
  BY <1>1 DEF MapEntries
<1>10. unknown' \in Seq([index : Int, value : Seq(Nat)])
  BY <1>6 DEF UnknownField
<1>11. entry' \in 1 .. Len(mapping) + 1
  BY <1>1, <1>2
<1> QED
  BY <1>1, <1>7, <1>8, <1>9, <1>10, <1>11 DEF CustomTypeOK

\* Everything the types say of the message and its mapping stays.
LEMMA KeptTypes ==
  ASSUME CustomTypeOK, UNCHANGED <<formatter, mapping, data, unknown, taken>>,
         cpc' \in {"start", "ready", "packet", "layer", "exit"}, tunnel' \in BOOLEAN,
         layer' \in LayerStarts \cup {0}, entry' \in 1 .. Len(mapping) + 1
  PROVE  CustomTypeOK'
<1>1. MapEntries' = MapEntries
  BY DEF MapEntries
<1>2. ASSUME NEW CONSTANT i \in DOMAIN unknown'
      PROVE  unknown'[i].index > 0 /\ (ByIndex(unknown[i].index).index)' = unknown'[i].index
  <2>1. PICK y : y = unknown[i].index
    OBVIOUS
  <2>2. ByIndex(unknown[i].index)' = ByIndex(y)
    BY <2>1 DEF ByIndex, Latest
  <2>3. unknown[i].index > 0 /\ ByIndex(unknown[i].index).index = unknown[i].index
    BY DEF CustomTypeOK
  <2> QED
    BY <2>1, <2>2, <2>3
<1> QED
  BY <1>1, <1>2 DEF CustomTypeOK

\* Every action keeps the types.
LEMMA CustomTypesNext == CustomTypeOK /\ [CustomNext]_customVars => CustomTypeOK'
<1> SUFFICES ASSUME CustomTypeOK, [CustomNext]_customVars PROVE CustomTypeOK'
  OBVIOUS
<1>0. /\ cpc \in {"start", "ready", "packet", "layer", "exit"} /\ tunnel \in BOOLEAN
      /\ layer \in LayerStarts \cup {0} /\ entry \in 1 .. Len(mapping) + 1
      /\ Len(mapping) \in Nat
  BY StateFacts, LenProperties DEF CustomTypeOK
<1>1. CASE MapConfig
  BY <1>0, <1>1, KeptTypes DEF MapConfig
<1>2. CASE CustomParsePacket \/ CustomEndOfPacket
  BY <1>2, FreshTypes DEF CustomParsePacket, CustomEndOfPacket
<1>3. CASE EnterTunnel
  BY <1>0, <1>3, KeptTypes DEF EnterTunnel
<1>4. CASE MapLayer
  <2>1. 1 \in 1 .. Len(mapping) + 1
    BY <1>0
  <2> QED
    <3>1. UNCHANGED <<formatter, mapping, data, unknown, taken>> /\ tunnel' = tunnel
      BY <1>4 DEF MapLayer
    <3>2. cpc' = "layer" /\ layer' \in LayerStarts /\ entry' = 1
      BY <1>4 DEF MapLayer
    <3> QED
      BY <1>0, <2>1, <3>1, <3>2, KeptTypes
<1>5. CASE SkipEntry
  BY <1>0, <1>5, EntryFacts, KeptTypes DEF SkipEntry, NextEntry
<1>6. CASE MapCustom
  BY <1>6, MapCustomTypes
<1>7. CASE MapCustomFails
  BY <1>7, FreshTypes DEF MapCustomFails
<1>8. CASE EndOfLayer
  BY <1>0, <1>8, KeptTypes DEF EndOfLayer
<1>9. CASE UNCHANGED customVars
  BY <1>0, <1>9, KeptTypes DEF customVars
<1> QED
  BY <1>1, <1>2, <1>3, <1>4, <1>5, <1>6, <1>7, <1>8, <1>9 DEF CustomNext

\* The unknown fields of a message are bytes under an index of the mapping file, and
\* the iterator is at an entry of the mapping or behind it, for any mapping files and
\* packets (reflect.go 190-228, config_impl.go).
THEOREM CustomTypes == CustomSpec => []CustomTypeOK
  BY CustomTypesFirst, CustomTypesNext, PTL DEF CustomSpec

-----------------------------------------------------------------------------
(* What is rendered.                                                         *)

\* The same with the unknown fields after a step.
LEMMA FoundNext ==
  ASSUME unknown' \in Seq(UnknownField), NEW CONSTANT name
  PROVE  \E g : Finds(name, g)'
<1>1. Findable'
  BY UnknownIsFound, PTL
<1> QED
  BY <1>1 DEF Findable

\* Without a new unknown field nothing else is found.
LEMMA SameUnknown ==
  ASSUME formatter' = formatter, unknown \in Seq(UnknownField), unknown' = unknown,
         NEW CONSTANT name
  PROVE  MapUnknown(name)' = MapUnknown(name)
<1>1. PICK f : Finds(name, f)
  BY UnknownIsFound DEF Findable
<1>2. PICK g : Finds(name, g)'
  BY FoundNext
<1>3. Len(unknown) \in Nat /\ Len(unknown) <= Len(unknown')
  BY LenProperties
<1>4. g[Len(unknown)] = MapUnknown(name)
  BY <1>1, <1>2, <1>3, FoundBefore
<1>5. MapUnknown(name)' = g[Len(unknown')]
  BY <1>2 DEF Finds
<1> QED
  BY <1>4, <1>5

\* A new unknown field is found behind the others of its name.
LEMMA MoreUnknown ==
  ASSUME formatter' = formatter, unknown \in Seq(UnknownField),
         NEW CONSTANT x \in UnknownField, unknown' = Append(unknown, x), NEW CONSTANT name
  PROVE  MapUnknown(name)' = Gathered(name, MapUnknown(name), x)
<1>1. PICK n : n = Len(unknown)
  OBVIOUS
<1>2. /\ n \in Nat /\ unknown' \in Seq(UnknownField) /\ Len(unknown') = n + 1
      /\ \A k \in 1 .. n : unknown'[k] = unknown[k]
      /\ unknown'[n + 1] = x
  BY <1>1
<1>3. PICK f : Finds(name, f)
  BY UnknownIsFound DEF Findable
<1>4. PICK g : Finds(name, g)'
  BY <1>2, FoundNext
<1>5. g[n] = MapUnknown(name)
  BY <1>1, <1>2, <1>3, <1>4, FoundBefore
<1>6. n \in 0 .. Len(unknown') - 1
  BY <1>2
<1>7. MapUnknown(name)' = g[n + 1]
  BY <1>2, <1>4 DEF Finds
<1>8. g[n + 1] = Gathered(name, g[n], unknown[n + 1])'
  BY <1>4, <1>6 DEF Finds
<1>9. Gathered(name, g[n], unknown[n + 1])' = Gathered(name, g[n], x)
  BY <1>2 DEF Gathered, ByIndex, Latest
<1> QED
  BY <1>5, <1>7, <1>8, <1>9

\* The bits taken for n are those of the pairs p of an entry and a layer.
BitsOf(p) == << BitsNumber(data, p[2] * ByteBits + p[1].offset, p[1].length) >>
AllBits(n) == [i \in 1 .. Len(taken[n]) |-> BitsOf(taken[n][i])]
Wanted(n, all) == IF ByName(n).array \/ all = <<>> THEN all ELSE <<all[Len(all)]>>

\* The reference definition, with the bits that count taken apart.
LEMMA ExpectedIs == \A n : Expected(n) = Wanted(n, AllBits(n))
  BY DEF Expected, Wanted, AllBits, BitsOf

\* Nothing is found and nothing expected when a packet begins.
LEMMA RenderedFresh ==
  ASSUME CustomTypeOK, CustomTypeOK', Fresh
  PROVE  RenderedIsTheBits'
<1>1. unknown' = <<>> /\ unknown' \in Seq(UnknownField)
  BY DEF Fresh
<1>2. ASSUME NEW CONSTANT n \in DOMAIN taken'
      PROVE  MapUnknown(n)' = Expected(n)'
  <2>1. PICK g : Finds(n, g)'
    BY <1>1, FoundNext
  <2>2. MapUnknown(n)' = <<>>
    BY <1>1, <2>1 DEF Finds
  <2>3. taken'[n] = <<>>
    BY <1>2 DEF Fresh
  <2>4. AllBits(n)' = <<>>
    BY <2>3 DEF AllBits
  <2>5. Expected(n)' = Wanted(n, AllBits(n))'
    BY DEF Expected, Wanted, AllBits, BitsOf
  <2> QED
    BY <2>2, <2>4, <2>5 DEF Wanted
<1> QED
  BY <1>2 DEF RenderedIsTheBits

\* A step that maps nothing changes nothing that is rendered.
LEMMA RenderedKept ==
  ASSUME CustomTypeOK, RenderedIsTheBits,
         UNCHANGED <<formatter, mapping, data, unknown, taken>>
  PROVE  RenderedIsTheBits'
<1>1. ASSUME NEW CONSTANT n PROVE MapUnknown(n)' = MapUnknown(n)
  BY StateFacts, SameUnknown
<1>2. ASSUME NEW CONSTANT n PROVE Expected(n)' = Expected(n)
  BY ByIndexKept DEF Expected
<1>3. ASSUME NEW CONSTANT n PROVE Readable(n)' = Readable(n)
  BY ByIndexKept DEF Readable, MapEntries
<1>4. Distinct' = Distinct
  BY ByIndexKept
<1> QED
  BY <1>1, <1>2, <1>3, <1>4 DEF RenderedIsTheBits

\* A value found for a name is the number of the bits taken for it.
LEMMA BitsAreRead ==
  ASSUME CustomTypeOK, NEW m \in MapEntry, Even(m), m.endian = "big",
         ByName(m.destination).type = "varint"
  PROVE  MappedValue(m) = BitsOf(<<m, layer>>)
<1> DEFINE o == layer * ByteBits + m.offset
           l == m.length
<1>1. m.offset \in Nat /\ l \in Nat
  BY DEF MapEntry
<1>2. o \in Nat
  <2>1. layer \in Nat /\ ByteBits \in Nat
    BY StateFacts, CustomAssumption
  <2>2. layer * ByteBits \in Nat
    BY <2>1, ProductType
  <2> QED
    BY <1>1, <2>2
<1>3. data \in ByteStrings
  BY StateFacts
<1>4. l <= ByteBits \/ l % ByteBits = 0
  BY DEF Even
<1> HIDE DEF o, l
<1>5. DecodeUNumber(GetBytes(data, o, l)) = BitsNumber(data, o, l)
  BY <1>1, <1>2, <1>3, <1>4, NumberRead
<1>6. MappedValue(m) = <<DecodeUNumber(GetBytes(data, o, l))>>
  BY DEF MappedValue, ProtoTypeMap, Extracted, o, l
<1>7. BitsOf(<<m, layer>>) = <<BitsNumber(data, o, l)>>
  BY DEF BitsOf, o, l
<1> QED
  BY <1>5, <1>6, <1>7

\* MapCustom adds to what is rendered the bits that its entry names.
LEMMA RenderedMapped ==
  ASSUME CustomTypeOK, CustomTypeOK', RenderedIsTheBits, MapCustom
  PROVE  RenderedIsTheBits'
<1>1. PICK m : m = mapping[entry]
  OBVIOUS
<1>2. PICK p : p = <<m, layer>>
  OBVIOUS
<1>3. PICK x : x = Added(m)
  OBVIOUS
<1>4. MoreEntries /\ formatter' = formatter /\ mapping' = mapping /\ data' = data
  BY DEF MapCustom, Selected, NextEntry
<1>5. m \in MapEntry /\ m \in MapEntries /\ m.destination \in DOMAIN taken
  BY <1>1, <1>4, EntryFacts
<1>6. /\ unknown' = IF ByName(m.destination).index > 0 THEN Append(unknown, x) ELSE unknown
      /\ taken' = [taken EXCEPT ![m.destination] = Append(@, p)]
  BY <1>1, <1>2, <1>3 DEF MapCustom, Added
<1>7. /\ x \in UnknownField /\ x.index = ByName(m.destination).index
      /\ x.value = MappedValue(m)
  BY <1>3, <1>5, AddedFacts
<1>8. unknown \in Seq(UnknownField)
  BY StateFacts
<1>9. /\ \A n : ByIndex(n)' = ByIndex(n) /\ ByName(n)' = ByName(n)
      /\ Distinct' = Distinct /\ MapEntries' = MapEntries
  BY <1>4, ByIndexKept DEF MapEntries
<1> SUFFICES ASSUME Distinct', NEW CONSTANT n \in DOMAIN taken', Readable(n)'
             PROVE  MapUnknown(n)' = Expected(n)'
  BY DEF RenderedIsTheBits
<1>10. Distinct /\ Readable(n) /\ n \in DOMAIN taken
  BY <1>6, <1>9 DEF Readable
<1>11. MapUnknown(n) = Wanted(n, AllBits(n))
  BY <1>10, ExpectedIs DEF RenderedIsTheBits
<1>12. Expected(n)' = Wanted(n, AllBits(n))'
  BY DEF Expected, Wanted, AllBits, BitsOf
<1>13. ASSUME NEW CONSTANT s PROVE Wanted(n, s)' = Wanted(n, s)
  BY <1>9 DEF Wanted
<1>14. ByName(m.destination).index > 0
         => /\ ByIndex(x.index) = ByName(m.destination)
            /\ ByName(m.destination).name = m.destination
  BY <1>7, <1>10, StateFacts, NameAndIndex
<1>15. CASE n # m.destination
  <2>1. taken'[n] = taken[n]
    BY <1>6, <1>10, <1>15
  <2>2. AllBits(n)' = AllBits(n)
    BY <1>4, <2>1 DEF AllBits, BitsOf
  <2>3. MapUnknown(n)' = MapUnknown(n)
    <3>1. CASE ByName(m.destination).index > 0
      <4>1. MapUnknown(n)' = Gathered(n, MapUnknown(n), x)
        BY <1>4, <1>6, <1>7, <1>8, <3>1, MoreUnknown
      <4> QED
        BY <1>14, <1>15, <3>1, <4>1 DEF Gathered
    <3>2. CASE ~(ByName(m.destination).index > 0)
      BY <1>4, <1>6, <1>8, <3>2, SameUnknown
    <3> QED
      BY <3>1, <3>2
  <2> QED
    BY <1>9, <1>11, <1>12, <2>2, <2>3 DEF Wanted
<1>16. CASE n = m.destination
  <2>1. ByName(n).index > 0 /\ ByName(n).type = "varint" /\ Even(m) /\ m.endian = "big"
    BY <1>5, <1>10 DEF Readable
  <2>2. PICK v : v = MappedValue(m)
    OBVIOUS
  <2>3. v = BitsOf(p)
    BY <1>2, <1>5, <1>16, <2>1, <2>2, BitsAreRead
  <2>4. MapUnknown(n)' = Gathered(n, MapUnknown(n), x)
    BY <1>4, <1>6, <1>7, <1>8, <1>16, <2>1, MoreUnknown
  <2>5. MapUnknown(n)' = IF ByName(n).array THEN Append(MapUnknown(n), v) ELSE <<v>>
    BY <1>7, <1>14, <1>16, <2>1, <2>2, <2>4 DEF Gathered
  <2>6. AllBits(n)' = Append(AllBits(n), v)
    <3>1. taken \in [DOMAIN taken -> Seq(MapEntry \X (LayerStarts \cup {0}))]
      BY DEF CustomTypeOK
    <3>2. PICK t : t = taken[n]
      OBVIOUS
    <3>3. t \in Seq(MapEntry \X (LayerStarts \cup {0})) /\ Len(t) \in Nat
      BY <1>10, <3>1, <3>2, LenProperties
    <3>4. taken'[n] = Append(t, p)
      BY <1>6, <1>10, <1>16, <3>2
    <3>5. PICK d : d = data
      OBVIOUS
    <3> DEFINE bits(r) == <<BitsNumber(d, r[2] * ByteBits + r[1].offset, r[1].length)>>
    <3>6. AllBits(n) = [i \in 1 .. Len(t) |-> bits(t[i])]
      BY <3>2, <3>5 DEF AllBits, BitsOf
    <3>7. AllBits(n)' = [i \in 1 .. Len(Append(t, p)) |-> bits(Append(t, p)[i])]
      BY <1>4, <3>4, <3>5 DEF AllBits, BitsOf
    <3>8. v = bits(p)
      BY <2>3, <3>5 DEF BitsOf
    <3> HIDE DEF bits
    <3>9. p \in MapEntry \X (LayerStarts \cup {0})
      BY <1>2, <1>5 DEF CustomTypeOK
    <3>10. [i \in 1 .. Len(Append(t, p)) |-> bits(Append(t, p)[i])]
             = Append([i \in 1 .. Len(t) |-> bits(t[i])], bits(p))
      BY <3>3, <3>9
    <3> QED
      BY <3>6, <3>7, <3>8, <3>10
  <2>7. PICK all : all = AllBits(n)
    OBVIOUS
  <2>8. Len(all) \in Nat /\ Len(Append(all, v)) = Len(all) + 1
        /\ Append(all, v)[Len(all) + 1] = v /\ Append(all, v) # <<>>
    <3>1. all = [i \in 1 .. Len(taken[n]) |-> BitsOf(taken[n][i])] /\ Len(taken[n]) \in Nat
      BY <1>10, <2>7, LenProperties DEF AllBits, CustomTypeOK
    <3> DEFINE S == {BitsOf(taken[n][i]) : i \in 1 .. Len(taken[n])} \cup {v}
    <3>2. all \in Seq(S)
      BY <3>1
    <3>3. v \in S
      OBVIOUS
    <3> HIDE DEF S
    <3> QED
      BY <3>2, <3>3, AppendProperties, LenProperties
  <2>9. Wanted(n, AllBits(n))' = Wanted(n, Append(all, v))
    BY <1>9, <2>6, <2>7 DEF Wanted
  <2>10. Wanted(n, Append(all, v)) = IF ByName(n).array THEN Append(all, v) ELSE <<v>>
    BY <2>8 DEF Wanted
  <2>11. ByName(n).array => MapUnknown(n) = all
    BY <1>11, <2>7 DEF Wanted
  <2> QED
    BY <1>12, <2>5, <2>9, <2>10, <2>11
<1> QED
  BY <1>15, <1>16

\* Nothing is mapped and nothing rendered.
LEMMA RenderedFirst == CustomInit => RenderedIsTheBits
<1> SUFFICES ASSUME CustomInit, NEW n \in DOMAIN taken PROVE MapUnknown(n) = Expected(n)
  BY DEF RenderedIsTheBits
<1>1. unknown = <<>> /\ unknown \in Seq(UnknownField) /\ taken[n] = <<>>
  BY DEF CustomInit
<1>2. PICK g : Finds(n, g)
  BY <1>1, UnknownIsFound DEF Findable
<1>3. MapUnknown(n) = <<>>
  BY <1>1, <1>2 DEF Finds
<1>4. AllBits(n) = <<>>
  BY <1>1 DEF AllBits
<1>5. Expected(n) = Wanted(n, AllBits(n))
  BY ExpectedIs
<1> QED
  BY <1>3, <1>4, <1>5 DEF Wanted

\* Every action keeps RenderedIsTheBits.
LEMMA RenderedNext ==
  CustomTypeOK /\ RenderedIsTheBits /\ [CustomNext]_customVars => RenderedIsTheBits'
<1> SUFFICES ASSUME CustomTypeOK, RenderedIsTheBits, [CustomNext]_customVars
             PROVE  RenderedIsTheBits'
  OBVIOUS
<1>1. CustomTypeOK'
  BY CustomTypesNext
<1>2. CASE MapCustom
  BY <1>1, <1>2, RenderedMapped
<1>3. CASE CustomParsePacket \/ CustomEndOfPacket \/ MapCustomFails
  <2>1. Fresh
    BY <1>3 DEF CustomParsePacket, CustomEndOfPacket, MapCustomFails
  <2> QED
    BY <1>1, <2>1, RenderedFresh
<1>4. CASE MapConfig \/ EnterTunnel \/ MapLayer \/ SkipEntry \/ EndOfLayer \/ UNCHANGED customVars
  <2>1. UNCHANGED <<formatter, mapping, data, unknown, taken>>
    BY <1>4 DEF MapConfig, EnterTunnel, MapLayer, SkipEntry, NextEntry, EndOfLayer, customVars
  <2> QED
    BY <2>1, RenderedKept
<1> QED
  BY <1>2, <1>3, <1>4 DEF CustomNext

\* The value a flow is rendered with under a name is the number of the bits the mapping
\* file takes for it, in the last layer that has them or in all in order: for packets
\* and bytes of any length, bits anywhere in them or behind their end, up to a byte or
\* whole bytes (reflect.go 13-98 and 190-228, messages.go 128-174).
THEOREM BitsAreRendered == CustomSpec => []RenderedIsTheBits
  BY RenderedFirst, RenderedNext, CustomTypes, PTL DEF CustomSpec

-----------------------------------------------------------------------------
(* Why mapping ends                                                         *)

\* A step at a layer leaves it, or goes on to the next entry of the mapping.
MappingProgress ==
  \/ cpc' # "layer"
  \/ entry' = entry + 1 /\ entry' <= Len(mapping) + 1 /\ mapping' = mapping

\* Which is what the iterator over the entries does.
LEMMA MappingProgresses ==
  ASSUME CustomTypeOK, CustomNext, cpc = "layer"
  PROVE  MappingProgress
<1>1. CASE SkipEntry \/ MapCustom
  <2>1. entry' = entry + 1 /\ mapping' = mapping /\ entry <= Len(mapping)
    BY <1>1 DEF SkipEntry, MapCustom, Selected, MoreEntries, NextEntry
  <2>2. entry \in Int /\ Len(mapping) \in Int
    <3>1. mapping \in Seq(MapEntry)
      BY MappingAssumption DEF MappingAssumption, CustomTypeOK
    <3>2. Len(mapping) \in Nat
      BY <3>1, LenProperties
    <3> QED
      BY <3>2 DEF CustomTypeOK
  <2> QED
    BY <2>1, <2>2 DEF MappingProgress
<1>2. CASE MapCustomFails \/ EndOfLayer
  BY <1>2 DEF MapCustomFails, EndOfLayer, MappingProgress
<1> QED
  BY <1>1, <1>2 DEF CustomNext, MapConfig, CustomParsePacket, CustomEndOfPacket, EnterTunnel, MapLayer
=============================================================================
