----------------------------- MODULE PacketParser -----------------------------
(***************************************************************************)
(* The parser of sampled packets of producer/proto/producer_packet.go. It  *)
(* walks over the headers of a frame and collects fields of the flow from  *)
(* those that are outside of a tunnel; each layer names the parser of the  *)
(* next one. What the headers hold is a choice; the frame is the number of *)
(* bytes behind the offset, and a field is the position of the layer it    *)
(* was last written by.                                                    *)
(***************************************************************************)
EXTENDS Integers, Sequences

CONSTANTS
  Frames,      \* bytes of a sampled frame
  Extras,      \* values of the length fields in TCP, Geneve and routing headers
  PortNumbers, \* ports in TCP and UDP headers
  Registries   \* parsers the configuration may register for ports

Etypes == {"ethernet", "dot1q", "mpls", "ipv4", "ipv6"}
Protos == {"ipv4", "ipv6", "tcp", "udp", "icmp", "icmpv6", "gre", "route", "fragment"}
Parsers == Etypes \cup Protos \cup {"teredo", "geneve"}

IPs == {"ipv4", "ipv6"}
Ports == {"tcp", "udp"}
Tunnels == {"gre", "teredo", "geneve"}

(* The parsers' places in the stack of a packet outside of a tunnel; "none" *)
(* is parserNone, "nil" the ParserInfo of an empty result.                  *)
LayerIndex ==
  [ethernet |-> 20, dot1q |-> 25, mpls |-> 25, ipv4 |-> 30, ipv6 |-> 30,
   route |-> 35, fragment |-> 35, tcp |-> 40, udp |-> 40, gre |-> 40,
   teredo |-> 40, geneve |-> 40, icmp |-> 70, icmpv6 |-> 70, none |-> 100, nil |-> 0]
EncapSkip == {"dot1q", "mpls", "fragment"}
NoParser == {"none", "nil"}

(* The bytes each parser asks for before it reads.                          *)
Bytes ==
  [ethernet |-> 14, dot1q |-> 4, mpls |-> 4, ipv4 |-> 20, ipv6 |-> 40,
   route |-> 8, fragment |-> 8, tcp |-> 20, udp |-> 8, gre |-> 4,
   teredo |-> 0, geneve |-> 8, icmp |-> 2, icmpv6 |-> 2]

Fields == {"mac", "etype", "vlan", "mpls", "address", "proto", "ttl",
           "fragment", "route", "port", "flags", "icmp"}

VARIABLES
  customPort,   \* the parsers registered for ports
  frame,        \* the bytes of the frame, 0 when none is parsed
  offset,       \* the bytes behind the parser
  nextParser,   \* the parser called next
  calls,        \* how often the two ICMP parsers were named as the next
  encapsulated, \* ParseConfig.Encapsulated
  stack,        \* the layers added to the flow: LayerStack
  flow          \* the layer each field was collected from, 0 if from none

parserVars == <<customPort, frame, offset, nextParser, calls, encapsulated, stack, flow>>

Keys == Ports \X {"src", "dst"} \X PortNumbers

PacketAssumption ==
  /\ Frames \subseteq Nat /\ Extras \subseteq Nat
  /\ Registries \subseteq [Keys -> {"teredo", "geneve", "none"}]

ParserInit ==
  /\ customPort \in Registries
  /\ frame = 0 /\ offset = 0 /\ nextParser = "none"
  /\ calls = [p \in {"icmp", "icmpv6"} |-> 0]
  /\ encapsulated = FALSE /\ stack = <<>> /\ flow = [f \in Fields |-> 0]

Left == frame - offset
Running == nextParser \notin NoParser /\ Left >= 0

(* A frame of a sample is handed to ParsePacket, with a message of its own. *)
ParsePacket ==
  /\ ~Running
  /\ frame' \in Frames /\ offset' = 0
  /\ nextParser' = "ethernet"
  /\ calls' = [p \in {"icmp", "icmpv6"} |-> 0]
  /\ encapsulated' = FALSE /\ stack' = <<>> /\ flow' = [f \in Fields |-> 0]
  /\ UNCHANGED customPort

-----------------------------------------------------------------------------
(* Mutant: a layer beside the one before starts no tunnel.                  *)
EncapsulatesBelow(p, next) ==
  next \notin EncapSkip /\ LayerIndex[next] < LayerIndex[p]

(* A layer below or beside the one before starts a tunnel; one that is      *)
(* skipped is not compared, the one above it is compared with it.           *)
Encapsulates(p, next) ==
  next \notin EncapSkip /\ LayerIndex[next] <= LayerIndex[p]

(* Mutant: only the layer before decides whether this one is in a tunnel.   *)
AdvanceAfresh(p, size, next) ==
  /\ nextParser' = next
  /\ offset' = offset + size
  /\ encapsulated' = Encapsulates(p, next)
  /\ calls' = [q \in DOMAIN calls |-> IF q = next THEN calls[q] + 1 ELSE calls[q]]
  /\ UNCHANGED <<customPort, frame>>

(* What the loop does with the result of a parser.                          *)
Advance(p, size, next) ==
  /\ nextParser' = next
  /\ offset' = offset + size
  /\ encapsulated' = (encapsulated \/ Encapsulates(p, next))
  /\ calls' = [q \in DOMAIN calls |-> IF q = next THEN calls[q] + 1 ELSE calls[q]]
  /\ UNCHANGED <<customPort, frame>>

Called(p) == Running /\ nextParser = p
Enough(p) == Called(p) /\ Left >= Bytes[p] /\ stack' = Append(stack, p)
BaseLayer == ~encapsulated

Write(fields) ==
  flow' = [f \in Fields |-> IF f \in fields THEN Len(stack) + 1 ELSE flow[f]]
Collect(fields) == Write(IF BaseLayer THEN fields ELSE {})

NextParserEtype == Etypes \cup {"none"}
NextParserProto == Protos \cup {"none"}
NextParserPort(proto, src, dst) ==
  IF customPort[<<proto, "dst", dst>>] # "none" THEN customPort[<<proto, "dst", dst>>]
  ELSE customPort[<<proto, "src", src>>]

(* Too few bytes: an empty result, and the walk ends.                       *)
ShortLayer ==
  \E p \in Parsers :
    /\ Called(p) /\ Left < Bytes[p]
    /\ Advance(p, 0, "nil")
    /\ UNCHANGED <<stack, flow>>

ParseEthernet ==
  /\ Enough("ethernet") /\ Collect({"mac", "etype"})
  /\ \E next \in NextParserEtype : Advance("ethernet", 14, next)

Parse8021Q ==
  /\ Enough("dot1q") /\ Collect({"vlan", "etype"})
  /\ \E next \in NextParserEtype : Advance("dot1q", 4, next)

(* All labels to the bottom of the stack, or as many as there are; the      *)
(* nibble behind the bottom tells which IP follows.                         *)
ParseMPLS ==
  /\ Enough("mpls")
  /\ \E labels \in 1 .. Left \div 4, next \in IPs \cup {"nil"} :
       /\ next \in IPs => Left > 4 * labels
       /\ Collect({"mpls"} \cup IF next = "nil" THEN {} ELSE {"etype"})
       /\ Advance("mpls", 4 * labels, next)

ParseIPv4 ==
  /\ Enough("ipv4") /\ Collect({"address", "proto", "ttl", "fragment"})
  /\ \E next \in NextParserProto : Advance("ipv4", 20, next)

ParseIPv6 ==
  /\ Enough("ipv6") /\ Collect({"address", "proto", "ttl"})
  /\ \E next \in NextParserProto : Advance("ipv6", 40, next)

ParseIPv6HeaderFragment ==
  /\ Enough("fragment") /\ Collect({"fragment"})
  /\ \E next \in NextParserProto : Advance("fragment", 8, next)

ParseIPv6HeaderRouting ==
  /\ Enough("route") /\ Collect({"route"})
  /\ \E n \in Extras, next \in NextParserProto : Advance("route", 8 + 8 * n, next)

(* The length is taken from the byte of the flags.                          *)
ParseTCP ==
  /\ Enough("tcp") /\ Collect({"port", "flags"})
  /\ \E n \in Extras, src, dst \in PortNumbers :
       Advance("tcp", 20 + 4 * n, NextParserPort("tcp", src, dst))

ParseUDP ==
  /\ Enough("udp") /\ Collect({"port"})
  /\ \E src, dst \in PortNumbers : Advance("udp", 8, NextParserPort("udp", src, dst))

ParseGRE ==
  /\ Enough("gre") /\ Collect({})
  /\ \E next \in NextParserEtype : Advance("gre", 4, next)

ParseTeredoDst == Enough("teredo") /\ Collect({}) /\ Advance("teredo", 0, "ipv6")

ParseGeneve ==
  /\ Enough("geneve") /\ Collect({})
  /\ \E n \in Extras, next \in NextParserEtype : Advance("geneve", 8 + 4 * n, next)

(* Type and code are collected in any layer, at the first call only; the    *)
(* loop has counted the call before it makes it.                            *)
ParseICMP ==
  /\ Enough("icmp") /\ Write(IF calls["icmp"] = 0 THEN {"icmp"} ELSE {})
  /\ Advance("icmp", 8, "nil")

ParseICMPv6 ==
  /\ Enough("icmpv6") /\ Write(IF calls["icmpv6"] = 0 THEN {"icmp"} ELSE {})
  /\ Advance("icmpv6", 8, "nil")

ParserNext ==
  \/ ParsePacket \/ ShortLayer
  \/ ParseEthernet \/ Parse8021Q \/ ParseMPLS
  \/ ParseIPv4 \/ ParseIPv6 \/ ParseIPv6HeaderFragment \/ ParseIPv6HeaderRouting
  \/ ParseTCP \/ ParseUDP \/ ParseGRE \/ ParseTeredoDst \/ ParseGeneve
  \/ ParseICMP \/ ParseICMPv6

ParserSpec == ParserInit /\ [][ParserNext]_parserVars

-----------------------------------------------------------------------------
(* The types of the parser's variables; a field comes from a layer that is  *)
(* on the stack.                                                            *)
ParserTypeOK ==
  /\ customPort \in Registries
  /\ frame \in Nat /\ offset \in Nat
  /\ nextParser \in Parsers \cup NoParser
  /\ calls \in [{"icmp", "icmpv6"} -> Nat]
  /\ encapsulated \in BOOLEAN
  /\ stack \in Seq(Parsers)
  /\ flow \in [Fields -> 0 .. Len(stack)]

(* Source and destination ports are those of the addresses they are         *)
(* reported with: the header they were read from follows that of the        *)
(* addresses without another IP header in between, although tunnels make    *)
(* both occur several times (producer_packet.go 445-447, 587, 742).         *)
PortsBelongToAddresses ==
  flow["port"] # 0 =>
    /\ flow["address"] \in 1 .. flow["port"] - 1
    /\ \A i \in flow["address"] + 1 .. flow["port"] - 1 : stack[i] \notin IPs

(* No field is collected behind a second IP header, save through a GRE      *)
(* header followed by one that is not compared: a VLAN tag or MPLS labels   *)
(* (producer_packet.go 445-447).                                            *)
Skipped(i) == stack[i] = "gre" /\ stack[i + 1] \in EncapSkip
InnerHeadersAreNotCollected ==
  \A f \in Fields \ {"icmp"} : \A i, j \in 1 .. flow[f] :
    (i < j /\ stack[i] \in IPs /\ stack[j] \in IPs) =>
      \E k \in i + 1 .. j - 2 : Skipped(k)

(* As docs/protocols.md has it: type and code of ICMP are collected, here   *)
(* for a packet that is not in a tunnel.                                    *)
ICMPIsCollected ==
  (Len(stack) = 3 /\ stack[2] \in IPs /\ stack[3] \in {"icmp", "icmpv6"})
    => flow["icmp"] = 3
=============================================================================
