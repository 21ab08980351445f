------------------------------ MODULE MCDecoders ------------------------------
(* What a worker does with one datagram after AutoFlowPipe.DecodeFlow has    *)
(* looked at its first bytes (pipe.go 226-270): the NetFlow or the sFlow     *)
(* decoder, the producer, and for sampled packets the parser and the mapped  *)
(* fields. These parts hand over values and share no state, so a behaviour   *)
(* follows one of them, and the others stay as they begin.                   *)
EXTENDS NetFlowDecode, SFlowDecode, PacketParser, Producer, CustomFields, TLC

VARIABLE part \* the part of the work that the behaviour follows

PortParsers ==
  [k \in {"tcp", "udp"} \X {"src", "dst"} \X {1, 2} |->
     CASE k = <<"udp", "dst", 1>> -> "geneve"
       [] k = <<"udp", "src", 1>> -> "teredo"
       [] k = <<"tcp", "dst", 2>> -> "geneve"
       [] OTHER -> "none"]
OneRegistry == {PortParsers}

About(family, src, dst, start, end) ==
  [family |-> family, src |-> src, dst |-> dst, start |-> start, end |-> end]
Found(sets, family, etype, labels) ==
  [sets |-> sets, family |-> family, etype |-> etype, labels |-> labels]
TheFieldSets ==
  {AddressFields \cup {"version"}, AddressFields \cup {"frame"},
   {"first", "last", "startMillis"}, {"startSeconds", "endNTP"},
   {"startMillis", "endDelta", "startNTP"}, {"private", "number"},
   LabelFields, {"label2", "label3", "frame"}}
TheSampleSets == {{"header", "other"}, {"header", "ipv4"}, {"ipv6"}}
ThePayloads ==
  {Found({}, 4, 0, <<>>), Found({"etype"}, 4, 0, <<>>),
   Found({"etype", "addresses"}, 4, 4, <<>>),
   Found({"etype", "addresses", "labels"}, 6, 6, <<4, 4, 4, 4>>)}
TheOrigins == {About(4, "host", "host", 2, -1), About(6, "host", "host", 1, 0)}

Custom(name, index, type, array) ==
  [name |-> name, index |-> index, type |-> type, array |-> array]
Bits(name, encap, at, length, endian) ==
  [destination |-> name, encap |-> encap, offset |-> at, length |-> length,
   endian |-> endian]
TheCustomFrames == {<<5, 3, 6>>, <<2, 7, 1, 4>>, <<7>>}
TheFormatters ==
  {<<Custom("x", 1000, "varint", FALSE), Custom("y", 1001, "varint", TRUE)>>,
   <<Custom("x", 1000, "string", FALSE), Custom("y", 1000, "varint", TRUE)>>,
   <<Custom("y", 1001, "float", FALSE)>>}
TheMappings ==
  {<<Bits("x", FALSE, at, length, "big")>> : at \in {0, 1, 5, 8}, length \in 0 .. 10}
  \cup {<<Bits("x", FALSE, 1, 3, "big"), Bits("y", TRUE, 2, 3, "big"),
          Bits("x", TRUE, 3, 2, "big"), Bits("y", FALSE, 0, 6, "big")>>,
        <<Bits("x", FALSE, 0, 6, "little"), Bits("z", FALSE, 0, 6, "big")>>}

ASSUME PartsAssumption == SFlowAssumption /\ PacketAssumption /\ ProducerAssumption

allVars == <<part, vars, sflowVars, parserVars, producerVars, customVars>>

PathInit ==
  /\ part \in {"netflow", "sflow", "packet", "producer", "mapping"}
  /\ Init /\ SFlowInit /\ ParserInit /\ ProducerInit
  /\ IF part = "mapping" THEN CustomInit
     ELSE CustomInit /\ formatter = <<Custom("y", 1001, "float", FALSE)>>
                 /\ mapping = <<Bits("x", FALSE, 0, 0, "big")>>
  /\ part # "netflow" => version = 9

NetFlow(step) ==
  part = "netflow" /\ step /\ UNCHANGED <<part, sflowVars, parserVars, producerVars, customVars>>
SFlow(step) ==
  part = "sflow" /\ step /\ UNCHANGED <<part, vars, parserVars, producerVars, customVars>>
Parse(step) ==
  part = "packet" /\ step /\ UNCHANGED <<part, vars, sflowVars, producerVars, customVars>>
Convert(step) ==
  part = "producer" /\ step /\ UNCHANGED <<part, vars, sflowVars, parserVars, customVars>>
Map(step) ==
  part = "mapping" /\ step /\ UNCHANGED <<part, vars, sflowVars, parserVars, producerVars>>

(* The disjuncts of the parts' next-state relations, so that TLC tells them  *)
(* apart.                                                                    *)
PathNext ==
  \/ NetFlow(DecodeMessage) \/ NetFlow(EndOfMessage) \/ NetFlow(BadFlowSet)
  \/ NetFlow(TakeTemplateSet) \/ NetFlow(TakeDataSet) \/ NetFlow(SkipDataSet)
  \/ NetFlow(ReadTemplate) \/ NetFlow(BadTemplate) \/ NetFlow(AddTemplates)
  \/ NetFlow(ReadRecord) \/ NetFlow(StarvedRecord) \/ NetFlow(EndOfDataSet)
  \/ SFlow(SFlowDecodeMessage) \/ SFlow(SFlowEndOfMessage) \/ SFlow(DecodeSample)
  \/ SFlow(BadSample) \/ SFlow(DecodeRecord) \/ SFlow(BadRecord)
  \/ SFlow(EndOfSample)
  \/ Parse(ParsePacket) \/ Parse(ShortLayer) \/ Parse(ParseEthernet)
  \/ Parse(Parse8021Q) \/ Parse(ParseMPLS) \/ Parse(ParseIPv4)
  \/ Parse(ParseIPv6) \/ Parse(ParseIPv6HeaderFragment)
  \/ Parse(ParseIPv6HeaderRouting) \/ Parse(ParseTCP)
  \/ Parse(ParseUDP) \/ Parse(ParseGRE) \/ Parse(ParseTeredoDst)
  \/ Parse(ParseGeneve) \/ Parse(ParseICMP) \/ Parse(ParseICMPv6)
  \/ Convert(Produce) \/ Convert(ConvertNetFlowLegacyRecord)
  \/ Convert(BeginRecord) \/ Convert(EndOfRecord)
  \/ Convert(ConvertAddress) \/ Convert(ConvertTime)
  \/ Convert(ConvertLabel) \/ Convert(ConvertOther)
  \/ Convert(ConvertFrame) \/ Convert(ConvertSample) \/ Convert(BadField)
  \/ Convert(BadSamplingRate) \/ Convert(EndOfPacket)
  \/ Map(MapConfig) \/ Map(CustomParsePacket) \/ Map(CustomEndOfPacket)
  \/ Map(EnterTunnel) \/ Map(MapLayer) \/ Map(SkipEntry) \/ Map(MapCustom)
  \/ Map(MapCustomFails) \/ Map(EndOfLayer)

PathSpec ==
  PathInit /\ [][PathNext]_allVars /\ WF_allVars(NetFlow(Decode))

(* The types of the part that is followed.                                   *)
PathTypeOK ==
  CASE part = "netflow" -> TypeOK [] part = "sflow" -> SFlowTypeOK
    [] part = "packet" -> ParserTypeOK [] part = "producer" -> ProducerTypeOK
    [] part = "mapping" -> CustomTypeOK
=============================================================================
