----------------------------- MODULE NetFlowPipe -----------------------------
(***************************************************************************)
(* NetFlowPipe.DecodeFlow (goflow2/utils/pipe.go) as several workers of    *)
(* UDPReceiver run it at once, with the two caches it fills on the way:    *)
(* the template systems, one per source address and port, and the sampling *)
(* rate systems, one per source address (producer/proto/proto.go).         *)
(*                                                                         *)
(* Both caches are read under a read lock and, when the key is missing,    *)
(* written under a write lock taken afterwards: each lock section is a     *)
(* step of its own, and so is each access to a system.  A packet creates   *)
(* at most one system of each kind, so a system is named by the number of  *)
(* its packet.                                                             *)
(*                                                                         *)
(* Abstractions.  One version and one observation domain.  A flow set      *)
(* either defines the template id or is a data set of that id; data sets   *)
(* of OptionIds carry a sampling rate, the others flow records.  A rate is *)
(* known or not (0).  A packet without flow sets may be of NetFlow v5.  A  *)
(* decoding error other than an unknown template may come at any flow set, *)
(* an error of the conversion of records at any packet.                    *)
(* What becomes of the messages after Produce is left to the transport.    *)
(***************************************************************************)
EXTENDS Integers, Sequences

CONSTANTS
  Workers,     \* the goroutines that call DecodeFlow
  Exporters,   \* pkt.Src, an address and a port
  Hosts,       \* pkt.Src.Addr()
  HostOf(_),   \* the host of an exporter
  Ids,         \* template ids
  OptionIds,   \* those of options templates with a sampling rate
  PacketSets,  \* the sequences of flow sets a packet may hold
  MaxPackets   \* bound: packets decoded

FlowSets == [defines : BOOLEAN, id : Ids]
NoSys == 0
Systems == 1..MaxPackets  \* a system has the number of the packet it was created for

ASSUME ConstantsAssumption ==
  /\ MaxPackets \in Nat
  /\ Exporters # {}
  /\ \A e \in Exporters : HostOf(e) \in Hosts
  /\ OptionIds \subseteq Ids
  /\ PacketSets \subseteq Seq(FlowSets)

VARIABLES
  job,        \* the DecodeFlow call of each worker
  templates,  \* p.templates: the template system of each exporter
  defined,    \* the template ids each template system holds
  sampling,   \* p.sampling: the sampling rate system of each host
  rates,      \* the sampling rate systems that hold a rate
  packets,    \* packets accepted so far
  \* History variables: the code never reads them.
  learned,      \* ids the packets of an exporter have defined
  rateLearned,  \* hosts whose packets have given a rate
  sure          \* what each packet in hand can rely on, see Accept

cacheVars == <<templates, defined, sampling, rates>>
vars == <<job, cacheVars, packets, learned, rateLearned, sure>>

(* A call of DecodeFlow: where it is, its packet's number and source, the flow
   sets still to decode, the template system it holds, the ids it found no template
   for, whether an options data set gave a rate, the sampling rate system it
   holds and whether its messages carry a rate. *)
Jobs == [at : {"idle", "lookup", "create", "decode", "sampling",
               "createSampling", "rate", "send"},
         number : 0..MaxPackets, src : Exporters, sets : Seq(FlowSets),
         sys : Systems \cup {NoSys},
         missing : SUBSET Ids, option : BOOLEAN,
         rateSys : Systems \cup {NoSys}, rated : BOOLEAN]

NewJob(n, e, s) ==
  [at |-> "lookup", number |-> n, src |-> e, sets |-> s, sys |-> NoSys,
   missing |-> {}, option |-> FALSE, rateSys |-> NoSys, rated |-> FALSE]
NoJob == [NewJob(0, CHOOSE e \in Exporters : TRUE, <<>>) EXCEPT !.at = "idle"]
NothingSure == [ids |-> {}, rate |-> FALSE]

Init ==
  /\ job = [w \in Workers |-> NoJob]
  /\ templates = [e \in Exporters |-> NoSys]
  /\ defined = [y \in Systems |-> {}]
  /\ sampling = [h \in Hosts |-> NoSys]
  /\ rates = {}
  /\ packets = 0
  /\ learned = [e \in Exporters |-> {}]
  /\ rateLearned = {}
  /\ sure = [w \in Workers |-> NothingSure]

At(w, place) == job[w].at = place
Become(w, j) == job' = [job EXCEPT ![w] = j]
Return(w) == Become(w, NoJob) /\ sure' = [sure EXCEPT ![w] = NothingSure]

-----------------------------------------------------------------------------
\* A worker takes a packet.  It can rely on the templates and the rate that
\* packets of this source have already brought.
Accept(w, e, s) ==
  /\ At(w, "idle")
  /\ packets < MaxPackets
  /\ packets' = packets + 1
  /\ Become(w, NewJob(packets', e, s))
  /\ sure' = [sure EXCEPT ![w] = [ids |-> learned[e],
                                  rate |-> HostOf(e) \in rateLearned]]
  /\ UNCHANGED <<cacheVars, learned, rateLearned>>

\* Mutant: the key is the address without the port.
LookupTemplatesOfHost(w) ==
  /\ At(w, "lookup")
  /\ LET siblings == {e \in Exporters : HostOf(e) = HostOf(job[w].src)}
         known == {templates[e] : e \in siblings} \ {NoSys}
         y == IF known = {} THEN NoSys ELSE CHOOSE k \in known : TRUE
     IN  Become(w, [job[w] EXCEPT !.at = IF y = NoSys THEN "create" ELSE "decode",
                                  !.sys = y])
  /\ UNCHANGED <<cacheVars, packets, learned, rateLearned, sure>>

\* templates, ok := p.templates[key] under the read lock.
LookupTemplates(w) ==
  /\ At(w, "lookup")
  /\ LET y == templates[job[w].src]
     IN  Become(w, [job[w] EXCEPT !.at = IF y = NoSys THEN "create" ELSE "decode",
                                  !.sys = y])
  /\ UNCHANGED <<cacheVars, packets, learned, rateLearned, sure>>

\* Mutant: the new system is not stored in p.templates.
CreateTemplatesUnstored(w) ==
  /\ At(w, "create")
  /\ Become(w, [job[w] EXCEPT !.at = "decode", !.sys = job[w].number])
  /\ UNCHANGED <<templates, defined, sampling, rates, packets, learned,
                 rateLearned, sure>>

\* p.templates[key] = p.netFlowTemplater(key), under the write lock.
CreateTemplates(w) ==
  /\ At(w, "create")
  /\ Become(w, [job[w] EXCEPT !.at = "decode", !.sys = job[w].number])
  /\ templates' = [templates EXCEPT ![job[w].src] = job[w].number]
  /\ UNCHANGED <<defined, sampling, rates, packets, learned,
                 rateLearned, sure>>

AtFlowSet(w, defines) ==
  /\ At(w, "decode")
  /\ job[w].sets # <<>>
  /\ Head(job[w].sets).defines = defines

AddTemplateAs(w, newDefined) ==
  /\ AtFlowSet(w, TRUE)
  /\ LET j == job[w]
         id == Head(j.sets).id
     IN  /\ Become(w, [j EXCEPT !.sets = Tail(@)])
         /\ defined' = newDefined
         /\ learned' = [learned EXCEPT ![j.src] = @ \cup {id}]
         /\ sure' = [sure EXCEPT ![w].ids = @ \cup {id}]
  /\ UNCHANGED <<templates, sampling, rates, packets,
                 rateLearned>>

\* Mutants: one template store for all exporters; a template replaces the others.
AddTemplateEverywhere(w) ==
  AddTemplateAs(w, [y \in Systems |-> defined[y] \cup {Head(job[w].sets).id}])
AddTemplateAlone(w) ==
  AddTemplateAs(w, [defined EXCEPT ![job[w].sys] = {Head(job[w].sets).id}])

\* A template flow set: templates.AddTemplate.
AddTemplate(w) ==
  AddTemplateAs(w, [defined EXCEPT ![job[w].sys] = @ \cup {Head(job[w].sets).id}])

\* A data flow set: templates.GetTemplate; if there is none the error is kept
\* and the next flow set is decoded.
DecodeData(w) ==
  /\ AtFlowSet(w, FALSE)
  /\ LET j == job[w]
         id == Head(j.sets).id
         found == id \in defined[j.sys]
     IN  Become(w, [j EXCEPT !.sets = Tail(@),
                             !.missing = IF found THEN @ ELSE @ \cup {id},
                             !.option = @ \/ (found /\ id \in OptionIds)])
  /\ UNCHANGED <<cacheVars, packets, learned, rateLearned, sure>>

\* Mutant: a decoding error also forgets the exporter's templates.
MalformedForgetting(w) ==
  /\ At(w, "decode")
  /\ Return(w)
  /\ templates' = [templates EXCEPT ![job[w].src] = NoSys]
  /\ UNCHANGED <<defined, sampling, rates, packets,
                 learned, rateLearned>>

\* Any other decoding error ends the call; what the packet defined so far stays.
Malformed(w) ==
  /\ At(w, "decode")
  /\ Return(w)
  /\ UNCHANGED <<cacheVars, packets, learned, rateLearned>>

\* A packet with an unknown template is not produced at all.
UnknownTemplate(w) ==
  /\ At(w, "decode")
  /\ job[w].sets = <<>>
  /\ job[w].missing # {}
  /\ Return(w)
  /\ UNCHANGED <<cacheVars, packets, learned, rateLearned>>

Decoded(w) ==
  /\ At(w, "decode")
  /\ job[w].sets = <<>>
  /\ job[w].missing = {}
  /\ Become(w, [job[w] EXCEPT !.at = "sampling"])
  /\ UNCHANGED <<cacheVars, packets, learned, rateLearned, sure>>

\* A NetFlow v5 packet knows no templates and brings its own sampling rate.
DecodeV5(w) ==
  /\ At(w, "decode")
  /\ job[w].sets = <<>>
  /\ job[w].missing = {}
  /\ Become(w, [job[w] EXCEPT !.at = "send", !.rated = TRUE])
  /\ UNCHANGED <<cacheVars, packets, learned, rateLearned, sure>>

\* Mutant: the result of the lookup is used without a check.
LookupSamplingUnchecked(w) ==
  /\ At(w, "sampling")
  /\ Become(w, [job[w] EXCEPT !.at = "rate",
                              !.rateSys = sampling[HostOf(job[w].src)]])
  /\ UNCHANGED <<cacheVars, packets, learned, rateLearned, sure>>

\* getSamplingRateSystem, in the same two lock sections.
LookupSampling(w) ==
  /\ At(w, "sampling")
  /\ LET y == sampling[HostOf(job[w].src)]
     IN  Become(w, [job[w] EXCEPT
                      !.at = IF y = NoSys THEN "createSampling" ELSE "rate",
                      !.rateSys = y])
  /\ UNCHANGED <<cacheVars, packets, learned, rateLearned, sure>>

\* Mutant: the new system is not stored in p.sampling.
CreateSamplingUnstored(w) ==
  /\ At(w, "createSampling")
  /\ Become(w, [job[w] EXCEPT !.at = "rate", !.rateSys = job[w].number])
  /\ UNCHANGED <<templates, defined, sampling, rates, packets, learned,
                 rateLearned, sure>>

CreateSampling(w) ==
  /\ At(w, "createSampling")
  /\ Become(w, [job[w] EXCEPT !.at = "rate", !.rateSys = job[w].number])
  /\ sampling' = [sampling EXCEPT ![HostOf(job[w].src)] = job[w].number]
  /\ UNCHANGED <<templates, defined, rates, packets, learned,
                 rateLearned, sure>>

\* The rate in the packet's options, stored, or else the one stored before.
ApplyRate(w) ==
  /\ At(w, "rate")
  /\ LET j == job[w]
     IN  /\ Become(w, [j EXCEPT !.at = "send",
                                !.rated = j.option \/ j.rateSys \in rates])
         /\ rates' = IF j.option THEN rates \cup {j.rateSys} ELSE rates
         /\ rateLearned' = IF j.option THEN rateLearned \cup {HostOf(j.src)}
                           ELSE rateLearned
  /\ UNCHANGED <<templates, defined, sampling, packets,
                 learned, sure>>

\* A record cannot be converted: Produce returns before it looks at the options.
ProduceFails(w) ==
  /\ At(w, "rate")
  /\ Return(w)
  /\ UNCHANGED <<cacheVars, packets, learned, rateLearned>>

\* formatSend, to the end or to its first error, and Commit.
FormatSend(w) ==
  /\ At(w, "send")
  /\ Return(w)
  /\ UNCHANGED <<cacheVars, packets, learned, rateLearned>>

-----------------------------------------------------------------------------
DecodeFlow(w) ==
  \/ LookupTemplates(w) \/ CreateTemplates(w)
  \/ AddTemplate(w) \/ DecodeData(w) \/ Malformed(w)
  \/ UnknownTemplate(w) \/ Decoded(w) \/ DecodeV5(w)
  \/ LookupSampling(w) \/ CreateSampling(w)
  \/ ApplyRate(w) \/ ProduceFails(w) \/ FormatSend(w)

Next == \E w \in Workers :
          \/ \E e \in Exporters, s \in PacketSets : Accept(w, e, s)
          \/ DecodeFlow(w)

Spec == Init /\ [][Next]_vars

-----------------------------------------------------------------------------
(* Properties *)

TypeOK ==
  /\ job \in [Workers -> Jobs]
  /\ templates \in [Exporters -> Systems \cup {NoSys}]
  /\ defined \in [Systems -> SUBSET Ids]
  /\ sampling \in [Hosts -> Systems \cup {NoSys}]
  /\ rates \subseteq Systems
  /\ packets \in 0..MaxPackets
  /\ learned \in [Exporters -> SUBSET Ids]
  /\ rateLearned \subseteq Hosts
  /\ sure \in [Workers -> [ids : SUBSET Ids, rate : BOOLEAN]]

\* A template system belongs to one exporter: no worker of another exporter
\* holds it, so no packet is decoded with another exporter's templates.
SystemsAreApart ==
  /\ \A e, f \in Exporters :
       e # f /\ templates[e] # NoSys => templates[e] # templates[f]
  /\ \A v, w \in Workers :
       job[v].sys # NoSys /\ job[v].src # job[w].src => job[v].sys # job[w].sys
  /\ \A w \in Workers, e \in Exporters :
       job[w].sys # NoSys /\ job[w].src # e => templates[e] # job[w].sys

\* Data is decoded with templates its own exporter has sent, never others.
OnlyOwnTemplates ==
  \A e \in Exporters :
    templates[e] # NoSys => defined[templates[e]] \subseteq learned[e]

\* Creations settle: once an exporter has a template system and no worker is
\* about to create one, that system is its system for ever and keeps every
\* template (nothing in DecodeFlow removes a template or a system).
Settled(e) == /\ templates[e] # NoSys
              /\ \A w \in Workers : job[w].src = e => job[w].at # "create"
SystemsSettle ==
  [][\A e \in Exporters :
       Settled(e) => /\ templates'[e] = templates[e]
                     /\ defined[templates[e]] \subseteq defined'[templates[e]]
                     /\ \A w \in Workers : job'[w].src = e => job'[w].at # "create"
    ]_vars

\* A stored template can be retrieved: every id an exporter has defined is in
\* the system its next packet will be decoded with (templates.go:18).
StoredIsRetrievable ==
  \A e \in Exporters : templates[e] # NoSys => learned[e] \subseteq defined[templates[e]]

\* No data set is without a template that its packet could rely on when its worker
\* took it, or that the packet has defined before it (netflow.go:317-396).
SureTemplatesAreFound ==
  [][\A w \in Workers : job'[w].missing \cap sure[w].ids \subseteq job[w].missing]_vars

\* Once a host has sent its sampling rate, the messages of its later packets
\* carry it; without it the tables of sql/ count each sampled packet once.
SureRateIsApplied ==
  \A w \in Workers : At(w, "send") /\ sure[w].rate => job[w].rated
=============================================================================
